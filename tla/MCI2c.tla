------------------------------ MODULE MCI2c ------------------------------
(* Two masters and one slave: the writer talks to the slave and the chip,  *)
(* the reader reads the slave.                                             *)
EXTENDS I2c, TLC

MCDevices == {"writer", "reader", "slave"}
MCI2CADR  == "writer" :> 16 @@ "reader" :> 32 @@ "slave" :> 48

\* Data bytes differ from each other and from the first content of the map.
Data(tag, n) == [i \in 1 .. n |-> 10 * tag + i]

\* A register ahead of the data, in the data, and alone.
WriterRequests ==
    {Write("slave", 0, Data(1, 2)), Write("slave", 1, Data(2, 2)),
     Write("slave", -1, <<1>> \o Data(3, 1)), Write("slave", 2, <<>>),
     Write(Chip, -1, Data(4, 2)), Read(Chip, -1, 1), Read(Chip, -1, 2)}

MCRequests == "writer" :> WriterRequests @@ "slave" :> {}
              @@ "reader" :> {Read("slave", -1, 1), Read("slave", 2, 3)}

MCOperations == "writer" :> 2 @@ "reader" :> 1 @@ "slave" :> 0

\* What the proofs suppose of the programs holds of these.
ASSUME RunAssumption == Orderly(MCRequests)

\* One master that also writes the last register.
RolloverRequests == "writer" :> {Write("slave", r, Data(r, 2)) : r \in 0 .. 2}
                    @@ "slave" :> {} @@ "reader" :> {Read("slave", -1, 2)}
=============================================================================
