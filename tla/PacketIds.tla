---------------------------- MODULE PacketIds ----------------------------
(***************************************************************************)
(* Arithmetic of packet ids (Packet.h, Connection.cpp).                    *)
(*                                                                         *)
(* An id is an unsigned integer whose largest value is MaxPossibleId       *)
(* (65535 in the program).  Zero is InvalidId: unreliable packets carry    *)
(* it, and the sequence of reliable ids goes from MaxPossibleId to 1.      *)
(***************************************************************************)
EXTENDS Integers

CONSTANT MaxPossibleId   \* ~0 of the unsigned IdType

ASSUME MaxPossibleIdAssumption == MaxPossibleId \in Nat \ {0}

InvalidId == 0

Id      == 0 .. MaxPossibleId   \* every value of IdType
ValidId == 1 .. MaxPossibleId   \* the ids a reliable packet can carry

HalfId == MaxPossibleId \div 2

\* Subtraction of the unsigned type: it wraps at zero, through InvalidId.
Minus(id, n) == IF n <= id THEN id - n ELSE id - n + MaxPossibleId + 1

\* Slip: the wrap skips one id too many.
NextIdSlip(id) == IF id = MaxPossibleId THEN 2 ELSE id + 1

\* Slip: the sequence number has a wider type than the id.
NextIdWide(id) == id + 1

\* GetIndexForNextPacket, and one turn of the loop of EnqueueProcessablePackets:
\* increment, and increment once more when the result is InvalidId.
NextId(id) == IF id = MaxPossibleId THEN 1 ELSE id + 1

\* NextId applied n times to id, for n <= MaxPossibleId.
IdAfter(id, n) == IF id + n <= MaxPossibleId THEN id + n
                                             ELSE id + n - MaxPossibleId

\* Slip: the comparison does not know that ids wrap.
IsLaterSlip(currentId, newId) == newId > currentId

\* The condition under which UpdateAckId takes newId for the latest packet.
IsLater(currentId, newId) ==
  \/ currentId = InvalidId
  \/ newId >= currentId /\ newId - currentId < HalfId
  \/ newId < currentId  /\ currentId - newId > HalfId
==========================================================================
