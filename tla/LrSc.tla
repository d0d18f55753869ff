-------------------------------- MODULE LrSc --------------------------------
(***************************************************************************)
(* What RV64A promises the guest: every load-reserved, store-conditional,  *)
(* atomic read-modify-write and store that a hart begins takes place once, *)
(* at one instant, at the address and with the operand it was begun with.  *)
(* Reservation.tla implements it.                                          *)
(***************************************************************************)
EXTENDS Integers

CONSTANTS Harts, Units, LineUnits, Modulus

VARIABLES mem,      \* mem[u]: guest RAM, in units of four bytes
          reserved, \* reserved[h]: the location h holds a reservation for
          result,   \* result[h]: what the last instruction of h returned
          asked     \* asked[h]: the instruction h has begun, until it takes place

vars == <<mem, reserved, result, asked>>

NoLocation == [at |-> -1, width |-> 0]
NoRequest  == [kind |-> "none", at |-> 0, width |-> 1, value |-> 0]
Requests   == [kind : {"lr", "sc", "amo", "store"}, at : Nat, width : {1, 2},
               value : 0 .. Modulus - 1]

\* The units a location covers, and those of the line its address lies in.
Covers(l) == l.at .. l.at + l.width - 1
Line(l)   == {u \in Units : u \div LineUnits = l.at \div LineUnits}
Locations == {l \in [at : Units, width : {1, 2}] : Covers(l) \subseteq Units}

Returns(h, kind, value) ==
  result' = [result EXCEPT ![h] = [kind |-> kind, value |-> value]]

Read(l) == [i \in 1 .. l.width |-> mem[l.at + i - 1]]

Write(l, value) ==
  mem' = [u \in Units |-> IF u \in Covers(l) THEN value[u - l.at + 1] ELSE mem[u]]

\* The operand of h in every unit of a location.
Operand(h, l) == [i \in 1 .. l.width |-> asked[h].value]

\* The instruction that h has begun, of this kind and at this location, takes place.
Takes(h, kind, l) ==
  /\ asked[h].kind = kind /\ asked[h].at = l.at /\ asked[h].width = l.width
  /\ asked' = [asked EXCEPT ![h] = NoRequest]

\* No reservation survives a write to its line.
Break(l) ==
  reserved' = [h \in Harts |-> IF /\ reserved[h] # NoLocation
                                  /\ Line(reserved[h]) \cap Covers(l) # {}
                               THEN NoLocation ELSE reserved[h]]
-----------------------------------------------------------------------------
Init ==
  /\ mem = [u \in Units |-> 0]
  /\ reserved = [h \in Harts |-> NoLocation]
  /\ result = [h \in Harts |-> [kind |-> "none", value |-> <<>>]]
  /\ asked = [h \in Harts |-> NoRequest]

Begin(h) ==
  /\ asked[h] = NoRequest /\ asked'[h] \in Requests
  /\ asked' = [asked EXCEPT ![h] = asked'[h]]
  /\ Returns(h, "none", <<>>)
  /\ UNCHANGED <<mem, reserved>>

Trap(h) ==
  /\ asked[h] = NoRequest
  /\ \E kind \in {"misaligned", "denied", "refused"} : Returns(h, kind, <<>>)
  /\ UNCHANGED <<mem, reserved, asked>>

\* One hart per line holds a reservation: the last to load-reserve it.
LoadReserved(h, l) ==
  /\ Takes(h, "lr", l)
  /\ Returns(h, "value", Read(l))
  /\ reserved' = [g \in Harts |->
                    IF g = h THEN l
                    ELSE IF reserved[g] # NoLocation /\ Line(reserved[g]) = Line(l)
                         THEN NoLocation ELSE reserved[g]]
  /\ UNCHANGED mem

StoreConditional(h, l) ==
  /\ Takes(h, "sc", l)
  /\ \/ /\ reserved[h] = l
        /\ Write(l, Operand(h, l))
        /\ Break(l)
        /\ Returns(h, "ok", <<>>)
     \/ /\ reserved[h] # l
        /\ reserved' = [reserved EXCEPT ![h] = NoLocation]
        /\ Returns(h, "fail", <<>>)
        /\ UNCHANGED mem

\* The value returned is the value replaced, and the one the operand is added to.
ReadModifyWrite(h, l) ==
  /\ Takes(h, "amo", l)
  /\ Write(l, [i \in 1 .. l.width |-> (Read(l)[i] + asked[h].value) % Modulus])
  /\ Break(l)
  /\ Returns(h, "value", Read(l))

Store(h, l) ==
  /\ Takes(h, "store", l)
  /\ Write(l, Operand(h, l))
  /\ Break(l)
  /\ UNCHANGED result

\* A store outside the RAM is a device's.
StoreDevice(h) ==
  /\ asked[h].kind = "store"
  /\ [at |-> asked[h].at, width |-> asked[h].width] \notin Locations
  /\ asked' = [asked EXCEPT ![h] = NoRequest]
  /\ UNCHANGED <<mem, reserved, result>>

Finish(h) ==
  /\ asked[h] = NoRequest
  /\ Returns(h, "done", <<>>)
  /\ UNCHANGED <<mem, reserved, asked>>

Next ==
  \E h \in Harts :
    \/ Begin(h) \/ Trap(h) \/ StoreDevice(h) \/ Finish(h)
    \/ \E l \in Locations :
         \/ LoadReserved(h, l) \/ StoreConditional(h, l) \/ ReadModifyWrite(h, l)
         \/ Store(h, l)

Spec == Init /\ [][Next]_vars
=============================================================================
