---------------------------- MODULE MCReservation ---------------------------
\* Two harts on two lines of two units, and a device register after the RAM.
EXTENDS Reservation, TLC

Op(kind, at, width, value) == [kind |-> kind, at |-> at, width |-> width, value |-> value]

MCUnits  == 0 .. 3
MCDevice == {4}
MCDenied == {0}

\* Hart 0 runs an LR/SC loop on one or two units, hart 1 everything that may
\* interfere: its own LR/SC on the line, an amo over it, a store that runs into
\* it from the line before, a device store, and accesses that trap.
MCWorkload ==
  (0 :> {Op("lr", 2, 1, 0), Op("lr", 2, 2, 0), Op("sc", 2, 1, 1), Op("sc", 2, 2, 1)}) @@
  (1 :> {Op("lr", 2, 1, 0), Op("sc", 2, 1, 0), Op("amo", 2, 2, 1), Op("store", 1, 2, 1),
         Op("store", 4, 1, 1), Op("amo", 0, 1, 1), Op("sc", 1, 2, 1)})
=============================================================================
