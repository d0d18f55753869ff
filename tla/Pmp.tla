-------------------------------- MODULE Pmp ---------------------------------
(***************************************************************************)
(* Physical memory protection (cpu/pmp.ts): writes of the configuration    *)
(* and address registers, and the decision on an access.  An entry's       *)
(* configuration is a record of its permissions, address mode and lock;    *)
(* its reserved bits are dropped by every write and are left out.          *)
(***************************************************************************)
EXTENDS Integers, FiniteSetsExt

CONSTANTS
    PMP_ENTRY_COUNT,    \* 16 in the program
    ENTRIES_PER_CFG,    \* 8: a pmpcfg register holds this many entries
    PmpAddressBits,     \* 54: the implemented bits of pmpaddr
    CfgBytes,           \* what the guest writes to an entry's configuration
    PmpAddresses,       \* what the guest writes to an address register
    Starts              \* first bytes of the accesses decided

Entries == 0 .. PMP_ENTRY_COUNT - 1
Modes   == {"OFF", "TOR", "NA4", "NAPOT"}
Kinds   == {"load", "store", "amo", "fetch"}
AccessSizes   == {1, 2, 4, 8}
Configs == [permissions : SUBSET {"R", "W", "X"}, mode : Modes, lock : BOOLEAN]

ASSUME PmpAssumption ==
    /\ PMP_ENTRY_COUNT \in Nat /\ ENTRIES_PER_CFG \in Nat \ {0} /\ PmpAddressBits \in Nat
    /\ CfgBytes \subseteq Configs
    /\ PmpAddresses \subseteq Nat /\ Starts \subseteq Nat

\* Power2[k]: the program's 1n << k, as far as the range of an entry needs it.
Power2[k \in 0 .. PmpAddressBits + 3] == IF k = 0 THEN 1 ELSE 2 * Power2[k - 1]

VARIABLES
    pmpcfg,     \* [permissions, mode, lock] of each entry
    pmpaddr     \* the address register of each entry

pmpVars == <<pmpcfg, pmpaddr>>
-----------------------------------------------------------------------------
(* Register writes *)

\* W without R does not stick.
legalizePmpCfgByte(b) ==
    IF "W" \in b.permissions /\ "R" \notin b.permissions
    THEN [b EXCEPT !.permissions = @ \ {"W"}] ELSE b

\* A write of the configuration register of entries es: locked entries keep theirs.
legalizePmpCfg(es, incoming) ==
    [e \in Entries |-> IF e \notin es \/ pmpcfg[e].lock THEN pmpcfg[e]
                       ELSE legalizePmpCfgByte(incoming[e])]

\* Mutated form: a locked top-of-range entry does not hold the entry below.
OnlyOwnLock(e) == pmpcfg[e].lock

pmpAddressWriteIgnored(e) ==
    \/ pmpcfg[e].lock
    \/ e + 1 \in Entries /\ pmpcfg[e + 1].lock /\ pmpcfg[e + 1].mode = "TOR"

legalizePmpAddr(value) == value % Power2[PmpAddressBits]
-----------------------------------------------------------------------------
(* The decision *)

\* The loop counts ones until the first zero.
trailingOnes(value) == Min({k \in 0 .. PmpAddressBits : (value \div Power2[k]) % 2 = 0})

NoRange == [low |-> 0, high |-> 0]

\* The bytes of an entry, low inclusive; OFF and an empty TOR match nothing.
entryRange(e) ==
    LET high == 4 * pmpaddr[e]
        low  == IF e = 0 THEN 0 ELSE 4 * pmpaddr[e - 1]
        ones == trailingOnes(pmpaddr[e])
        base == 4 * (pmpaddr[e] - (pmpaddr[e] % Power2[ones + 1]))
    IN CASE pmpcfg[e].mode = "OFF"   -> NoRange
         [] pmpcfg[e].mode = "TOR"   -> IF low < high THEN [low |-> low, high |-> high] ELSE NoRange
         [] pmpcfg[e].mode = "NA4"   -> [low |-> high, high |-> high + 4]
         [] pmpcfg[e].mode = "NAPOT" -> [low |-> base, high |-> base + Power2[ones + 3]]

\* Mutated form: an access that ends where the range starts overlaps it.
Touches(range, start, end) == range # NoRange /\ end >= range.low /\ start < range.high

Overlaps(range, start, end) == range # NoRange /\ end > range.low /\ start < range.high

permissionGranted(cfg, access) ==
    CASE access = "load"  -> "R" \in cfg.permissions
      [] access = "store" -> "W" \in cfg.permissions
      [] access = "fetch" -> "X" \in cfg.permissions
      [] OTHER            -> {"R", "W"} \subseteq cfg.permissions

\* MPRV replaces the mode by MPP, except for a fetch.
accessIsMachine(privilege, mstatus, access) ==
    IF access # "fetch" /\ "MPRV" \in mstatus
    THEN {"MPP0", "MPP1"} \subseteq mstatus ELSE privilege = 3

\* The lowest entry that overlaps the access decides, if it covers all of it.
physicalMemoryAccessDenied(privilege, mstatus, start, size, access) ==
    LET end     == start + size
        machine == accessIsMachine(privilege, mstatus, access)
        hits    == {e \in Entries : Overlaps(entryRange(e), start, end)}
        first   == CHOOSE e \in hits : \A f \in hits : e <= f
    IN IF hits = {} THEN ~machine
       ELSE \/ start < entryRange(first).low \/ end > entryRange(first).high
            \/ ~(machine /\ ~pmpcfg[first].lock) /\ ~permissionGranted(pmpcfg[first], access)
-----------------------------------------------------------------------------
PmpInit ==
    /\ pmpcfg = [e \in Entries |-> [permissions |-> {}, mode |-> "OFF", lock |-> FALSE]]
    /\ pmpaddr = [e \in Entries |-> 0]

\* A write of one pmpcfg register reaches all of its entries at once.
WriteCfg ==
    \E register \in {e \div ENTRIES_PER_CFG : e \in Entries} :
        LET es == {e \in Entries : e \div ENTRIES_PER_CFG = register} IN
        \E incoming \in [es -> CfgBytes] :
            /\ pmpcfg' = legalizePmpCfg(es, incoming)
            /\ UNCHANGED pmpaddr

WriteAddr ==
    \E e \in Entries, value \in PmpAddresses :
        /\ pmpaddr' = IF pmpAddressWriteIgnored(e) THEN pmpaddr
                      ELSE [pmpaddr EXCEPT ![e] = legalizePmpAddr(value)]
        /\ UNCHANGED pmpcfg

PmpNext == WriteCfg \/ WriteAddr

PmpSpec == PmpInit /\ [][PmpNext]_pmpVars
-----------------------------------------------------------------------------
(* Properties *)

\* Whether byte x belongs to entry e, as the privileged manual encodes it.
Member(e, x) ==
    CASE pmpcfg[e].mode = "OFF" -> FALSE
      [] pmpcfg[e].mode = "TOR" -> (e = 0 \/ 4 * pmpaddr[e - 1] <= x) /\ x < 4 * pmpaddr[e]
      [] pmpcfg[e].mode = "NA4" -> x \div 4 = pmpaddr[e]
      [] OTHER -> \E k \in 0 .. PmpAddressBits :
                      /\ pmpaddr[e] % Power2[k + 1] = Power2[k] - 1
                      /\ x \div Power2[k + 3] = pmpaddr[e] \div Power2[k + 1]

Contexts ==
    {[privilege |-> 3, mstatus |-> {}, machine |-> TRUE],
     [privilege |-> 1, mstatus |-> {"MPP0", "MPP1"}, machine |-> FALSE],
     [privilege |-> 3, mstatus |-> {"MPRV", "MPP0"}, machine |-> FALSE],
     [privilege |-> 3, mstatus |-> {"MPRV", "MPP0", "MPP1"}, machine |-> TRUE]}

\* The permissions each kind of access needs; an AMO is a load and a store.
Needs == [load |-> {"R"}, store |-> {"W"}, fetch |-> {"X"}, amo |-> {"R", "W"}]

\* The decision is the manual's: of the entries with a byte of the access the lowest must
\* have all of them, and its permissions bind S and U always, M only if it is locked; with
\* no such entry M passes and S and U do not (physicalMemoryAccessDenied, entryRange).
DeniesExactly == pmpcfg # <<>> =>
    \A start \in Starts, size \in AccessSizes :
        LET bytes_ == start .. start + size - 1
            hits   == {e \in Entries : \E x \in bytes_ : Member(e, x)}
            first  == CHOOSE e \in hits : \A f \in hits : e <= f
            Allowed(machine, access) ==
                IF hits = {} THEN machine
                ELSE /\ \A x \in bytes_ : Member(first, x)
                     /\ (machine /\ ~pmpcfg[first].lock) \/ Needs[access] \subseteq pmpcfg[first].permissions
        IN \A c \in Contexts, access \in Kinds :
              physicalMemoryAccessDenied(c.privilege, c.mstatus, start, size, access) =
                  ~Allowed(c.machine \/ (access = "fetch" /\ c.privilege = 3), access)

\* Once an entry is locked, what it covers and what it permits never change again, the
\* lower bound it takes from the entry below included (legalizePmpCfg, pmpAddressWriteIgnored).
LockedForGood ==
    [][\A e \in DOMAIN pmpcfg : pmpcfg[e].lock =>
          pmpcfg'[e] = pmpcfg[e] /\ entryRange(e)' = entryRange(e)]_pmpVars
=============================================================================
