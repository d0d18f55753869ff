----------------------------- MODULE MemoryMap -----------------------------
(***************************************************************************)
(* Guest memory (memory.ts, ram.ts): the regions packed into one buffer,   *)
(* the search for the region of a guest address, and loads and stores of   *)
(* RAM.  A load or store that lands in a device is handed to that device,  *)
(* whose module models it; here it only names the device and the offset.   *)
(***************************************************************************)
EXTENDS Integers, Sequences, FiniteSetsExt

CONSTANTS
    Layouts,            \* sequences of region specifications
    GuestAddresses,     \* 0 .. n, the guest physical address space
    StoreSources,       \* byte sequences a store may write a prefix of
    MaxStores,          \* the bound on the stores of a behaviour
    REGION_HOST_ALIGN   \* 8 in the program

\* HostOnly is guestAddress: null.
HostOnly == -1

RegionSpecs == [id : STRING, hostByteLength : Nat,
                guestAddress : Nat \cup {HostOnly}, guestByteLength : Nat]

Windows(s) == {i \in DOMAIN s : s[i].guestAddress # HostOnly}

\* What createEmulator passes: each region once, lengths that are not negative (createMemory
\* would throw), no empty window (those of the devices have constant lengths, RAM's must have
\* the reset PC), and a slab for all of RAM's window.
ASSUME MemoryAssumption ==
    /\ REGION_HOST_ALIGN \in Nat \ {0} /\ GuestAddresses \subseteq Nat /\ MaxStores \in Nat
    /\ \A s \in Layouts :
        /\ s \in Seq(RegionSpecs)
        /\ \A i, j \in DOMAIN s : s[i].id = s[j].id => i = j
        /\ \A i \in Windows(s) : s[i].guestByteLength > 0
        /\ \A i \in DOMAIN s : s[i].id = "ram" => s[i].guestByteLength <= s[i].hostByteLength

VARIABLES
    specs,      \* the argument of createMemory
    bytes,      \* the shared buffer, by host index, or <<>> when createMemory threw
    reached,    \* [region, offset] the last store was dispatched to
    stored      \* history: which store that was, and the arguments of its call

memoryVars == <<specs, bytes, reached, stored>>
-----------------------------------------------------------------------------
alignUp(value, alignment) == ((value + alignment - 1) \div alignment) * alignment

rangesOverlap(aBase, aSize, bBase, bSize) ==
    aSize > 0 /\ bSize > 0 /\ aBase < bBase + bSize /\ bBase < aBase + aSize

findOverlappingPair(s) ==
    {p \in Windows(s) \X Windows(s) :
        p[1] < p[2] /\ rangesOverlap(s[p[1]].guestAddress, s[p[1]].guestByteLength,
                                     s[p[2]].guestAddress, s[p[2]].guestByteLength)}

Throws(s) == findOverlappingPair(s) # {}

\* packedByteLength after the first i regions.
packedByteLength(s) ==
    LET next[i \in 0 .. Len(s)] ==
            IF i = 0 THEN 0 ELSE alignUp(next[i - 1], REGION_HOST_ALIGN) + s[i].hostByteLength
    IN next

hostIndex(i) == alignUp(packedByteLength(specs)[i - 1], REGION_HOST_ALIGN)

\* The stable sort of the windows by ascending base: i comes before j.
SortsBefore(i, j) ==
    \/ specs[i].guestAddress < specs[j].guestAddress
    \/ specs[i].guestAddress = specs[j].guestAddress /\ i < j

\* Its k-th window is the one with k - 1 before it.
regionsByBaseGuestAddress ==
    LET Before(i) == {j \in Windows(specs) : SortsBefore(j, i)} IN
    [k \in 1 .. Cardinality(Windows(specs)) |->
        CHOOSE i \in Windows(specs) : Cardinality(Before(i)) = k - 1]

\* Mutated form: the upper half is entered at the middle element.
FindLastMutant(items, address) ==
    LET search[p \in (0 .. Len(items)) \X (0 .. Len(items))] ==
            LET mid == (p[1] + p[2]) \div 2 IN
            IF p[1] >= p[2] THEN p[1] - 1
            ELSE IF specs[items[mid + 1]].guestAddress <= address THEN search[<<mid + 1, p[2] - 1>>]
            ELSE search[<<p[1], mid>>]
    IN search[<<0, Len(items)>>]

\* The index from 0 of the last of items, windows by ascending base, at or below address, or -1.
findLastIndex(items, address) ==
    LET search[p \in (0 .. Len(items)) \X (0 .. Len(items))] ==
            LET mid == (p[1] + p[2]) \div 2 IN
            IF p[1] >= p[2] THEN p[1] - 1
            ELSE IF specs[items[mid + 1]].guestAddress <= address THEN search[<<mid + 1, p[2]>>]
            ELSE search[<<p[1], mid>>]
    IN search[<<0, Len(items)>>]

Unmapped == [region |-> 0, offset |-> 0]

resolveGuestAddressToRegionAndOffset(address) ==
    LET index == findLastIndex(regionsByBaseGuestAddress, address)
        hit == regionsByBaseGuestAddress[index + 1]
    IN IF index < 0 \/ address >= specs[hit].guestAddress + specs[hit].guestByteLength
       THEN Unmapped
       ELSE [region |-> hit, offset |-> address - specs[hit].guestAddress]

guestAccessIsMapped(address, byteLength) ==
    LET at == resolveGuestAddressToRegionAndOffset(address) IN
    at # Unmapped /\ at.offset + byteLength <= specs[at.region].guestByteLength

\* Mutated form: an offset past the window still finds the slab's host-only tail.
DenseMutant(ram, guestOffset) ==
    IF guestOffset >= specs[ram].hostByteLength THEN HostOnly ELSE hostIndex(ram) + guestOffset

denseGuestToHostIndex(ram, guestOffset) ==
    IF guestOffset >= specs[ram].guestByteLength \/ guestOffset >= specs[ram].hostByteLength
    THEN HostOnly ELSE hostIndex(ram) + guestOffset

RAM(region) == region # 0 /\ specs[region].id = "ram"

loadBytes(address, byteLength) ==
    LET at == resolveGuestAddressToRegionAndOffset(address)
        Source(k) == denseGuestToHostIndex(at.region, at.offset + k - 1)
    IN [k \in 1 .. byteLength |->
            IF ~RAM(at.region) \/ Source(k) = HostOnly THEN 0 ELSE bytes[Source(k) + 1]]
-----------------------------------------------------------------------------
\* A call of storeBytes, the number-th.
Call(number, address, source, byteLength) ==
    [number |-> number, address |-> address, source |-> source, byteLength |-> byteLength]

MemoryInit ==
    \E s \in Layouts :
        /\ specs = s
        /\ bytes = IF Throws(s) THEN <<>>
                   ELSE [i \in 1 .. packedByteLength(s)[Len(s)] |-> 0]
        /\ reached = Unmapped
        /\ stored = Call(0, 0, <<>>, 0)

storeBytes(address, source, byteLength) ==
    LET at == resolveGuestAddressToRegionAndOffset(address)
        targets == [k \in 1 .. byteLength |-> denseGuestToHostIndex(at.region, at.offset + k - 1)]
    IN /\ reached' = at
       /\ bytes' = IF RAM(at.region)
                   THEN [i \in DOMAIN bytes |-> IF i - 1 \in Range(targets)
                                               THEN source[AntiFunction(targets)[i - 1]] ELSE bytes[i]]
                   ELSE bytes
       /\ UNCHANGED specs

\* One store after another, up to the bound.
MemoryNext ==
    /\ ~Throws(specs) /\ stored.number < MaxStores
    /\ \E address \in GuestAddresses, source \in StoreSources, n \in {1, 2, 4} :
            /\ storeBytes(address, source, n)
            /\ stored' = Call(stored.number + 1, address, source, n)

MemorySpec == MemoryInit /\ [][MemoryNext]_memoryVars
-----------------------------------------------------------------------------
(* Properties *)

Window(i) == specs[i].guestAddress .. specs[i].guestAddress + specs[i].guestByteLength - 1
Slab(i) == hostIndex(i) .. hostIndex(i) + specs[i].hostByteLength - 1

\* The buffer that createMemory returns holds every slab, aligned, and no two slabs or
\* windows share a byte; it throws exactly when two windows do.  Every guest address is
\* found in the window that has it and nowhere else, and an access is mapped exactly when
\* one window has all of its bytes (createMemory, findOverlappingPair,
\* resolveGuestAddressToRegionAndOffset, guestAccessIsMapped).
ResolvesExactly == specs # <<>> =>
    /\ Throws(specs) <=> \E i, j \in Windows(specs) : i # j /\ Window(i) \cap Window(j) # {}
    /\ ~Throws(specs) =>
        /\ \A i, j \in DOMAIN specs : i # j => Slab(i) \cap Slab(j) = {}
        /\ \A i \in DOMAIN specs : hostIndex(i) % REGION_HOST_ALIGN = 0
                                   /\ \A h \in Slab(i) : h + 1 \in DOMAIN bytes
        /\ \A a \in GuestAddresses :
            /\ resolveGuestAddressToRegionAndOffset(a) =
                   IF \E i \in Windows(specs) : a \in Window(i)
                   THEN LET i == CHOOSE i \in Windows(specs) : a \in Window(i)
                        IN [region |-> i, offset |-> a - specs[i].guestAddress]
                   ELSE Unmapped
            /\ \A n \in {1, 2, 4, 8} : guestAccessIsMapped(a, n) <=>
                   \E i \in Windows(specs) : a .. a + n - 1 \subseteq Window(i)

\* What a store of n bytes at address a, which resolves to at, changes: the bytes of the
\* access that are in RAM's window, at the host indices of written, and what a load returns.
Stored(at, a, source, n) ==
    LET first == hostIndex(at.region) + at.offset
        written == IF RAM(at.region)
                   THEN first .. first + Min({n, specs[at.region].guestByteLength - at.offset}) - 1
                   ELSE {}
    IN /\ reached' = at
       /\ \A h \in 0 .. Len(bytes) - 1 :
              bytes'[h + 1] = IF h \in written THEN source[h - first + 1] ELSE bytes[h + 1]
       /\ RAM(at.region) =>
              loadBytes(a, n)' = [k \in 1 .. n |-> IF a + k - 1 \in Window(at.region)
                                                 THEN source[k] ELSE 0]

\* A call of storeBytes changes the RAM bytes that its own arguments address, every one of
\* them, and nothing else in the buffer: not the next region, not a device, not the host-only
\* bytes that hold the queues, the wires and the locks; a load of the same bytes then returns
\* what was stored, over what an earlier store left there, and zero past the end of RAM
\* (storeBytes, storeBytesToRam, denseGuestToHostIndex, loadBytesFromRam).
StoreIsExact ==
    [][ \E a \in GuestAddresses, source \in StoreSources, n \in {1, 2, 4} :
            /\ stored' = Call(stored.number + 1, a, source, n)
            /\ Stored(resolveGuestAddressToRegionAndOffset(a), a, source, n) ]_memoryVars
=============================================================================
