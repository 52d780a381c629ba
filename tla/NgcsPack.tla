------------------------------ MODULE NgcsPack ------------------------------
(***************************************************************************)
(* The structures of the ngcs protocol: ngcs_pack lays items out behind    *)
(* each other (type, length, contents), in two passes, one for the size    *)
(* and one that writes; ngcs_unpack goes through what was received twice,  *)
(* once to count the items and once to take them apart.                    *)
(*                                                                         *)
(* A buffer is a sequence of ints, the unit all sizes are counted in: an   *)
(* int is one, a long two (low half first), a string is one per character. *)
(* l, the rest of the buffer, is an int of limited width and wraps.        *)
(***************************************************************************)
EXTENDS Integers, Sequences, SequencesExt

CONSTANTS
    Items,      \* the items a structure is made of
    MAX_ITEMS,  \* bound: items of a structure
    MAX_INT,    \* the largest int
    Broken      \* lengths a peer that counts wrongly may write

NGCS_TYPE_NULL == 0
NGCS_TYPE_INT == 1
NGCS_TYPE_STRING == 2
NGCS_TYPE_LONG == 4

Wrap(x) == ((x + MAX_INT + 1) % (2 * (MAX_INT + 1))) - (MAX_INT + 1)

\* k cells of b from position i on, as far as it has them.
Cells(b, i, k) == SubSeq(b, i + 1, IF i + k <= Len(b) THEN i + k ELSE Len(b))

VARIABLES
    items,      \* what is packed
    at,         \* "size", "pack", "recv", "count", "fill" or "done"
    n,          \* items the running pass has behind it
    size,       \* what the first pass returned
    buf,        \* what the second pass wrote
    wire,       \* what was received
    d, l,       \* position in it, and what ngcs_unpack takes for the rest
    room,       \* ngcs_data that were allocated
    res,        \* items taken apart
    ret         \* "ok" or "error"

vars == <<items, at, n, size, buf, wire, d, l, room, res, ret>>
packing == <<items, size, buf>>

Init ==
    /\ items \in UNION {[1..k -> Items] : k \in 1..MAX_ITEMS}
    /\ at = "size" /\ n = 0 /\ size = 0 /\ buf = <<>> /\ wire = <<>>
    /\ d = 0 /\ l = 0 /\ room = 0 /\ res = <<>> /\ ret = "ok"

-----------------------------------------------------------------------------
\* The size of an item: its two heads and its contents.
Size(it) == 2 + (IF it.type = NGCS_TYPE_INT THEN 1 ELSE IF it.type = NGCS_TYPE_LONG THEN 2 ELSE Len(it.v))

\* What the second pass writes.  Of a long only an int's worth is stored; the
\* other half is whatever the buffer held.
Written(it, g) ==
    <<it.type, Size(it) - 2>> \o (IF it.type = NGCS_TYPE_LONG THEN <<it.v[1], g>> ELSE it.v)

\* ngcs_pack with no buffer.
PackSize ==
    /\ at = "size"
    /\ IF n < Len(items)
         THEN size' = size + Size(items[n + 1]) /\ n' = n + 1 /\ UNCHANGED at
         ELSE at' = "pack" /\ n' = 0 /\ UNCHANGED size
    /\ UNCHANGED <<items, buf, wire, d, l, room, res, ret>>

\* ngcs_pack into the buffer of that size.
Pack(g) ==
    /\ at = "pack"
    /\ IF n < Len(items)
         THEN buf' = buf \o Written(items[n + 1], g) /\ n' = n + 1 /\ UNCHANGED at
         ELSE at' = "recv" /\ n' = 0 /\ UNCHANGED buf
    /\ UNCHANGED <<items, size, wire, d, l, room, res, ret>>

\* ngcs_recvmsg of a peer's structure: this one, a part of it, or one with a
\* wrong length in it.
Recvmsg(data) ==
    /\ at = "recv"
    /\ wire' = data /\ d' = 0 /\ l' = Len(data)
    /\ at' = "count"
    /\ UNCHANGED <<packing, n, room, res, ret>>

Damaged ==
    {Cells(buf, 0, k) : k \in 0..Len(buf)} \cup
    {[buf EXCEPT ![i] = b] : i \in {2, 2 + Size(items[1])} \cap DOMAIN buf, b \in Broken}

\* The first loop of ngcs_unpack, and the allocation behind it.
Count ==
    /\ at = "count"
    /\ IF l < 2
         THEN /\ at' = "fill" /\ room' = n /\ n' = 0
              /\ d' = 0 /\ l' = Len(wire) /\ UNCHANGED ret
         ELSE IF wire[d + 2] < 0
           THEN at' = "done" /\ ret' = "error" /\ UNCHANGED <<n, d, l, room>>
           ELSE /\ d' = d + 2 + wire[d + 2] /\ l' = Wrap(l - (2 + wire[d + 2]))
                /\ n' = n + 1 /\ UNCHANGED <<at, room, ret>>
    /\ UNCHANGED <<packing, wire, res>>

\* ngcs_unpack_one: the wrong size for an int or a long is an error.  A long goes
\* through an int.
UnpackOne(type, len, data) ==
    [ok |-> (type = NGCS_TYPE_INT => len = 1) /\ (type = NGCS_TYPE_LONG => len = 2),
     it |-> [type |-> type, v |-> IF type = NGCS_TYPE_LONG THEN Cells(data, 0, 1) ELSE data]]


\* The second loop of ngcs_unpack.
Fill ==
    /\ at = "fill"
    /\ IF l < 2 THEN at' = "done" /\ UNCHANGED <<d, l, res, ret>>
       ELSE LET rlen == wire[d + 2]
                one == UnpackOne(wire[d + 1], rlen, Cells(wire, d + 2, rlen))
            IN IF rlen < 0 \/ l - 2 < rlen \/ ~one.ok
                 THEN at' = "done" /\ ret' = "error" /\ UNCHANGED <<d, l, res>>
                 ELSE /\ res' = Append(res, one.it)
                      /\ d' = d + 2 + rlen /\ l' = Wrap(l - 2 - rlen)
                      /\ UNCHANGED <<at, ret>>
    /\ UNCHANGED <<packing, n, wire, room>>

Next ==
    \/ PackSize \/ \E g \in {0, 1} : Pack(g)
    \/ \E data \in Damaged : Recvmsg(data)
    \/ Count \/ Fill

Spec == Init /\ [][Next]_vars

-----------------------------------------------------------------------------
\* Neither side leaves its buffer: ngcs_pack writes no more than its first pass
\* asked for, and ngcs_unpack reads heads and contents inside what was received
\* and writes no more items than it counted, whatever lengths the peer wrote.
PackInside ==
    /\ at = "pack" => Len(buf) <= size
    /\ at \in {"count", "fill"} /\ l >= 2 => d + 2 <= Len(wire)
    /\ at = "fill" => Len(res) <= room /\ d <= Len(wire)

\* An item as ngcs_unpack gives it back: a long without its upper half.
Given(it) == [it EXCEPT !.v = IF it.type = NGCS_TYPE_LONG THEN Cells(@, 0, 1) ELSE @]

\* ngcs_unpack is "the reverse of ngcs_pack" but for the upper half of a long: the
\* whole structure comes back, and of one that was cut off only items that were
\* sent, in their order.
OnlyWhatWasSent ==
    at = "done" /\ ret = "ok" /\ IsPrefix(wire, buf) =>
        /\ IsPrefix(res, [i \in DOMAIN items |-> Given(items[i])])
        /\ wire = buf => Len(res) = Len(items)
=============================================================================
