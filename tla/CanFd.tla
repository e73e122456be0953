-------------------------------- MODULE CanFd --------------------------------
(***************************************************************************)
(* The CAN FD packets of test-canfd/src: loaded from a description into a  *)
(* tree ordered by id, updated from the messages of the bus, their signals *)
(* decoded one after the other and reported to whoever subscribed, and     *)
(* changed by the program itself.  One thread runs all of it; a step is    *)
(* what happens between two calls of a subscriber.                         *)
(***************************************************************************)
EXTENDS CanTool, AvlTree, SequencesExt

CONSTANTS
    Ids,         \* the packets of the description
    Layout,      \* [Ids -> [dlc, signals]], signals a sequence of
                 \* [name, start_byte, start_bit, bit_length]
    LongBits,    \* a signal of more bits is an array of bytes: 64
    Messages,    \* what comes from the bus: [id, data], data a sequence of bytes
    Names,       \* the signals subscribed to
    Values,      \* the numbers the program sets signals to, each within bit_length
    Garbage,     \* what malloc left in an array
    MaxChanges   \* bound: messages and values set

VARIABLES
    tree, data,  \* the packets: their tree, and the bytes of each
    value,       \* value[id] is the sequence of the values of its signals
    subscribed,  \* the signals with a callback, as <<id, position>>
    told,        \* what each subscriber was told or set last
    pc,          \* "load", "ready", "signals" (in update_pkt) or "packet"
    id, at,      \* the packet being updated, the next signal of it
    copy,        \* a duplicate that canfd_search_dup2_from_id made, or None
    changes

packets == <<tree, data, value>>
vars == <<packets, subscribed, told, pc, id, at, copy, changes>>

None == [id |-> Nil]
Sig(i, j) == Layout[i].signals[j]
Positions(i) == 1 .. Len(Layout[i].signals)
IsArray(s) == s.bit_length > LongBits
ArrayLength(s) == (s.bit_length + W - 1) \div W

Zero(n) == [j \in 1 .. n |-> {}]
NewValue(s) == IF IsArray(s) THEN Garbage ELSE {}

Init == /\ tree = NewTree(Ids)
        /\ data = [i \in Ids |-> Zero(Layout[i].dlc)]
        /\ value = [i \in Ids |-> [j \in Positions(i) |-> NewValue(Sig(i, j))]]
        /\ subscribed = {} /\ told = [i \in Ids |-> value[i]]
        /\ pc = "load" /\ id = Nil /\ at = 0
        /\ copy = None /\ changes = 0

Change == changes < MaxChanges /\ changes' = changes + 1

\* canfd_load_json_config: packet after packet, in the order of the file.  A
\* second one with the same id is not inserted (and leaks).
Load ==
    /\ pc = "load"
    /\ \E i \in Ids : tree' = Insert(tree, i)
    /\ UNCHANGED <<data, value, subscribed, told, pc, id, at, copy, changes>>

\* canfd_search_sig_from_name: the first in the order of the list.
Named(i, name) == {j \in Positions(i) : Sig(i, j).name = name}
First(name) ==
    LET with == SelectSeq(Listed(tree), LAMBDA i : Named(i, name) # {})
    IN  IF with = <<>> THEN {}
        ELSE {<<with[1], CHOOSE j \in Named(with[1], name) :
                            \A k \in Named(with[1], name) : j <= k>>}

\* All is loaded, and canfd_init sets the callbacks.
Subscribe ==
    /\ pc = "load" /\ ToSet(Listed(tree)) = Ids
    /\ pc' = "ready"
    /\ subscribed' = UNION {First(name) : name \in Names}
    /\ UNCHANGED <<packets, told, id, at, copy, changes>>

-----------------------------------------------------------------------------
\* canfd_parse and update_pkt: a message for a packet that is known and long
\* enough, and that changes a byte of it.
Receive(m) ==
    /\ pc = "ready" /\ Change
    /\ Search(tree, m.id) # Nil
    /\ Len(m.data) <= Layout[m.id].dlc
    /\ SubSeq(data[m.id], 1, Len(m.data)) # m.data
    /\ data' = [data EXCEPT ![m.id] = m.data \o SubSeq(@, Len(m.data) + 1, Len(@))]
    /\ pc' = "signals" /\ id' = m.id /\ at' = 1
    /\ UNCHANGED <<tree, value, subscribed, told, copy>>

\* The value of a signal in the bytes d.
Decoded(s, d) ==
    IF IsArray(s) THEN SubSeq(d, s.start_byte + 1, s.start_byte + ArrayLength(s))
    ELSE GetMotorola(d, s.start_byte, s.start_bit, s.bit_length)

\* Reading a signal that begins at byte 0 never ends, unless it is an array.
Ends(s) == IsArray(s) \/ Terminates(s.start_byte)

\* mutant: the first signal that has not changed ends the loop
UpdateUntilSame ==
    /\ pc = "signals" /\ at <= Len(Layout[id].signals) /\ Ends(Sig(id, at))
    /\ LET new == Decoded(Sig(id, at), data[id])
       IN  /\ value' = [value EXCEPT ![id][at] = new]
           /\ told' = IF <<id, at>> \in subscribed THEN [told EXCEPT ![id][at] = new] ELSE told
           /\ at' = IF new = value[id][at] THEN Len(Layout[id].signals) + 1 ELSE at + 1
    /\ UNCHANGED <<tree, data, subscribed, pc, id, copy, changes>>

\* canfd_signal_update of the next signal, with its callback if it changed.
Update ==
    /\ pc = "signals" /\ at <= Len(Layout[id].signals) /\ Ends(Sig(id, at))
    /\ LET new == Decoded(Sig(id, at), data[id])
       IN  /\ value' = [value EXCEPT ![id][at] = new]
           /\ told' = IF <<id, at>> \in subscribed /\ new # value[id][at]
                      THEN [told EXCEPT ![id][at] = new] ELSE told
           /\ at' = at + 1
    /\ UNCHANGED <<tree, data, subscribed, pc, id, copy, changes>>

\* The callback of the packet, then that for all packets, then the return.
PacketChanged ==
    /\ pc = "signals" /\ at > Len(Layout[id].signals)
    /\ pc' = "packet"
    /\ UNCHANGED <<packets, subscribed, told, id, at, copy, changes>>
Return ==
    /\ pc = "packet"
    /\ pc' = "ready" /\ id' = Nil /\ at' = 0
    /\ UNCHANGED <<packets, subscribed, told, copy, changes>>

-----------------------------------------------------------------------------
\* The bytes d with the value v of signal s: canfd_signal_set_value and
\* canfd_signal_set_values, which need a packet that the signal belongs to.
Encoded(s, d, v) ==
    IF IsArray(s)
    THEN [j \in DOMAIN d |-> IF j - s.start_byte \in DOMAIN v THEN v[j - s.start_byte] ELSE d[j]]
    ELSE SetMotorola(d, v, s.start_byte, s.start_bit, s.bit_length)

Settable(s) == IF IsArray(s) THEN [1 .. ArrayLength(s) -> Values \cap SUBSET Bit]
               ELSE {v \in Values : v \subseteq Mask(s.bit_length)}

\* A signal of a packet, by the program; nobody is told.
SetSignal ==
    /\ pc = "ready" /\ Change
    /\ \E i \in ToSet(Listed(tree)) : \E j \in Positions(i) : \E v \in Settable(Sig(i, j)) :
          /\ Ends(Sig(i, j))
          /\ value' = [value EXCEPT ![i][j] = v]
          /\ data' = [data EXCEPT ![i] = Encoded(Sig(i, j), @, v)]
          /\ told' = [told EXCEPT ![i][j] = v]
    /\ UNCHANGED <<tree, subscribed, pc, id, at, copy>>

\* canfd_search_dup2_from_id, and canfd_packet_set_sigval on the duplicate.
\* canfd_signal_init takes the packet from its signals again, so that only
\* canfd_packet_set_sigval, which sets it, can change the duplicate.
Duplicate ==
    /\ pc = "ready" /\ Change
    /\ \E i \in ToSet(Listed(tree)) : copy' = [id |-> i, data |-> data[i], value |-> value[i]]
    /\ UNCHANGED <<packets, subscribed, told, pc, id, at>>

SetCopy ==
    /\ pc = "ready" /\ copy # None /\ Change
    /\ \E j \in Positions(copy.id) : \E v \in Settable(Sig(copy.id, j)) :
          /\ ~IsArray(Sig(copy.id, j)) /\ Ends(Sig(copy.id, j))
          /\ copy' = [copy EXCEPT !.value[j] = v, !.data = Encoded(Sig(copy.id, j), @, v)]
    /\ UNCHANGED <<packets, subscribed, told, pc, id, at>>

Next == \/ Load \/ Subscribe \/ (\E m \in Messages : Receive(m)) \/ Update \/ PacketChanged
        \/ Return \/ SetSignal \/ Duplicate \/ SetCopy

Spec == Init /\ [][Next]_vars

-----------------------------------------------------------------------------
\* The packets of the tree are in one list, forwards and backwards in the order
\* of their ids, whatever the order of the file; the list begins and ends at
\* the ends of the tree, and a search finds each packet and no other, in a
\* tree whose nodes know their height and are balanced (avl_tree.c:120-205;
\* avl_tree.h, list_for_each_entry).
TreeIsSortedMap ==
    LET keys == MidOrder(tree, tree.root)
    IN  /\ \A i, j \in DOMAIN keys : i < j => keys[i] < keys[j]
        /\ Listed(tree) = keys /\ ListedBack(tree) = Reverse(keys)
        /\ tree.first = Far(tree.left, tree.root) /\ tree.last = Far(tree.right, tree.root)
        /\ \A i \in Ids : Search(tree, i) = IF i \in ToSet(keys) THEN i ELSE Nil
        /\ \A n \in ToSet(keys) :
              BalanceFactor(tree, n) \in -1 .. 1 /\ tree = UpdateHeight(tree, n)

\* The bits of the data d from position p on, counted as the byte order counts.
Bits(d) == UNION {Left(d[j], (j - 1) * W) : j \in DOMAIN d}

\* What is written is read again, and nothing else in the data has changed, for
\* every place and length in three bytes, Intel and (unless torn) Motorola
\* (can_tool.h, "Insert a Value to Can Msg object", "Get the Value").
BitsRoundTrip ==
    pc = "load" /\ tree = NewTree(Ids) =>
        \A d \in [1 .. 3 -> SUBSET Bit], bit \in 0 .. 3 * W - 1 :
        \A length \in 1 .. 3 * W - bit : \A v \in SUBSET Mask(length) :
            LET first == bit \div W
                field == Left(Mask(length), bit)
                new == (Bits(d) \ field) \cup Left(v, bit)
            IN  /\ Bits(SetIntel(d, v, first, bit % W, length)) = new
                /\ GetIntel(d, first, bit % W, length) = Right(Bits(d) \cap field, bit)
                /\ Terminates(first) =>
                     /\ GetMotorola(Reverse(d), first, bit, length) = Right(Bits(d) \cap field, bit)
                     /\ ~Torn(bit, length) =>
                          Bits(Reverse(SetMotorola(Reverse(d), v, first, bit, length))) = new

Agrees(i, d, vs) ==
    \A j \in Positions(i) :
        LET s == Sig(i, j)
        IN  \/ vs[j] = Decoded(s, d)
            \/ IsArray(s) /\ vs[j] = Garbage
            \/ ~IsArray(s) /\ Torn(s.start_bit, s.bit_length)

\* When nothing is under way, and when a subscriber of a packet is called, all
\* signals of a packet have the values that its bytes say, after any sequence
\* of messages, partial ones too, and of values the program sets.  (Not so an
\* array before its first change, and a signal that SetMotorola tears.)  And
\* whoever subscribed to a signal was told of every change by the bus, though
\* a message changes several signals and the next may undo it
\* (canfd_parse.c:134-181, canfd_signal.c:106-139).
PacketsAgree ==
    /\ copy # None => Agrees(copy.id, copy.data, copy.value)
    /\ pc \in {"ready", "packet"} =>
         /\ \A i \in ToSet(Listed(tree)) : Agrees(i, data[i], value[i])
         /\ \A s \in subscribed : told[s[1]][s[2]] = value[s[1]][s[2]]
=============================================================================
