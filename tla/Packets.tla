------------------------------- MODULE Packets -------------------------------
(***************************************************************************)
(* How replace_ngx_str_t tells encrypted packets from the text around them: *)
(* a head, the character before it that says what closes the packet, and    *)
(* what else ends one.                                                      *)
(***************************************************************************)
EXTENDS EscapeCodec

\* The heads, by their type: the second and its spelling in JSON come before
\* ciphertext written in digits.
Heads == [t \in 0 .. 2 |-> CASE t = 0 -> <<"ff", "fe">>
                             [] t = 1 -> <<"[", "1f">>
                             [] t = 2 -> <<"[", "\\", "u", "0", "0", "1", "f">>]
HeadTypes == DOMAIN Heads
EncodeType(t) == IF t = 0 THEN 0 ELSE 1

\* The heads that end a packet before them, and that may be cut in two.
ShortHeads == {0, 1}

\* What closes a packet that follows one of these characters.
Closers == [c \in {"'", "\"", ">", "(", "=", " "} |-> CASE c = "(" -> ")" [] c = "=" -> "&"
                                                    [] c \in {">", " "} -> "<" [] OTHER -> c]

\* What ends any packet.
Terminators ==
    {<<b>> : b \in {"<", " ", "\n", "(", "/", "[", ":", "-", "]"}}
        \cup {<<"\t", "\n">>, <<"&", "n", "b", "s", "p", ";">>, <<"a1", "bc">>, <<"a1", "bd">>}
        \cup {Heads[t] : t \in ShortHeads}
EndFlag == "fd"
Dots == <<".", ".", ".">>

\* The first head, with its type: a set of at most one pair.  A head of two
\* bytes needs another behind it.
FirstHead(d) ==
    LET found == {kt \in (1 .. Len(d) - 2) \X HeadTypes : kt[1] \in Places(d, Heads[kt[2]], 1)}
    IN {kt \in found : \A other \in found : kt[1] <= other[1]}

\* The nearest character before the head that has a closer; that of an earlier
\* packet if there is none.
StartCode(d, k, earlier) ==
    LET marks == {i \in 1 .. k - 1 : d[i] \in DOMAIN Closers}
    IN IF marks = {} THEN earlier ELSE d[Max(marks)]

\* Where the closer of the packet that begins at k is, 0 if not in this buffer.
CloserAt(d, k, code, starts) ==
    IF code \in DOMAIN Closers
    THEN LET at == Places(d, <<Closers[code]>>, k) IN IF at = {} THEN 0 ELSE Min(at)
    ELSE IF starts THEN Len(d) + 1 ELSE 0

\* The packet goes on in the next buffer: no closer, and no other head.
Continues(d, k, closer) ==
    closer = 0 /\ \A t \in ShortHeads : Places(d, Heads[t], k) = {}

\* Mutant: the end flag ends nothing.
PacketEnd_NoFlag(d, k, closer) ==
    LET end == IF closer = 0 THEN Len(d) + 1 ELSE closer
    IN Min((UNION {Places(d, s, k) : s \in Terminators} \cap k .. end) \cup {end})

\* The place behind the packet that begins at k.
PacketEnd(d, k, closer) ==
    LET end == IF closer = 0 THEN Len(d) + 1 ELSE closer
        ends == UNION {Places(d, s, k) : s \in Terminators \cup {<<EndFlag>>}}
    IN Min((ends \cap k .. end) \cup {end})

\* Text that the application has shortened ends in dots, which stay.
WithoutDots(packet) == IF IsSuffix(Dots, packet) THEN Len(packet) - 3 ELSE Len(packet)
===============================================================================
