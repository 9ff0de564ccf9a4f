------------------------------- MODULE Matching -------------------------------
(***************************************************************************)
(* How the policy of a request and the fields of the policy are found:     *)
(* GetPostPolicy looks for the form whose URL pattern fits, replaceBuf for  *)
(* the name of a field in the body with findWildString.  Both patterns may  *)
(* have a star.  Text is a sequence of bytes, written as in EscapeCodec.    *)
(***************************************************************************)
EXTENDS EscapeCodec

Star == "*"
Nul == "00"

\* C strings end with a zero byte: what a search sees of s, and its k-th byte.
CString(s) == LET at == {k \in DOMAIN s : s[k] = Nul}
              IN IF at = {} THEN s ELSE SubSeq(s, 1, Min(at) - 1)
ByteIn(s, k) == IF k \in DOMAIN s THEN s[k] ELSE Nul

\* Mutant: a pattern of which the URL is a part fits as well.
FitsLoosely(url, pattern) == url = pattern \/ IsPrefix(url, pattern)

\* The comparison goes on to the first byte that differs, which has to be the
\* star; what follows the star is not looked at.
Fits(url, pattern) ==
    \/ url = pattern
    \/ \E k \in DOMAIN url : /\ SubSeq(url, 1, k - 1) = SubSeq(pattern, 1, k - 1)
                             /\ ByteIn(pattern, k) = Star
                             /\ url[k] # Star

\* The places of all forms, and the first of some of them: a set of at most one.
FormPlaces(sites) == UNION {{i} \X (DOMAIN sites[i].urls) : i \in DOMAIN sites}
FirstOf(places) ==
    {ij \in places : \A kl \in places : ij[1] < kl[1] \/ (ij[1] = kl[1] /\ ij[2] <= kl[2])}

\* The first form that fits of the sites of that name; there may be several.
GetPostPolicy(sites, server, url) ==
    FirstOf({ij \in FormPlaces(sites) : /\ sites[ij[1]].proxyhost = server
                                       /\ Fits(url, sites[ij[1]].urls[ij[2]])})

-------------------------------------------------------------------------------
\* Nothing of the name found yet; j is the byte of the name looked for next.
Restarted == [j |-> 1, p |-> 0, plen |-> 0]

\* Mutant: the length of what was begun is kept when the search starts again.
FindStep_KeepsLength(src, dest, at, i) ==
    IF at.j > Len(dest) THEN at
    ELSE IF src[i] = dest[at.j]
    THEN [j |-> at.j + 1, p |-> IF at.p = 0 THEN i ELSE at.p, plen |-> at.plen + 1]
    ELSE IF at.p # 0 /\ dest[at.j] = Star
    THEN [at EXCEPT !.plen = @ + 1,
                    !.j = IF src[i] = ByteIn(dest, @ + 1) THEN @ + 2 ELSE @]
    ELSE [Restarted EXCEPT !.plen = at.plen]

\* One turn of the loop of findWildString, with the byte at i of the text.  A
\* byte that does not fit is passed over, also where the name might begin
\* with it.
FindStep(src, dest, at, i) ==
    IF at.j > Len(dest) THEN at
    ELSE IF src[i] = dest[at.j]
    THEN [j |-> at.j + 1, p |-> IF at.p = 0 THEN i ELSE at.p, plen |-> at.plen + 1]
    ELSE IF at.p # 0 /\ dest[at.j] = Star
    THEN [at EXCEPT !.plen = @ + 1,
                    !.j = IF src[i] = ByteIn(dest, @ + 1) THEN @ + 2 ELSE @]
    ELSE Restarted

\* Where the name dest begins in src, 0 if nowhere, and the length it takes
\* there; the beginning of the name is enough at the end of the text.
findWildString(src, dest) ==
    LET text == CString(src)
    IN FoldLeft(LAMBDA at, i : FindStep(text, dest, at, i), Restarted, [i \in DOMAIN text |-> i])

\* The length of the name at the place k, 0 if it is not there: a star stands
\* for the shortest text that ends before what follows the star.
NameAt(src, dest, k) ==
    LET stars == {j \in DOMAIN dest : dest[j] = Star}
        star == IF stars = {} THEN Len(dest) + 1 ELSE Min(stars)
        left == SubSeq(dest, 1, star - 1)
        right == SubSeq(dest, star + 1, Len(dest))
        ends == Places(src, right, k + Len(left))
    IN IF k \notin Places(src, left, k) THEN 0
       ELSE IF stars = {} THEN Len(dest)
       ELSE IF ends = {} THEN 0 ELSE Min(ends) + Len(right) - k
===============================================================================
