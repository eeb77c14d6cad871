------------------------ MODULE ArchivePagingProofs ------------------------
(***************************************************************************)
(* Whatever archives there are, however they are replaced and however      *)
(* often the server starts anew: a listing is every entry once in the      *)
(* order of the names, the tokens stand for what has been read, and who    *)
(* follows them to the end has read one listing as a whole.                *)
(***************************************************************************)
EXTENDS ArchivePaging, Induction

-----------------------------------------------------------------------------
(* The listing                                                              *)

\* The sort finds an order: a listing is a permutation of the files by name
\* (archive.go:149).
LEMMA ListingSorted ==
  ASSUME NEW a \in Archives
  PROVE  /\ Listing(a) \in [1..Cardinality(a.files) -> a.files]
         /\ IsInjective(Listing(a)) /\ Sorted(Listing(a))
         /\ Cardinality(a.files) \in Nat
<1> DEFINE S == a.files
           n == Cardinality(S)
           name == [e \in S |-> e.name]
<1>1. IsFiniteSet(S) /\ name \in [S -> Nat]
  BY ArchiveAssumption
<1>2. n \in Nat
  BY <1>1, FS_CardinalityType
<1>3. PICK s : IsSorting(s, S, name)
  BY <1>1, SortingExists
<1>4. s \in [1..n -> S] /\ DOMAIN s = 1..n
  BY <1>3 DEF IsSorting
<1>5. \A i, j \in 1..n : i < j => s[i] # s[j] /\ s[i].name <= s[j].name
  BY <1>3, <1>4 DEF IsSorting
<1>6. IsInjective(s) /\ Sorted(s)
  BY <1>2, <1>4, <1>5 DEF IsInjective, Sorted
<1>7. \E t \in [1..n -> S] : IsInjective(t) /\ Sorted(t)
  BY <1>4, <1>6
<1> QED
  BY <1>2, <1>7 DEF Listing

LEMMA ListingIsSequence ==
  ASSUME NEW a \in Archives
  PROVE  /\ Len(Listing(a)) \in Nat /\ DOMAIN Listing(a) = 1..Len(Listing(a))
         /\ Listing(a) \in Seq(a.files)
BY ListingSorted

-----------------------------------------------------------------------------
(* The page                                                                 *)

\* The loop ends: the page takes all it may, or up to the first entry that
\* does not fit (server.go:355-381).
LEMMA PageTaken ==
  ASSUME NEW listing, NEW start \in Nat, NEW size \in Nat,
         Len(listing) \in Nat, start <= Len(listing)
  PROVE  /\ Taken(listing, start, size) \in 0..size
         /\ start + Taken(listing, start, size) <= Len(listing)
         /\ \A m \in 1..Taken(listing, start, size) : FitsPage(listing, start, m)
<1> DEFINE Most == IF size < Len(listing) - start THEN size ELSE Len(listing) - start
           Stops(n) == n < Most => ~FitsPage(listing, start, n + 1)
           T == {n \in 0..Most : Stops(n)}
<1>1. Most \in 0..size /\ start + Most <= Len(listing) /\ Most \in Nat
  OBVIOUS
<1>2. Most \in T /\ T \subseteq Nat
  BY <1>1
<1>3. PICK n \in T : \A m \in T : n <= m
  <2> HIDE DEF T
  <2> QED
    BY <1>2, LeastElement
<1>4. \A m \in 1..n : FitsPage(listing, start, m)
  <2> SUFFICES ASSUME NEW m \in 1..n PROVE FitsPage(listing, start, m)
    OBVIOUS
  <2>1. m - 1 \in 0..Most /\ m - 1 < n /\ (m - 1) + 1 = m
    BY <1>1
  <2>3. m - 1 \notin T
    <3>1. \A k \in T : ~ (k < n)
      <4> SUFFICES ASSUME NEW k \in T PROVE ~ (k < n)
        OBVIOUS
      <4>1. n <= k /\ n \in Nat /\ k \in Nat
        BY <1>2, <1>3
      <4> QED
        BY <4>1
    <3> QED
      BY <2>1, <3>1
  <2>2. FitsPage(listing, start, (m - 1) + 1)
    BY <2>1, <2>3
  <2> QED
    BY <2>1, <2>2
<1>5. \E k \in 0..Most : /\ \A m \in 1..k : FitsPage(listing, start, m)
                         /\ k < Most => ~FitsPage(listing, start, k + 1)
  BY <1>3, <1>4
<1>6. /\ Taken(listing, start, size) \in 0..Most
      /\ \A m \in 1..Taken(listing, start, size) : FitsPage(listing, start, m)
  BY <1>5 DEF Taken
<1> QED
  BY <1>1, <1>6
-----------------------------------------------------------------------------
(* What a chain of pages stands for                                         *)

\* A chain has read the listing of one content up to its token, or all of it.
ChainOf(a) ==
    /\ chain.of = {a}
    /\ \/ chain.token = None /\ chain.read = Listing(a)
       \/ \E offset \in Nat, f \in Formats, k \in Nat :
            /\ chain.token = [offset |-> offset, format |-> f, signed |-> k,
                              fingerprint |-> Fingerprint(a, f)]
            /\ offset < Len(Listing(a))
            /\ chain.read = SubSeq(Listing(a), 1, offset)

EmptyEnds ==
    reply.kind = "page" /\ reply.entries = 0 => chain.token = None

IInv ==
    /\ archive \in Archives /\ key \in Nat
    /\ chain # None => \E a \in Archives : ChainOf(a)
    /\ EmptyEnds

\* A page lengthens what its chain has read by just the entries it takes.
LEMMA ReadOn ==
  ASSUME NEW a \in Archives, NEW start \in Nat, NEW n \in Nat,
         start + n <= Len(Listing(a))
  PROVE  SubSeq(Listing(a), 1, start) \o SubSeq(Listing(a), start + 1, start + n)
           = SubSeq(Listing(a), 1, start + n)
BY ListingIsSequence

\* A page served after start entries of the present content: the new chain
\* stands for the entries up to the end of the page.
LEMMA ServeStep ==
  ASSUME archive \in Archives, key \in Nat, NEW read, NEW of, NEW start \in Nat,
         NEW size \in PageSizes, NEW f \in Formats,
         start <= Len(Listing(archive)), read = SubSeq(Listing(archive), 1, start),
         of \in {{}, {archive}},
         Serve(read, of, start, size, f), archive' = archive, key' = key
  PROVE  \/ UNCHANGED chain /\ reply'.kind = "refused"
         \/ (\E a \in Archives : ChainOf(a))' /\ EmptyEnds'
<1> DEFINE listing == Listing(archive)
           n == Taken(listing, start, size)
           next == NextStart(start, n, size)
<1>1. /\ n \in Nat /\ start + n <= Len(listing) /\ Len(listing) \in Nat
      /\ next = start + n
  BY ListingIsSequence, PageTaken, PagingAssumption DEF NextStart
<1>2. CASE Oversize(listing, start, n) /\ Refuse
  BY <1>2 DEF Refuse
<1>3. CASE ~Oversize(listing, start, n)
  <2>1. /\ reply' = [kind |-> "page", entries |-> n, size |-> size,
                     bytes |-> PageBytes(listing, start, n)]
        /\ chain' = [token |-> IF More(listing, next) THEN Token(next, archive, f) ELSE None,
                     read |-> read \o SubSeq(listing, start + 1, start + n),
                     of |-> of \cup {archive}]
    BY <1>3 DEF Serve
  <2>2. chain'.of = {archive}
    BY <2>1
  <2>3. chain'.read = SubSeq(listing, 1, next)
    BY <1>1, <2>1, ReadOn
  <2>4. CASE More(listing, next)
    <3>1. chain'.token = [offset |-> next, format |-> f, signed |-> key,
                          fingerprint |-> Fingerprint(archive, f)]
      BY <2>1, <2>4 DEF Token
    <3>2. next < Len(listing) /\ next \in Nat
      BY <1>1, <2>4 DEF More
    <3>3. ChainOf(archive)'
      BY <2>2, <2>3, <3>1, <3>2 DEF ChainOf
    <3>4. n # 0
      BY <1>1, <1>3, <2>4 DEF More, Oversize
    <3> QED
      BY <2>1, <3>3, <3>4 DEF EmptyEnds
  <2>5. CASE ~More(listing, next)
    <3>1. next = Len(listing)
      BY <1>1, <2>5 DEF More
    <3>2. SubSeq(listing, 1, Len(listing)) = listing
      BY ListingIsSequence
    <3>3. chain'.token = None
      BY <2>1, <2>5
    <3>4. ChainOf(archive)'
      BY <2>2, <2>3, <3>1, <3>2, <3>3 DEF ChainOf
    <3> QED
      BY <3>3, <3>4 DEF EmptyEnds
  <2> QED
    BY <2>4, <2>5
<1> QED
  BY <1>2, <1>3 DEF Serve

LEMMA FirstPageStep ==
  ASSUME IInv, FirstPage
  PROVE  IInv'
<1>1. PICK size \in PageSizes, f \in Formats : Serve(<<>>, {}, 0, size, f)
  BY DEF FirstPage
<1>2. archive' = archive /\ key' = key /\ archive \in Archives /\ key \in Nat
  BY DEF FirstPage, IInv
<1>3. <<>> = SubSeq(Listing(archive), 1, 0) /\ 0 <= Len(Listing(archive))
  BY <1>2, ListingIsSequence
<1>4. \/ UNCHANGED chain /\ reply'.kind = "refused"
      \/ (\E a \in Archives : ChainOf(a))' /\ EmptyEnds'
  BY <1>1, <1>2, <1>3, ServeStep
<1> QED
  BY <1>2, <1>4 DEF IInv, ChainOf, EmptyEnds

\* Only a token for the present content decodes: what its chain has read is
\* the beginning of that content (archive_pager.go:46-94).
LEMMA DecodedIsPresent ==
  ASSUME IInv, chain # None, chain.token # None, NEW f \in Formats,
         Decodes(chain.token, archive, f)
  PROVE  /\ chain.token.offset \in Nat /\ chain.token.offset <= Len(Listing(archive))
         /\ chain.of = {archive}
         /\ chain.read = SubSeq(Listing(archive), 1, chain.token.offset)
<1>1. PICK a \in Archives : ChainOf(a)
  BY DEF IInv
<1>2. PICK offset \in Nat, g \in Formats, k \in Nat :
        /\ chain.token = [offset |-> offset, format |-> g, signed |-> k,
                          fingerprint |-> Fingerprint(a, g)]
        /\ offset < Len(Listing(a))
        /\ chain.read = SubSeq(Listing(a), 1, offset)
  BY <1>1 DEF ChainOf
<1>3. Fingerprint(a, g) = Fingerprint(archive, f)
  BY <1>2 DEF Decodes
<1>4. a = archive
  BY <1>3 DEF Fingerprint
<1>5. chain.token.offset = offset
  BY <1>2
<1>6. Len(Listing(a)) \in Nat
  BY ListingIsSequence
<1> QED
  BY <1>1, <1>2, <1>4, <1>5, <1>6 DEF ChainOf

LEMMA NextPageStep ==
  ASSUME IInv, NextPage
  PROVE  IInv'
<1>1. PICK size \in PageSizes, f \in Formats :
        IF Decodes(chain.token, archive, f)
        THEN Serve(chain.read, chain.of, chain.token.offset, size, f)
        ELSE Refuse
  BY DEF NextPage
<1>2. /\ archive' = archive /\ key' = key /\ archive \in Archives /\ key \in Nat
      /\ chain # None /\ chain.token # None
  BY DEF NextPage, IInv
<1>3. CASE Decodes(chain.token, archive, f)
  <2>1. \/ UNCHANGED chain /\ reply'.kind = "refused"
        \/ (\E a \in Archives : ChainOf(a))' /\ EmptyEnds'
    BY <1>1, <1>2, <1>3, DecodedIsPresent, ServeStep
  <2> QED
    BY <1>2, <2>1 DEF IInv, ChainOf, EmptyEnds
<1>4. CASE ~Decodes(chain.token, archive, f)
  <2>1. UNCHANGED chain /\ reply'.kind = "refused"
    BY <1>1, <1>4 DEF Refuse
  <2> QED
    BY <1>2, <2>1 DEF IInv, ChainOf, EmptyEnds
<1> QED
  BY <1>3, <1>4

-----------------------------------------------------------------------------
(* The theorems                                                             *)

\* The inductive invariant holds in every state.
THEOREM Invariant == Spec => []IInv
<1>1. Init => IInv
  BY DEF Init, IInv, EmptyEnds
<1>2. IInv /\ [Next]_vars => IInv'
  <2> SUFFICES ASSUME IInv, [Next]_vars PROVE IInv'
    OBVIOUS
  <2>1. CASE FirstPage
    BY <2>1, FirstPageStep
  <2>2. CASE NextPage
    BY <2>2, NextPageStep
  <2>3. CASE Replace \/ Restart \/ UNCHANGED vars
    <3>1. /\ archive' \in Archives /\ key' \in Nat /\ UNCHANGED <<chain, reply>>
      BY <2>3 DEF Replace, Restart, vars, IInv
    <3> QED
      BY <3>1 DEF IInv, ChainOf, EmptyEnds
  <2> QED
    BY <2>1, <2>2, <2>3 DEF Next
<1> QED
  BY <1>1, <1>2, PTL DEF Spec

\* Who follows tokens to the end has read one listing, whole and in order,
\* whatever was replaced, put back or restarted between two pages.
THEOREM Whole == Spec => []ListingsWhole
<1>1. IInv => ListingsWhole
  <2> SUFFICES ASSUME IInv, chain # None, chain.token = None
               PROVE  \E a \in Archives : chain.of = {a} /\ chain.read = Listing(a)
    BY DEF ListingsWhole
  <2>1. PICK a \in Archives : ChainOf(a)
    BY DEF IInv
  <2>2. \A offset \in Nat, f \in Formats, k \in Nat :
          None # [offset |-> offset, format |-> f, signed |-> k,
                  fingerprint |-> Fingerprint(a, f)]
    BY TokenAssumption
  <2> QED
    BY <2>1, <2>2 DEF ChainOf
<1> QED
  BY <1>1, Invariant, PTL

\* A token stands for exactly the entries that its chain has delivered.
THEOREM Exact == Spec => []TokensExact
<1>1. IInv => TokensExact
  <2> SUFFICES ASSUME IInv, chain # None, chain.token # None
               PROVE  \A a \in chain.of : chain.read = SubSeq(Listing(a), 1, chain.token.offset)
    BY DEF TokensExact
  <2>1. PICK a \in Archives : ChainOf(a)
    BY DEF IInv
  <2>2. PICK offset \in Nat, f \in Formats, k \in Nat :
          /\ chain.token = [offset |-> offset, format |-> f, signed |-> k,
                            fingerprint |-> Fingerprint(a, f)]
          /\ chain.read = SubSeq(Listing(a), 1, offset)
    BY <2>1 DEF ChainOf
  <2>3. chain.token.offset = offset /\ chain.of = {a}
    BY <2>1, <2>2 DEF ChainOf
  <2> QED
    BY <2>2, <2>3
<1> QED
  BY <1>1, Invariant, PTL

\* No chain of tokens runs in place.
THEOREM Forward == Spec => []Progress
<1>1. IInv => Progress
  BY DEF IInv, EmptyEnds, Progress
<1> QED
  BY <1>1, Invariant, PTL
=============================================================================
