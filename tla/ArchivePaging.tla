--------------------------- MODULE ArchivePaging ---------------------------
(***************************************************************************)
(* Listing an archive page by page: the tokens of ArchivePager             *)
(* (application/archive_pager.go), the listing they are bound to           *)
(* (archive.go) and the page a server fills (ListArchive of the gRPC       *)
(* server; listArchiveSource of the MCP server fills its page alike).      *)
(*                                                                         *)
(* The archive may be replaced and the server restarted between any two    *)
(* requests, and the client may present its token for any format.  The     *)
(* server keeps nothing between requests, so one client stands for all.  A *)
(* fingerprint, a SHA-256 in the code, is the record of what it digests; a *)
(* signature is the key that signed.                                       *)
(***************************************************************************)
EXTENDS Naturals, FiniteSets, Sequences, SequencesExt

CONSTANTS
    Archives,       \* the contents the file may have: records of the files,
                    \* a set of [name, bytes], and of the rest of the content
    Formats,        \* format IDs under which such a file can be listed
    PageSizes,      \* page sizes a client asks for
    MaxPageBytes,   \* MaxArchivePageBytes, or the MCP server's maxResultBytes
    TokenBytes,     \* what a token adds to a page
    MaxRestarts,    \* bound: restarts of the server
    None

ASSUME PagingAssumption ==
    /\ PageSizes \subseteq Nat \ {0}
    /\ MaxPageBytes \in Nat /\ TokenBytes \in Nat /\ MaxRestarts \in Nat

ASSUME ArchiveAssumption ==
    \A a \in Archives :
        IsFiniteSet(a.files) /\ \A e \in a.files : e.name \in Nat

VARIABLES
    archive,    \* the content of the archive file
    key,        \* the pager's key: a new one for every process
    chain,      \* the pages a client has followed, or None
    reply       \* the last answer

vars == <<archive, key, chain, reply>>

-----------------------------------------------------------------------------
(* The listing: the entries by name, with a fingerprint that binds it to   *)
(* the format, the bytes of the source and the entries.                    *)

Sorted(s) == \A i, j \in DOMAIN s : i < j => s[i].name <= s[j].name

Listing(a) ==
    CHOOSE s \in [1..Cardinality(a.files) -> a.files] : IsInjective(s) /\ Sorted(s)

(* (Mutant: of the format and the entries only.)                           *)
FingerprintOfEntries(a, f) == [format |-> f, entries |-> Listing(a)]

Fingerprint(a, f) == [format |-> f, source |-> a, entries |-> Listing(a)]

Token(offset, a, f) ==
    [offset |-> offset, format |-> f, fingerprint |-> Fingerprint(a, f),
     signed |-> key]

ASSUME TokenAssumption ==
    None \notin [offset : Nat, format : Formats, signed : Nat,
                 fingerprint : {Fingerprint(a, f) : a \in Archives, f \in Formats}]

(* Decode: what makes a token good for a listing.                          *)
Decodes(t, a, f) ==
    /\ t.signed = key
    /\ t.format = f
    /\ t.fingerprint = Fingerprint(a, f)
    /\ t.offset < Len(Listing(a))

-----------------------------------------------------------------------------
(* The page from `start` with n entries, and the token behind it.          *)

Bytes(entries) == FoldSeq(LAMBDA e, sum : sum + e.bytes, 0, entries)

PageBytes(listing, start, n) ==
    Bytes(SubSeq(listing, start + 1, start + n))
        + IF start + n < Len(listing) THEN TokenBytes ELSE 0

FitsPage(listing, start, n) == PageBytes(listing, start, n) <= MaxPageBytes

(* The loop takes entries one by one and stops at the first that does not  *)
(* fit, which goes back.                                                   *)
Taken(listing, start, size) ==
    LET Most == IF size < Len(listing) - start THEN size ELSE Len(listing) - start
    IN  CHOOSE n \in 0..Most :
            /\ \A m \in 1..n : FitsPage(listing, start, m)
            /\ n < Most => ~FitsPage(listing, start, n + 1)

(* Where the next page starts, and whether there is one.  (Mutants: past    *)
(* the entry that went back; a page of nothing.)                            *)
NextStartPast(start, n, size) == start + n + IF n < size THEN 1 ELSE 0

NextStart(start, n, size) == start + n

More(listing, next) == next < Len(listing)

NeverOversize(listing, start, n) == FALSE

Oversize(listing, start, n) == n = 0 /\ start < Len(listing)

-----------------------------------------------------------------------------
Init ==
    /\ archive \in Archives
    /\ key = 0
    /\ chain = None
    /\ reply = [kind |-> "none"]

Refuse ==
    /\ reply' = [kind |-> "refused"]
    /\ UNCHANGED chain

(* The page from `start` is added to what a chain of pages has `read`, from *)
(* the contents `of`.                                                       *)
Serve(read, of, start, size, f) ==
    LET listing == Listing(archive)
        n == Taken(listing, start, size)
        next == NextStart(start, n, size)
    IN  \/ Oversize(listing, start, n) /\ Refuse
        \/ /\ ~Oversize(listing, start, n)
           /\ reply' = [kind |-> "page", entries |-> n, size |-> size,
                        bytes |-> PageBytes(listing, start, n)]
           /\ chain' =
                 [token |-> IF More(listing, next)
                            THEN Token(next, archive, f) ELSE None,
                  read |-> read \o SubSeq(listing, start + 1, start + n),
                  of |-> of \cup {archive}]

FirstPage ==
    /\ \E size \in PageSizes, f \in Formats : Serve(<<>>, {}, 0, size, f)
    /\ UNCHANGED <<archive, key>>

NextPage ==
    /\ chain # None
    /\ chain.token # None
    /\ \E size \in PageSizes, f \in Formats :
          IF Decodes(chain.token, archive, f)
          THEN Serve(chain.read, chain.of, chain.token.offset, size, f)
          ELSE Refuse
    /\ UNCHANGED <<archive, key>>

(* The file is replaced; the server is started anew, with a random key.    *)
Replace ==
    /\ archive' \in Archives \ {archive}
    /\ UNCHANGED <<key, chain, reply>>

Restart ==
    /\ key < MaxRestarts
    /\ key' = key + 1
    /\ UNCHANGED <<archive, chain, reply>>

Next == FirstPage \/ NextPage \/ Replace \/ Restart

Spec == Init /\ [][Next]_vars

-----------------------------------------------------------------------------
(* Whoever follows tokens to the last page has read one content of the     *)
(* archive: every entry of it once and in order, whatever was replaced,    *)
(* put back or restarted on the way (ArchivePager.Decode, ListArchive).    *)
ListingsWhole ==
    (chain # None /\ chain.token = None) =>
        \E a \in Archives : chain.of = {a} /\ chain.read = Listing(a)

(* A token stands for the pages read so far: what it continues is exactly  *)
(* what its chain has delivered, none skipped and none to come twice.      *)
TokensExact ==
    (chain # None /\ chain.token # None) =>
        \A a \in chain.of :
            chain.read = SubSeq(Listing(a), 1, chain.token.offset)

(* Following tokens goes forward: a page without an entry is the last one,  *)
(* so that no chain of tokens runs in place (the refusal of an entry that   *)
(* no page can hold).                                                       *)
Progress ==
    (reply.kind = "page" /\ reply.entries = 0) => chain.token = None
=============================================================================
