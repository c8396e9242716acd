----------------------------- MODULE HashCache -----------------------------
(***************************************************************************)
(* The hashes of mod packs: the map in memory and the table behind it      *)
(* (database/hash.go), as the API changes them and as a GPCM login asks.   *)
(*                                                                         *)
(* The map is changed first, then the statement is executed, which may fail *)
(* and leave the two different until the program starts again and reads the *)
(* table.  The columns have 40 characters: a shorter hash comes back padded *)
(* with blanks, an empty one as blanks only; of a longer one the excess is  *)
(* cut off when it is blank, and anything else is an error.                 *)
(***************************************************************************)
EXTENDS Naturals

CONSTANTS
    HKeys,          \* pack IDs with a version
    HRegions,       \* NTSCU, NTSCJ, NTSCK, PAL
    HNone           \* no entry

\* "padded" is "short" with blanks up to the column's width, "trailed" is "full"
\* with a blank after it.
Hashes == {"", "blank", "full", "trailed", "short", "padded", "long"}

VARIABLES
    hcache,         \* hashes
    htable,         \* the table
    hgot,           \* an answer of get_hash that is being written out, which is the map itself
    hended,         \* the program was ended by two accesses to a map
    hlast,          \* history: the entries as of the last statement that did not fail
    hfailed         \* history: entries whose last statement failed

hvars == <<hcache, htable, hgot, hended, hlast, hfailed>>

ASSUME HashAssumption == HNone \notin [HRegions -> Hashes]

HashStart ==
    /\ hcache = [k \in HKeys |-> HNone]
    /\ htable = [k \in HKeys |-> HNone]
    /\ hgot = FALSE /\ hended = FALSE
    /\ hlast = hcache /\ hfailed = {}

\* Mutant: blanks stay blanks.
Unflattened(h) == h

flattenBlank(h) == IF h = "blank" THEN "" ELSE h

\* character(40)
Column(h) == CASE h \in {"", "blank"} -> "blank" [] h = "short" -> "padded"
               [] h = "trailed" -> "full" [] OTHER -> h

\* A map that is being written out is changed; the runtime may notice.
Touch == IF hgot THEN hended' \in BOOLEAN ELSE UNCHANGED hended

Outcome(k, ok) ==
    /\ hfailed' = IF ok THEN hfailed \ {k} ELSE hfailed \cup {k}
    /\ hlast' = IF ok THEN [hlast EXCEPT ![k] = hcache'[k]] ELSE hlast

UpdateHash(k, h, ok) ==
    /\ (\E r \in HRegions : h[r] = "long") => ~ok
    /\ hcache' = [hcache EXCEPT ![k] = [r \in HRegions |-> flattenBlank(h[r])]]
    /\ htable' = IF ok THEN [htable EXCEPT ![k] = [r \in HRegions |-> Column(h[r])]] ELSE htable
    /\ Touch /\ Outcome(k, ok)
    /\ UNCHANGED hgot

RemoveHash(k, ok) ==
    /\ hcache[k] # HNone
    /\ hcache' = [hcache EXCEPT ![k] = HNone]
    /\ htable' = IF ok THEN [htable EXCEPT ![k] = HNone] ELSE htable
    /\ Touch /\ Outcome(k, ok)
    /\ UNCHANGED hgot

\* GetHashes returns the map, which the response is made from without the lock.
GetHashes ==
    /\ hgot' = ~hgot
    /\ UNCHANGED <<hcache, htable, hended, hlast, hfailed>>

Loaded == [k \in HKeys |-> IF htable[k] = HNone THEN HNone
                           ELSE [r \in HRegions |-> flattenBlank(htable[k][r])]]

\* The program starts again; HashInit reads the table.
HashInit ==
    /\ hcache' = Loaded
    /\ hgot' = FALSE /\ hended' = FALSE
    /\ hlast' = Loaded /\ hfailed' = {}
    /\ UNCHANGED htable

HashNext ==
    \/ HashInit
    \/ /\ ~hended
       /\ \/ GetHashes
          \/ \E k \in HKeys, ok \in BOOLEAN :
               RemoveHash(k, ok) \/ \E h \in [HRegions -> Hashes] : UpdateHash(k, h, ok)

HashSpec == HashStart /\ [][HashNext]_hvars

ValidateHash(c, k, r, h) == c[k] # HNone /\ c[k][r] # "" /\ c[k][r] = h

-----------------------------------------------------------------------------
(* Properties.                                                              *)

\* The logins' hashes that are accepted once the program has started again are
\* those of the last change of each entry that reported no error, in the width
\* of their column: a blank one accepts nothing, and one that does not fit is
\* accepted with the blanks that the column adds or without those that it cuts.
\* Where the last change reported no error, that is the entry in the map, so
\* that a hash of 40 characters is accepted before and after
\* (hash.go:93-111, 131-203, schema.sql:170-177).
RestartKeepsAnswers ==
    \A k \in HKeys :
        /\ k \notin hfailed => hlast[k] = hcache[k]
        /\ \A r \in HRegions, h \in Hashes :
             ValidateHash(Loaded, k, r, h) =
                 (hlast[k] # HNone /\ hlast[k][r] # "" /\ h = Column(hlast[k][r]))

\* A comment in GetHashes says "Create a copy while the mutex is locked"
\* (hash.go:126): a response that is being written out meets no change.
CopyReturned == ~hended
=============================================================================
