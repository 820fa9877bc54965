----------------------------- MODULE SigningKeys -----------------------------
(***************************************************************************)
(* Package dstsclient as those use it that validate access tokens: the     *)
(* MQTT message handlers and the REST handlers.  A token names the key it  *)
(* is signed with.  Keys are looked up in signingKeyTable; when one is not *)
(* there, the table is replaced by an empty map, which is then filled from *)
(* an answer of the token service.  No lock protects the table.            *)
(***************************************************************************)
EXTENDS Naturals, FiniteSets

CONSTANTS
    Users,         \* goroutines that validate a token
    Keys,          \* key IDs
    BadKeys,       \* keys that parseRSASigningKey refuses
    OtherKeys,     \* keys that are not RSA keys
    KeySets,       \* what the token service may publish
    NoKey,         \* of a token whose header has no key ID
    MaxRotations   \* bound: how often the token service changes its keys

ASSUME KeyAssumption ==
    /\ IsFiniteSet(Keys)
    /\ IsFiniteSet(Users)
    /\ KeySets \subseteq SUBSET Keys
    /\ BadKeys \subseteq Keys
    /\ OtherKeys \subseteq Keys
    /\ BadKeys \cap OtherKeys = {}
    /\ NoKey \notin Keys
    /\ MaxRotations \in Nat

VARIABLES
    alive,         \* the process runs
    published,     \* the keys of the token service
    rotations,
    table,         \* keys in signingKeyTable
    check,         \* check[u]: next step of the validation by u
    kid,           \* kid[u]: the key ID in its token
    fetched,       \* fetched[u]: keys of the answer, still to be put in the table
    \* History:
    excused        \* validations that something outside them may have spoilt

keyVars == <<alive, published, rotations, table, check, kid, fetched, excused>>

\* A token. "sound" stands for signature, times, algorithm and issuer.
Tokens == [key: Keys \cup {NoKey}, sound: BOOLEAN, typ: {"device", "app"}]

CheckSteps == {"idle", "lookup", "fetch", "fill", "again", "found", "refused"}

KeysTypeOK ==
    /\ alive \in BOOLEAN
    /\ published \in KeySets
    /\ rotations \in 0..MaxRotations
    /\ table \in SUBSET (Keys \ (BadKeys \cup OtherKeys))
    /\ check \in [Users -> CheckSteps]
    /\ kid \in [Users -> Keys \cup {NoKey}]
    /\ fetched \in [Users -> SUBSET Keys]
    /\ excused \in SUBSET Users

KeysInit ==
    /\ alive = TRUE
    /\ published \in KeySets
    /\ rotations = 0
    /\ table = {}
    /\ check = [u \in Users |-> "idle"]
    /\ kid = [u \in Users |-> NoKey]
    /\ fetched = [u \in Users |-> {}]
    /\ excused = {}

\* The Go runtime ends the process when it notices that one goroutine accesses a
\* map while another writes it.
Fatal(vars) == alive' = FALSE /\ UNCHANGED vars

Step(u, s) == check' = [check EXCEPT ![u] = s]

\* Does another goroutine write the table now?
TableIsWritten(u) == \E v \in Users \ {u} : check[v] = "fill" /\ fetched[v] # {}

-----------------------------------------------------------------------------
\* ParseWithClaims calls getSigningKey with the header of the token.
StartValidation(u, token) ==
    /\ check[u] = "idle"
    /\ kid' = [kid EXCEPT ![u] = token.key]
    /\ Step(u, IF token.key = NoKey THEN "refused" ELSE "lookup")
    /\ UNCHANGED <<alive, published, rotations, table, fetched, excused>>

KeyStateButAlive == <<published, rotations, table, check, kid, fetched, excused>>

LookUp(u) ==
    /\ alive
    /\ check[u] = "lookup"
    /\ \/ Step(u, IF kid[u] \in table THEN "found" ELSE "fetch")
          /\ UNCHANGED <<alive, published, rotations, table, kid, fetched, excused>>
       \/ TableIsWritten(u) /\ Fatal(KeyStateButAlive)

\* GetSigningKey failed. An answer with a bad status passes for a refresh.
FetchFails(u) ==
    /\ alive
    /\ check[u] = "fetch"
    /\ check' \in {[check EXCEPT ![u] = s] : s \in {"refused", "again"}}
    /\ excused' = excused \cup {u}
    /\ UNCHANGED <<alive, published, rotations, table, kid, fetched>>

\* The new map is in place before there is anything in it: whoever is between its
\* own refresh and the second look-up loses its keys.
Fetch(u) ==
    /\ alive
    /\ check[u] = "fetch"
    /\ table' = {}
    /\ fetched' = [fetched EXCEPT ![u] = published]
    /\ Step(u, "fill")
    /\ excused' = excused \cup {v \in Users \ {u} : check[v] \in {"fill", "again"}}
    /\ UNCHANGED <<alive, published, rotations, kid>>

\* Keys that are not of type RSA are passed over.
IsRSA(k) == k \notin OtherKeys

\* parseRSASigningKey: modulus and exponent decode and are not empty.
Parses(k) == k \notin BadKeys

\* Mutant: the loop ends at a key of another type.
FillUpTo(u) ==
    /\ alive
    /\ check[u] = "fill"
    /\ \E k \in fetched[u] :
        /\ table' = IF IsRSA(k) /\ Parses(k) THEN table \cup {k} ELSE table
        /\ fetched' = [fetched EXCEPT ![u] = IF IsRSA(k) /\ Parses(k) THEN @ \ {k} ELSE {}]
        /\ Step(u, IF Parses(k) THEN "fill" ELSE "refused")
        /\ excused' = IF Parses(k) THEN excused ELSE excused \cup {u}
    /\ UNCHANGED <<alive, published, rotations, kid>>

\* Mutant: a key that cannot be parsed is stored all the same.
FillUnparsed(u) ==
    /\ alive
    /\ check[u] = "fill"
    /\ \E k \in fetched[u] :
        /\ table' = IF IsRSA(k) THEN table \cup {k} ELSE table
        /\ fetched' = [fetched EXCEPT ![u] = @ \ {k}]
    /\ UNCHANGED <<alive, published, rotations, check, kid, excused>>

\* The next key of the answer (in any order). A bad one ends the refresh with an
\* error and the table as it is.
Fill(u) ==
    /\ alive
    /\ check[u] = "fill"
    /\ \E k \in fetched[u] :
        \/ /\ table' = IF IsRSA(k) /\ Parses(k) THEN table \cup {k} ELSE table
           /\ fetched' = [fetched EXCEPT ![u] = IF Parses(k) THEN @ \ {k} ELSE {}]
           /\ Step(u, IF Parses(k) THEN "fill" ELSE "refused")
           /\ excused' = IF Parses(k) THEN excused ELSE excused \cup {u}
           /\ UNCHANGED <<alive, published, rotations, kid>>
        \/ IsRSA(k) /\ Parses(k) /\ TableIsWritten(u) /\ Fatal(KeyStateButAlive)

FillEnds(u) ==
    /\ alive
    /\ check[u] = "fill"
    /\ fetched[u] = {}
    /\ Step(u, "again")
    /\ UNCHANGED <<alive, published, rotations, table, kid, fetched, excused>>

LookUpAgain(u) ==
    /\ alive
    /\ check[u] = "again"
    /\ \/ Step(u, IF kid[u] \in table THEN "found" ELSE "refused")
          /\ UNCHANGED <<alive, published, rotations, table, kid, fetched, excused>>
       \/ TableIsWritten(u) /\ Fatal(KeyStateButAlive)

\* What is checked once the key is there: signature, claims and type.
Accepts(u, token, typ) == check[u] = "found" /\ token.sound /\ token.typ = typ

Refuses(u, token, typ) == check[u] \in {"found", "refused"} /\ ~Accepts(u, token, typ)

\* The token service replaces its keys.
Rotate ==
    /\ alive
    /\ rotations < MaxRotations
    /\ rotations' = rotations + 1
    /\ published' \in KeySets \ {published}
    /\ excused' = excused \cup {u \in Users : check[u] # "idle"}
    /\ UNCHANGED <<alive, table, check, kid, fetched>>

KeyStep(u) ==
    \/ LookUp(u)
    \/ FetchFails(u) \/ Fetch(u)
    \/ Fill(u) \/ FillEnds(u)
    \/ LookUpAgain(u)

-----------------------------------------------------------------------------
(* Properties.                                                             *)

\* A token whose key is published is refused for want of a key only if something
\* came in between: the token service failed, sent a key that cannot be parsed or
\* changed its keys, or another goroutine emptied the table during the refresh.
RefusalHasACause ==
    \A u \in Users :
        (check[u] = "refused" /\ kid[u] \in published \ (BadKeys \cup OtherKeys))
            => u \in excused

\* A refresh that nothing disturbs ends with every key it was given in the table:
\* those of the answer that are not there yet are still to be put there.
Usable(k) == k \in published /\ IsRSA(k) /\ Parses(k)

RefreshIsWhole ==
    \A u \in Users : u \notin excused /\ Usable(kid[u]) =>
        /\ check[u] = "fill" => kid[u] \in table \cup fetched[u]
        /\ check[u] = "again" => kid[u] \in table
=============================================================================
