----------------------------- MODULE TokenStore -----------------------------
(***************************************************************************)
(* PgTokenStore (app/src/pg_process_store.rs): the tokens of one instance  *)
(* and callers that change them by compare-and-swap on their version, or   *)
(* replace them all.  Nothing in the repository but the external engine    *)
(* calls the store, so a caller here may call anything at any time, with   *)
(* what it read or knows from its own last success.                        *)
(*                                                                         *)
(* Of a token its status and version are kept.  The version is an INT; the *)
(* UPDATE that would pass its end fails, which MaxVersion stands for.      *)
(***************************************************************************)
EXTENDS Naturals

CONSTANTS Ids, Callers, MaxVersion

ASSUME MaxVersionAssumption == MaxVersion \in Nat

VARIABLES
    tokens,      \* the rows of the instance
    copy,        \* what each caller last read, or knows it wrote
    won,         \* successful calls: who changed which version (history)
    overwritten  \* save_tokens has written rows other than the stored ones (history)

tokenVars == <<tokens, copy, won, overwritten>>

Statuses == {"Created", "Ready", "Executing", "Waiting", "Suspended", "Completed", "Terminated"}
Token == [status : Statuses, version : 0 .. MaxVersion]

Init ==
    /\ tokens = [t \in Ids |-> [status |-> "Created", version |-> 0]]
    /\ copy = [c \in Callers |-> tokens]
    /\ won = {}
    /\ overwritten = FALSE

-----------------------------------------------------------------------------
LoadByInstance(c) ==
    /\ copy' = [copy EXCEPT ![c] = tokens]
    /\ UNCHANGED <<tokens, won, overwritten>>

\* Mutant: the row is found by its id alone.
MatchesId(c, t) == tokens[t].version < MaxVersion

\* WHERE version = $n: the caller's version is the row's.
MatchesVersion(c, t) ==
    /\ tokens[t].version = copy[c][t].version
    /\ tokens[t].version < MaxVersion

\* Mutant: the new version is the old one.
WriteSameVersion(c, t, status) ==
    LET row == [status |-> status, version |-> tokens[t].version] IN
    /\ tokens' = [tokens EXCEPT ![t] = row]
    /\ copy' \in {copy, [copy EXCEPT ![c][t] = row]}
    /\ won' = won \cup {[caller |-> c, id |-> t, version |-> copy[c][t].version]}
    /\ UNCHANGED overwritten

\* The UPDATE changed its row.  The caller may not learn it.
Write(c, t, status) ==
    LET row == [status |-> status, version |-> tokens[t].version + 1] IN
    /\ tokens' = [tokens EXCEPT ![t] = row]
    /\ copy' \in {copy, [copy EXCEPT ![c][t] = row]}
    /\ won' = won \cup {[caller |-> c, id |-> t, version |-> copy[c][t].version]}
    /\ UNCHANGED overwritten

UpdateTokenCas(c, t, status) ==
    /\ MatchesVersion(c, t)
    /\ Write(c, t, status)

\* From any status but the two final ones, although only Ready is meant.
ClaimToken(c, t) ==
    /\ MatchesVersion(c, t)
    /\ tokens[t].status \notin {"Completed", "Terminated"}
    /\ Write(c, t, "Executing")

\* One transaction replaces every row by the caller's, versions included.
SaveTokens(c) ==
    /\ tokens' = copy[c]
    /\ overwritten' = (overwritten \/ copy[c] # tokens)
    /\ UNCHANGED <<copy, won>>

Next ==
    \E c \in Callers :
        \/ LoadByInstance(c)
        \/ SaveTokens(c)
        \/ \E t \in Ids : \/ ClaimToken(c, t)
                          \/ \E status \in Statuses : UpdateTokenCas(c, t, status)

Spec == Init /\ [][Next]_tokenVars
-----------------------------------------------------------------------------
TokensTypeOK ==
    /\ tokens \in [Ids -> Token]
    /\ copy \in [Callers -> [Ids -> Token]]
    /\ overwritten \in BOOLEAN

\* "only update if the row's current version matches the version the caller last
\* read": as long as save_tokens brings back no old rows, callers that race for
\* the same version of a token have one winner, for claims and updates alike.
OneWinner ==
    ~overwritten =>
        \A x, y \in won : x.id = y.id /\ x.version = y.version => x = y

\* Under the same condition an equal version means an equal row: who wins has
\* decided on the row as it is, and no update in between is lost.
VersionTellsRow ==
    ~overwritten =>
        \A c \in Callers, t \in Ids :
            /\ copy[c][t].version <= tokens[t].version
            /\ copy[c][t].version = tokens[t].version => copy[c][t] = tokens[t]
=============================================================================
