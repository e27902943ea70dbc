-------------------------- MODULE TokenStoreProofs --------------------------
(***************************************************************************)
(* Proofs about TokenStore, for any number of tokens and callers and any   *)
(* width of a version.                                                     *)
(*                                                                         *)
(* OneWinner is not inductive: that a version that was won cannot be won   *)
(* again needs to know that it lies below the version of the row, and that *)
(* the row is where the versions of all copies come from.                  *)
(***************************************************************************)
EXTENDS TokenStore, TLAPS

Win == [caller : Callers, id : Ids, version : Nat]

WonOK == \A x \in won : x \in Win /\ x.version < tokens[x.id].version

StoreInv ==
    /\ TokensTypeOK
    /\ VersionTellsRow
    /\ ~overwritten => WonOK

LEMMA TokensInit == Init => StoreInv /\ OneWinner
<1> USE MaxVersionAssumption
<1> SUFFICES ASSUME Init PROVE StoreInv /\ OneWinner
    OBVIOUS
<1>1. tokens \in [Ids -> Token] /\ copy \in [Callers -> [Ids -> Token]]
    BY DEF Init, Token, Statuses
<1>2. TokensTypeOK
    BY <1>1 DEF Init, TokensTypeOK
<1>3. VersionTellsRow
    <2> SUFFICES ASSUME NEW c \in Callers, NEW t \in Ids
                 PROVE  copy[c][t].version <= tokens[t].version /\ copy[c][t] = tokens[t]
        BY DEF VersionTellsRow
    <2>1. copy[c] = tokens
        BY DEF Init
    <2>2. tokens[t].version = 0
        BY DEF Init
    <2> QED BY <2>1, <2>2
<1>4. WonOK /\ OneWinner
    BY DEF Init, WonOK, OneWinner
<1> QED BY <1>2, <1>3, <1>4 DEF StoreInv

\* The statements that change nothing but a copy, or all rows at once.
LEMMA LoadKeeps ==
    ASSUME StoreInv, NEW c \in Callers, LoadByInstance(c)
    PROVE  StoreInv'
<1> USE DEF StoreInv, LoadByInstance
<1>1. TokensTypeOK'
    BY DEF TokensTypeOK
<1>2. VersionTellsRow'
    BY DEF VersionTellsRow, TokensTypeOK, Token
<1> QED BY <1>1, <1>2 DEF WonOK

LEMMA SaveKeeps ==
    ASSUME StoreInv, NEW c \in Callers, SaveTokens(c)
    PROVE  StoreInv'
<1> USE DEF StoreInv, SaveTokens
<1>1. TokensTypeOK'
    BY DEF TokensTypeOK
<1>2. ~overwritten' => ~overwritten /\ tokens' = tokens
    OBVIOUS
<1> QED BY <1>1, <1>2 DEF VersionTellsRow, WonOK

\* A successful compare-and-swap, whichever of the two made it.
LEMMA WriteKeeps ==
    ASSUME StoreInv, NEW c \in Callers, NEW t \in Ids, NEW status \in Statuses,
           MatchesVersion(c, t), Write(c, t, status)
    PROVE  StoreInv'
<1> DEFINE row == [status |-> status, version |-> tokens[t].version + 1]
<1> USE DEF StoreInv
<1>1. row \in Token /\ tokens[t].version \in Nat
    BY MaxVersionAssumption DEF TokensTypeOK, Token, MatchesVersion
<1>2. tokens' = [tokens EXCEPT ![t] = row] /\ overwritten' = overwritten
    BY DEF Write
<1>3. copy' = copy \/ copy' = [copy EXCEPT ![c][t] = row]
    BY DEF Write
<1>4. TokensTypeOK'
    <2>1. tokens' \in [Ids -> Token]
        BY <1>1, <1>2 DEF TokensTypeOK
    <2>2. copy' \in [Callers -> [Ids -> Token]]
        BY <1>1, <1>3 DEF TokensTypeOK
    <2> QED BY <2>1, <2>2, <1>2 DEF TokensTypeOK
<1>5. VersionTellsRow'
    <2> SUFFICES ASSUME ~overwritten, NEW d \in Callers, NEW u \in Ids
                 PROVE  /\ copy'[d][u].version <= tokens'[u].version
                        /\ copy'[d][u].version = tokens'[u].version
                             => copy'[d][u] = tokens'[u]
        BY <1>2 DEF VersionTellsRow
    <2>1. /\ copy[d][u].version <= tokens[u].version
          /\ copy[d][u].version = tokens[u].version => copy[d][u] = tokens[u]
          /\ copy[d][u].version \in Nat /\ tokens[u].version \in Nat
        BY DEF VersionTellsRow, TokensTypeOK, Token
    <2>2. CASE copy'[d][u] = copy[d][u]
        BY <2>1, <2>2, <1>1, <1>2 DEF TokensTypeOK
    <2>3. CASE copy'[d][u] # copy[d][u]
        <3>1. u = t /\ copy'[d][u] = row
            BY <1>3, <2>3 DEF TokensTypeOK
        <3> QED BY <3>1, <1>1, <1>2 DEF TokensTypeOK
    <2> QED BY <2>2, <2>3
<1>6. ~overwritten' => WonOK'
    <2> SUFFICES ASSUME ~overwritten, NEW x \in won'
                 PROVE  x \in Win /\ x.version < tokens'[x.id].version
        BY <1>2 DEF WonOK
    <2>1. CASE x \in won
        BY <2>1, <1>1, <1>2 DEF WonOK, Win, TokensTypeOK, Token
    <2>2. CASE x \notin won
        <3>1. x = [caller |-> c, id |-> t, version |-> tokens[t].version]
            BY <2>2 DEF Write, MatchesVersion
        <3>2. tokens'[t].version = tokens[t].version + 1
            BY <1>2 DEF TokensTypeOK
        <3> QED BY <3>1, <3>2, <1>1 DEF Win
    <2> QED BY <2>1, <2>2
<1> QED BY <1>4, <1>5, <1>6

LEMMA StoreStep ==
    ASSUME StoreInv, [Next]_tokenVars
    PROVE  StoreInv'
<1>1. ASSUME NEW c \in Callers, NEW t \in Ids, ClaimToken(c, t)
      PROVE  StoreInv'
    BY <1>1, WriteKeeps DEF ClaimToken, Statuses
<1>2. ASSUME NEW c \in Callers, NEW t \in Ids, NEW status \in Statuses,
             UpdateTokenCas(c, t, status)
      PROVE  StoreInv'
    BY <1>2, WriteKeeps DEF UpdateTokenCas
<1>3. CASE UNCHANGED tokenVars
    BY <1>3 DEF tokenVars, StoreInv, TokensTypeOK, VersionTellsRow, WonOK
<1> QED BY <1>1, <1>2, <1>3, LoadKeeps, SaveKeeps DEF Next

\* A version is won once: what was won before lies below the row's version,
\* and the new winner has that version itself.
LEMMA OneWinnerStep ==
    ASSUME StoreInv, OneWinner, [Next]_tokenVars
    PROVE  OneWinner'
<1>1. ASSUME NEW c \in Callers, NEW t \in Ids, NEW status \in Statuses,
             MatchesVersion(c, t), Write(c, t, status)
      PROVE  OneWinner'
    <2> DEFINE new == [caller |-> c, id |-> t, version |-> copy[c][t].version]
    <2>1. won' = won \cup {new} /\ overwritten' = overwritten
        BY <1>1 DEF Write
    <2>2. ASSUME ~overwritten, NEW x \in won, x.id = t
          PROVE  x.version # new.version
        <3>1. x.version < tokens[t].version /\ new.version = tokens[t].version
            BY <2>2, <1>1 DEF StoreInv, WonOK, MatchesVersion
        <3> QED BY <3>1 DEF StoreInv, TokensTypeOK, Token
    <2> QED BY <2>1, <2>2 DEF OneWinner
<1>2. CASE won' = won /\ (overwritten => overwritten')
    BY <1>2 DEF OneWinner
<1>3. ASSUME NEW c \in Callers, NEW t \in Ids, ClaimToken(c, t)
      PROVE  OneWinner'
    BY <1>1, <1>3 DEF ClaimToken, Statuses
<1>4. ASSUME NEW c \in Callers, LoadByInstance(c) \/ SaveTokens(c)
      PROVE  OneWinner'
    BY <1>2, <1>4 DEF LoadByInstance, SaveTokens
<1>5. CASE UNCHANGED tokenVars
    BY <1>2, <1>5 DEF tokenVars
<1> QED BY <1>1, <1>3, <1>4, <1>5 DEF Next, UpdateTokenCas

-----------------------------------------------------------------------------
\* Type correctness of the rows and of what callers hold.
THEOREM TokensTypeCorrect == Spec => []TokensTypeOK
<1>1. StoreInv => TokensTypeOK
    BY DEF StoreInv
<1> QED BY <1>1, TokensInit, StoreStep, PTL DEF Spec

\* pg_process_store.rs, "only update if the row's current version matches": an
\* equal version means an equal row, until save_tokens brings back old rows.
THEOREM EqualVersionsEqualRows == Spec => []VersionTellsRow
<1>1. StoreInv => VersionTellsRow
    BY DEF StoreInv
<1> QED BY <1>1, TokensInit, StoreStep, PTL DEF Spec

\* Of the callers that race for a version one wins, claims and updates alike.
THEOREM VersionsAreWonOnce == Spec => []OneWinner
<1>1. Init => StoreInv /\ OneWinner
    BY TokensInit
<1>2. StoreInv /\ OneWinner /\ [Next]_tokenVars => StoreInv' /\ OneWinner'
    BY StoreStep, OneWinnerStep
<1> QED BY <1>1, <1>2, PTL DEF Spec
=============================================================================
