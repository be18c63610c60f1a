-------------------------- MODULE OAuthTokensProofs --------------------------
(***************************************************************************)
(* Theorems about OAuthTokens, for every number of concurrent requests and *)
(* every choice of lifetimes, leases, polls, tokens and faults.            *)
(***************************************************************************)
EXTENDS OAuthTokens, TLAPS

-----------------------------------------------------------------------------
(* The inductive invariant *)

(* A request holds an uncommitted lease exactly from its claim to its store. *)
LeasedWhileExchanging ==
  \A s \in Request : (lease[s] # NoRow) = (pc[s] \in {"exchange", "store"})

(* The lease is the lock of the row: one request has it, and no other removes the row. *)
LeaseLocks ==
  /\ \A s, o \in Request : lease[s] # NoRow /\ lease[o] # NoRow => s = o
  /\ \A s \in Request : lease[s] # NoRow => row # NoRow

(* A login that has its grant knows the refresh token it came with. *)
GrantInHand ==
  \A s \in Request : pc[s] \in {"lookup", "write", "overwrite"} => fetched[s] \in Tokens

LeaseInv ==
  /\ TypeOK
  /\ LeasedWhileExchanging
  /\ LeaseLocks
  /\ LeaseStaysPrivate
  /\ GrantInHand

(* Where a request stands with a token that it has not stored yet. *)
Holding == {"store", "lookup", "write", "overwrite"}

(* Where it stands with the token that it read and means to spend. *)
Spending == {"claim", "exchange"}

(* Nobody has a token that the provider has yet to issue. *)
TokensIssued ==
  /\ row # NoRow /\ row.refresh # None => row.refresh <= issued
  /\ \A s \in Request : fetched[s] # None => fetched[s] <= issued
  /\ \A s \in Request : pc[s] \in Spending /\ current[s] # None => current[s] <= issued

(* A token in a request's hand is accepted, and it is nowhere else: not in the row, not *)
(* with a request that is about to spend it, not in another request's hand.              *)
TokensHeldOnce ==
  \A s \in Request : pc[s] \in Holding =>
    /\ fetched[s] \in valid
    /\ row # NoRow => row.refresh # fetched[s]
    /\ \A o \in Request : pc[o] \in Spending => current[o] # fetched[s]
    /\ \A o \in Request : pc[o] \in Holding /\ fetched[o] = fetched[s] => o = s

(* The stored token is spent only while the request that spent it has the next one. *)
SpentOnlyBySuccessor ==
  row # NoRow /\ row.refresh \notin valid => \E s \in Request : pc[s] = "store"

TokenInv ==
  /\ TokensIssued
  /\ faults = 0 => TokensHeldOnce /\ SpentOnlyBySuccessor

-----------------------------------------------------------------------------
(* The values a step writes *)

(* NULL is no token and no request; the absent row is no row. *)
LEMMA Nulls ==
  /\ None \notin Request /\ None \notin Nat /\ None \notin Tokens
  /\ NoRow \notin Row
  /\ Tokens \subseteq Nat
  BY TokenAssumption DEF Tokens

(* The bounds are numbers. *)
LEMMA Bounds ==
  /\ Lifetime \in Nat /\ Skew \in Nat /\ LeaseSeconds \in Nat /\ PollAttempts \in Nat
  /\ MaxTime \in Nat /\ MaxTokens \in Nat /\ MaxFaults \in Nat
  BY TokenAssumption

(* `store` writes an unleased row with the token it is given. *)
LEMMA StoredRow ==
  ASSUME TypeOK, NEW id \in Tokens, NEW token \in Tokens \cup {None}
  PROVE  /\ Stored(id, token) \in Row
         /\ Stored(id, token).owner = None
         /\ Stored(id, token).refresh = token
  BY Bounds DEF TypeOK, Stored, Row, Time

(* A claim leaves a row. *)
LEMMA LeasedRow ==
  ASSUME TypeOK, NEW s \in Request, row # NoRow
  PROVE  Leased(s) \in Row
  <1>1. row \in Row /\ now + LeaseSeconds \in Nat
    BY Bounds DEF TypeOK, Time
  <1> QED
    BY <1>1 DEF Leased, Row

(* The end of a request resets its locals and nobody else's. *)
LEMMA EndRequestLocals ==
  ASSUME TypeOK, NEW s \in Request, EndRequest(s)
  PROVE  /\ pc' \in [Request -> Labels]
         /\ current' \in [Request -> Tokens \cup {None}]
         /\ fetched' \in [Request -> Tokens \cup {None}]
         /\ lease' \in [Request -> Row \cup {NoRow}]
         /\ polls' \in [Request -> 0 .. PollAttempts]
         /\ pc'[s] = "idle" /\ lease'[s] = NoRow
         /\ \A o \in Request \ {s} :
              /\ pc'[o] = pc[o] /\ lease'[o] = lease[o]
              /\ current'[o] = current[o] /\ fetched'[o] = fetched[o]
  BY Bounds DEF TypeOK, EndRequest, Goto, Labels

-----------------------------------------------------------------------------
(* Types, and the lease *)

LEMMA InitLease == Init => LeaseInv
  BY Bounds, Nulls
  DEF Init, LeaseInv, TypeOK, LeasedWhileExchanging, LeaseLocks, LeaseStaysPrivate, GrantInHand,
      Time, Labels

(* A step that ends a request, and leaves an unleased row if there was one, keeps them. *)
LEMMA EndKeepsLease ==
  ASSUME LeaseInv, NEW s \in Request, EndRequest(s),
         now' = now, issued' = issued, valid' \subseteq valid, faults' \in 0 .. MaxFaults,
         \/ row' = row
         \/ row' \in Row /\ row'.owner = None
  PROVE  LeaseInv'
  <1>1. TypeOK'
    BY EndRequestLocals DEF LeaseInv, TypeOK
  <1>2. LeasedWhileExchanging' /\ GrantInHand'
    BY EndRequestLocals DEF LeaseInv, LeasedWhileExchanging, GrantInHand
  <1>3. LeaseLocks'
    BY EndRequestLocals, Nulls DEF LeaseInv, LeaseLocks
  <1>4. LeaseStaysPrivate'
    BY DEF LeaseInv, LeaseStaysPrivate
  <1> QED
    BY <1>1, <1>2, <1>3, <1>4 DEF LeaseInv

(* The steps of a refresh. *)
LEMMA RefreshLease ==
  ASSUME LeaseInv, NEW s \in Request,
         ReadStale(s) \/ RefreshStep(s) \/ ExchangeKept(s) \/ AnswerLost(s)
  PROVE  LeaseInv'
  <1>1. CASE ReadStale(s)
    <2>1. row.refresh \in Tokens \cup {None}
      BY <1>1, Nulls DEF LeaseInv, TypeOK, ReadStale, Row
    <2> QED
      BY <1>1, <2>1
      DEF LeaseInv, TypeOK, LeasedWhileExchanging, LeaseLocks, LeaseStaysPrivate, GrantInHand,
          ReadStale, Goto, Labels, provider
  <1>2. CASE Claim(s)
    <2>1. CASE row # NoRow /\ (row.owner = None \/ row.until < now)
      <3>1. lease' = [lease EXCEPT ![s] = Leased(s)] /\ pc' = [pc EXCEPT ![s] = "exchange"]
        BY <1>2, <2>1 DEF Claim, Goto
      <3>2. Leased(s) \in Row /\ Leased(s) # NoRow
        BY <2>1, LeasedRow, Nulls DEF LeaseInv
      <3>3. \A o \in Request \ {s} : lease[o] = NoRow
        BY <1>2 DEF Claim, LockedFor
      <3>4. TypeOK'
        BY <1>2, <3>1, <3>2 DEF LeaseInv, TypeOK, Claim, Labels, provider
      <3>5. LeasedWhileExchanging' /\ LeaseLocks'
        BY <1>2, <2>1, <3>1, <3>2, <3>3
        DEF LeaseInv, TypeOK, LeasedWhileExchanging, LeaseLocks, Claim, provider
      <3>6. LeaseStaysPrivate' /\ GrantInHand'
        BY <1>2, <3>1 DEF LeaseInv, TypeOK, LeaseStaysPrivate, GrantInHand, Claim, provider
      <3> QED
        BY <3>4, <3>5, <3>6 DEF LeaseInv
    <2>2. CASE ~(row # NoRow /\ (row.owner = None \/ row.until < now))
      BY <1>2, <2>2
      DEF LeaseInv, TypeOK, LeasedWhileExchanging, LeaseLocks, LeaseStaysPrivate, GrantInHand,
          Claim, Goto, Labels, provider
    <2> QED
      BY <2>1, <2>2
  <1>3. CASE Exchange(s)
    <2>1. issued' \in 0 .. MaxTokens /\ issued' \in Tokens
      BY <1>3, Bounds DEF LeaseInv, TypeOK, Exchange, Tokens
    <2>2. valid' \subseteq Tokens
      BY <1>3, <2>1 DEF LeaseInv, TypeOK, Exchange
    <2> QED
      BY <1>3, <2>1, <2>2
      DEF LeaseInv, TypeOK, LeasedWhileExchanging, LeaseLocks, LeaseStaysPrivate, GrantInHand,
          Exchange, Goto, Labels
  <1>4. CASE ExchangeKept(s)
    <2>1. faults' \in 0 .. MaxFaults
      BY <1>4, Bounds DEF LeaseInv, TypeOK, ExchangeKept
    <2> QED
      BY <1>4, <2>1
      DEF LeaseInv, TypeOK, LeasedWhileExchanging, LeaseLocks, LeaseStaysPrivate, GrantInHand,
          ExchangeKept, Goto, Labels, provider, locals
  <1>5. CASE Refused(s)
    BY <1>5, EndKeepsLease DEF LeaseInv, TypeOK, Refused, provider
  <1>6. CASE AnswerLost(s)
    <2>1. faults' \in 0 .. MaxFaults /\ valid' \subseteq valid
      BY <1>6, Bounds DEF LeaseInv, TypeOK, AnswerLost
    <2> QED
      BY <1>6, <2>1, EndKeepsLease DEF AnswerLost
  <1>7. CASE Store(s)
    <2>1. row \in Row
      BY <1>7 DEF LeaseInv, TypeOK, LeasedWhileExchanging, LeaseLocks, Store
    <2>2. row.id \in Tokens /\ fetched[s] \in Tokens \cup {None} /\ row # NoRow
      BY <2>1, Nulls DEF LeaseInv, TypeOK, Row
    <2>3. row' \in Row /\ row'.owner = None
      BY <1>7, <2>2, StoredRow DEF LeaseInv, Store, Refreshed
    <2> QED
      BY <1>7, <2>3, EndKeepsLease DEF LeaseInv, TypeOK, Store, provider
  <1>8. CASE Poll(s)
    <2>1. CASE row = NoRow \/ row.expires > now \/ polls[s] + 1 >= PollAttempts
      BY <1>8, <2>1, EndKeepsLease DEF LeaseInv, TypeOK, Poll, provider
    <2>2. CASE ~(row = NoRow \/ row.expires > now \/ polls[s] + 1 >= PollAttempts)
      <3>1. polls[s] + 1 \in 0 .. PollAttempts
        BY <2>2, Bounds DEF LeaseInv, TypeOK
      <3> QED
        BY <1>8, <2>2, <3>1
        DEF LeaseInv, TypeOK, LeasedWhileExchanging, LeaseLocks, LeaseStaysPrivate, GrantInHand,
            Poll, provider
    <2> QED
      BY <2>1, <2>2
  <1> QED
    BY <1>1, <1>2, <1>3, <1>4, <1>5, <1>6, <1>7, <1>8 DEF RefreshStep

(* The steps of a login. *)
LEMMA LoginLease ==
  ASSUME LeaseInv, NEW s \in Request, ExchangeCode(s) \/ LoginStep(s)
  PROVE  LeaseInv'
  <1>1. CASE ExchangeCode(s)
    <2>1. issued' \in 0 .. MaxTokens /\ issued' \in Tokens
      BY <1>1, Bounds DEF LeaseInv, TypeOK, ExchangeCode, Tokens
    <2>2. valid' \subseteq Tokens
      BY <1>1, <2>1 DEF LeaseInv, TypeOK, ExchangeCode
    <2> QED
      BY <1>1, <2>1, <2>2
      DEF LeaseInv, TypeOK, LeasedWhileExchanging, LeaseLocks, LeaseStaysPrivate, GrantInHand,
          ExchangeCode, Goto, Labels
  <1>2. CASE Unlinked(s)
    BY <1>2, EndKeepsLease DEF LeaseInv, TypeOK, Unlinked, provider
  <1>3. CASE Lookup(s)
    <2>1. (IF row = NoRow THEN None ELSE row.id) \in Tokens \cup {None}
      BY DEF LeaseInv, TypeOK, Row
    <2> QED
      BY <1>3, <2>1
      DEF LeaseInv, TypeOK, LeasedWhileExchanging, LeaseLocks, LeaseStaysPrivate, GrantInHand,
          Lookup, Goto, Labels, provider
  <1>4. CASE UpdateById(s)
    <2>1. fetched[s] \in Tokens
      BY <1>4 DEF LeaseInv, GrantInHand, UpdateById
    <2>2. row # NoRow => Stored(row.id, fetched[s]) \in Row /\ Stored(row.id, fetched[s]).owner = None
      BY <2>1, StoredRow DEF LeaseInv, TypeOK, Row
    <2>3. row' = row \/ (row' \in Row /\ row'.owner = None)
      BY <1>4, <2>2 DEF UpdateById
    <2> QED
      BY <1>4, <2>3, EndKeepsLease DEF LeaseInv, TypeOK, UpdateById, provider
  <1>5. CASE Insert(s)
    <2>1. fetched[s] \in Tokens
      BY <1>5 DEF LeaseInv, GrantInHand, Insert
    <2>2. row' \in Row /\ row'.owner = None
      BY <1>5, <2>1, Nulls, StoredRow DEF LeaseInv, Insert, Inserted
    <2> QED
      BY <1>5, <2>2, EndKeepsLease DEF LeaseInv, TypeOK, Insert, provider
  <1>6. CASE InsertRaced(s)
    BY <1>6
    DEF LeaseInv, TypeOK, LeasedWhileExchanging, LeaseLocks, LeaseStaysPrivate, GrantInHand,
        InsertRaced, Goto, Labels, provider, locals
  <1>7. CASE Overwrite(s)
    <2>1. fetched[s] \in Tokens
      BY <1>7 DEF LeaseInv, GrantInHand, Overwrite
    <2>2. row # NoRow => Stored(row.id, fetched[s]) \in Row /\ Stored(row.id, fetched[s]).owner = None
      BY <2>1, StoredRow DEF LeaseInv, TypeOK, Row
    <2>3. row' = row \/ (row' \in Row /\ row'.owner = None)
      BY <1>7, <2>2 DEF Overwrite
    <2> QED
      BY <1>7, <2>3, EndKeepsLease DEF LeaseInv, TypeOK, Overwrite, provider
  <1> QED
    BY <1>1, <1>2, <1>3, <1>4, <1>5, <1>6, <1>7 DEF LoginStep

(* Revocation waits for the lease; death and time write no row. *)
LEMMA OutsideLease ==
  ASSUME LeaseInv, (\E s \in Request : Revoke(s) \/ Die(s)) \/ Tick
  PROVE  LeaseInv'
  <1>1. ASSUME NEW s \in Request, Revoke(s) PROVE LeaseInv'
    <2>1. \A o \in Request : lease[o] = NoRow
      BY <1>1 DEF LeaseInv, LeasedWhileExchanging, Revoke, LockedFor
    <2> QED
      BY <1>1, <2>1
      DEF LeaseInv, TypeOK, LeasedWhileExchanging, LeaseLocks, LeaseStaysPrivate, GrantInHand,
          Revoke, provider, locals
  <1>2. ASSUME NEW s \in Request, Die(s) PROVE LeaseInv'
    <2>1. faults' \in 0 .. MaxFaults
      BY <1>2, Bounds DEF LeaseInv, TypeOK, Die
    <2> QED
      BY <1>2, <2>1, EndKeepsLease DEF Die, provider
  <1>3. CASE Tick
    <2>1. now' \in Time
      BY <1>3, Bounds DEF LeaseInv, TypeOK, Tick, Time
    <2> QED
      BY <1>3, <2>1
      DEF LeaseInv, TypeOK, LeasedWhileExchanging, LeaseLocks, LeaseStaysPrivate, GrantInHand,
          Tick, provider, locals
  <1> QED
    BY <1>1, <1>2, <1>3

LEMMA StepLease == LeaseInv /\ [Next]_vars => LeaseInv'
  <1> SUFFICES ASSUME LeaseInv, [Next]_vars PROVE LeaseInv'
    OBVIOUS
  <1>1. CASE \E s \in Request : ReadStale(s) \/ RefreshStep(s) \/ ExchangeKept(s) \/ AnswerLost(s)
    BY <1>1, RefreshLease
  <1>2. CASE \E s \in Request : ExchangeCode(s) \/ LoginStep(s)
    BY <1>2, LoginLease
  <1>3. CASE (\E s \in Request : Revoke(s) \/ Die(s)) \/ Tick
    BY <1>3, OutsideLease
  <1>4. CASE UNCHANGED vars
    BY <1>4
    DEF LeaseInv, TypeOK, LeasedWhileExchanging, LeaseLocks, LeaseStaysPrivate, GrantInHand,
        vars, provider, locals
  <1> QED
    BY <1>1, <1>2, <1>3, <1>4 DEF Next

LEMMA LeaseAlways == Spec => []LeaseInv
  BY InitLease, StepLease, PTL DEF Spec

(* Every reachable state is one of rows, tokens and instants within the bounds. *)
THEOREM TypesCorrect == Spec => []TypeOK
  <1>1. LeaseInv => TypeOK
    BY DEF LeaseInv
  <1> QED
    BY <1>1, LeaseAlways, PTL

(* One refresher at a time: the conditional UPDATE of _claim locks the row until the    *)
(* request that won it commits, so whoever has the provider exchange a token, or is      *)
(* about to store one, is alone; and a lease is never in a committed row.                *)
THEOREM OneRefresherAtATime == Spec => []OneRefresher
  <1>1. LeaseInv => OneRefresher
    BY DEF LeaseInv, LeasedWhileExchanging, LeaseLocks, OneRefresher
  <1> QED
    BY <1>1, LeaseAlways, PTL

(* A refresh in flight never brings back a revoked credential: `store` would insert the *)
(* row if it found none, and the lease of its own transaction keeps the row there.       *)
THEOREM RevokedStaysRevoked == Spec => NoResurrection
  <1>1. LeaseInv /\ [Next]_vars
        => [row = NoRow /\ row' # NoRow => \E s \in Request : pc[s] = "write"]_vars
    <2> SUFFICES ASSUME LeaseInv, Next, row = NoRow, row' # NoRow
                 PROVE  \E s \in Request : pc[s] = "write"
      OBVIOUS
    <2>1. ASSUME NEW s \in Request, Store(s) PROVE FALSE
      BY <2>1 DEF LeaseInv, LeasedWhileExchanging, LeaseLocks, Store
    <2>2. ASSUME NEW s \in Request, Overwrite(s) \/ Revoke(s) PROVE FALSE
      BY <2>2 DEF Overwrite, Revoke
    <2>3. ASSUME NEW s \in Request,
                 \/ ReadStale(s) \/ Claim(s) \/ Exchange(s) \/ Refused(s) \/ Poll(s)
                 \/ ExchangeKept(s) \/ AnswerLost(s) \/ ExchangeCode(s) \/ Unlinked(s)
                 \/ Lookup(s) \/ InsertRaced(s) \/ Die(s)
          PROVE  FALSE
      BY <2>3
      DEF ReadStale, Claim, Exchange, Refused, Poll, ExchangeKept, AnswerLost, ExchangeCode,
          Unlinked, Lookup, InsertRaced, Die
    <2>4. ASSUME Tick PROVE FALSE
      BY <2>4 DEF Tick
    <2>5. \E s \in Request : UpdateById(s) \/ Insert(s)
      BY <2>1, <2>2, <2>3, <2>4 DEF Next, RefreshStep, LoginStep
    <2> QED
      BY <2>5 DEF UpdateById, Insert
  <1> QED
    BY <1>1, LeaseAlways, PTL DEF Spec, NoResurrection

-----------------------------------------------------------------------------
(* The tokens *)

LEMMA InitToken == Init => TokenInv
  BY DEF Init, TokenInv, TokensIssued, TokensHeldOnce, SpentOnlyBySuccessor, Holding, Spending

(* A request that ends with the row as it was takes its token with it. *)
LEMMA EndKeepsToken ==
  ASSUME LeaseInv, TokenInv, NEW s \in Request, EndRequest(s), pc[s] # "store" \/ faults' # 0,
         row' = row, issued' = issued, faults' \in Nat,
         faults' = 0 => faults = 0 /\ valid' = valid
  PROVE  TokenInv'
  <1>1. TokensIssued'
    BY EndRequestLocals, Nulls
    DEF LeaseInv, TypeOK, TokenInv, TokensIssued, EndRequest, Goto, Spending
  <1>2. faults' = 0 => TokensHeldOnce'
    BY EndRequestLocals DEF LeaseInv, TokenInv, TokensHeldOnce, Holding, Spending
  <1>3. faults' = 0 => SpentOnlyBySuccessor'
    BY EndRequestLocals DEF LeaseInv, TokenInv, SpentOnlyBySuccessor
  <1> QED
    BY <1>1, <1>2, <1>3 DEF TokenInv

(* A request that stores its token moves it from its hand into the row. *)
LEMMA WriteKeepsToken ==
  ASSUME LeaseInv, TokenInv, NEW s \in Request, EndRequest(s), pc[s] \in Holding,
         issued' = issued, valid' = valid, faults' = faults,
         row' # NoRow, row'.refresh = fetched[s]
  PROVE  TokenInv'
  <1>1. TokensIssued'
    BY EndRequestLocals, Nulls
    DEF LeaseInv, TypeOK, TokenInv, TokensIssued, EndRequest, Goto, Spending
  <1>2. faults' = 0 => TokensHeldOnce'
    BY EndRequestLocals DEF LeaseInv, TokenInv, TokensHeldOnce, Holding, Spending
  <1>3. faults' = 0 => SpentOnlyBySuccessor'
    BY DEF TokenInv, TokensHeldOnce, SpentOnlyBySuccessor
  <1> QED
    BY <1>1, <1>2, <1>3 DEF TokenInv

(* A step that moves a request elsewhere than to its end, and leaves its token and the  *)
(* row alone, keeps them: it neither takes a token in hand nor lets go of one.            *)
LEMMA MoveKeepsToken ==
  ASSUME LeaseInv, TokenInv, NEW s \in Request, NEW label \in Labels, Goto(s, label),
         row' = row, issued' = issued, valid' = valid, faults' = faults, fetched' = fetched,
         (label \in Holding) = (pc[s] \in Holding), pc[s] # "store",
         label \in Spending => pc[s] \in Spending /\ current'[s] = current[s],
         current' \in [Request -> Tokens \cup {None}],
         \A o \in Request \ {s} : current'[o] = current[o]
  PROVE  TokenInv'
  <1>1. /\ pc'[s] = label
        /\ \A o \in Request \ {s} : pc'[o] = pc[o]
    BY DEF LeaseInv, TypeOK, Goto
  <1>2. TokensIssued'
    BY <1>1 DEF TokenInv, TokensIssued
  <1>3. faults' = 0 => TokensHeldOnce'
    BY <1>1 DEF TokenInv, TokensHeldOnce
  <1>4. faults' = 0 => SpentOnlyBySuccessor'
    BY <1>1 DEF TokenInv, SpentOnlyBySuccessor
  <1> QED
    BY <1>2, <1>3, <1>4 DEF TokenInv

(* A token that the provider has just issued is in nobody's hand but the request's. *)
LEMMA IssueKeepsToken ==
  ASSUME LeaseInv, TokenInv, NEW s \in Request, NEW label \in {"store", "lookup"},
         Goto(s, label), pc[s] # "store",
         row' = row, current' = current, faults' = faults,
         issued' = issued + 1, fetched' = [fetched EXCEPT ![s] = issued'],
         \/ valid' = valid \cup {issued'}
         \/ /\ label = "store" /\ pc[s] = "exchange"
            /\ valid' = (valid \ {current[s]}) \cup {issued'}
  PROVE  TokenInv'
  <1>1. /\ pc'[s] = label /\ fetched'[s] = issued'
        /\ \A o \in Request \ {s} : pc'[o] = pc[o] /\ fetched'[o] = fetched[o]
    BY DEF LeaseInv, TypeOK, Goto
  <1>2. issued \in Nat /\ (\A n \in Nat : n <= issued => n <= issued' /\ n # issued')
    BY Bounds DEF LeaseInv, TypeOK
  <1>3. /\ \A o \in Request : fetched[o] # None => fetched[o] \in Nat
        /\ \A o \in Request : current[o] # None => current[o] \in Nat
        /\ row # NoRow /\ row.refresh # None => row.refresh \in Nat
        /\ None # issued'
    <2>1. /\ \A o \in Request : fetched[o] # None => fetched[o] \in Nat
          /\ \A o \in Request : current[o] # None => current[o] \in Nat
      BY Nulls DEF LeaseInv, TypeOK
    <2>2. row # NoRow /\ row.refresh # None => row.refresh \in Nat
      BY Nulls DEF LeaseInv, TypeOK, Row
    <2>3. issued' \in Nat
      BY <1>2
    <2> QED
      BY <2>1, <2>2, <2>3, Nulls
  <1>4. TokensIssued'
    BY <1>1, <1>2, <1>3 DEF TokenInv, TokensIssued, Spending
  <1>5. faults' = 0 => TokensHeldOnce'
    <2> SUFFICES ASSUME faults' = 0, NEW h \in Request, pc'[h] \in Holding
                 PROVE  /\ fetched'[h] \in valid'
                        /\ row' # NoRow => row'.refresh # fetched'[h]
                        /\ \A o \in Request : pc'[o] \in Spending => current'[o] # fetched'[h]
                        /\ \A o \in Request :
                             pc'[o] \in Holding /\ fetched'[o] = fetched'[h] => o = h
      BY DEF TokensHeldOnce, Holding, Spending
    <2>1. CASE h = s
      <3>1. fetched'[h] = issued' /\ issued' \in valid'
        BY <1>1, <2>1
      <3>2. row' # NoRow => row'.refresh # issued'
        BY <1>2, <1>3 DEF TokenInv, TokensIssued
      <3>3. \A o \in Request : pc'[o] \in Spending => current'[o] # issued'
        BY <1>1, <1>2, <1>3 DEF TokenInv, TokensIssued, Spending
      <3>4. \A o \in Request \ {s} : fetched'[o] # issued'
        BY <1>1, <1>2, <1>3 DEF TokenInv, TokensIssued
      <3> QED
        BY <2>1, <3>1, <3>2, <3>3, <3>4
    <2>2. CASE h # s
      <3>1. /\ fetched[h] \in valid /\ fetched'[h] = fetched[h] /\ fetched[h] # issued'
            /\ row # NoRow => row.refresh # fetched[h]
            /\ \A o \in Request : pc[o] \in Spending => current[o] # fetched[h]
            /\ \A o \in Request : pc[o] \in Holding /\ fetched[o] = fetched[h] => o = h
        BY <1>1, <1>2, <1>3, <2>2 DEF TokenInv, TokensHeldOnce, TokensIssued
      <3>2. fetched'[h] \in valid'
        BY <3>1 DEF Spending
      <3>3. \A o \in Request : pc'[o] \in Spending => pc[o] \in Spending
        BY <1>1 DEF Spending
      <3> QED
        BY <1>1, <3>1, <3>2, <3>3
    <2> QED
      BY <2>1, <2>2
  <1>6. faults' = 0 => SpentOnlyBySuccessor'
    <2>1. CASE label = "store"
      BY <1>1, <2>1 DEF SpentOnlyBySuccessor
    <2>2. CASE label # "store"
      BY <1>1, <2>2 DEF TokenInv, SpentOnlyBySuccessor
    <2> QED
      BY <2>1, <2>2
  <1> QED
    BY <1>4, <1>5, <1>6 DEF TokenInv

(* The steps of a refresh. *)
LEMMA RefreshToken ==
  ASSUME LeaseInv, TokenInv, NEW s \in Request,
         ReadStale(s) \/ RefreshStep(s) \/ ExchangeKept(s) \/ AnswerLost(s)
  PROVE  TokenInv'
  <1> USE DEF Holding, Spending
  <1>1. CASE ReadStale(s)
    <2>1. /\ pc'[s] = "claim" /\ current'[s] = row.refresh /\ row # NoRow /\ pc[s] = "idle"
          /\ \A o \in Request \ {s} : pc'[o] = pc[o] /\ current'[o] = current[o]
          /\ row' = row /\ issued' = issued /\ valid' = valid /\ faults' = faults
          /\ fetched' = fetched
      BY <1>1 DEF ReadStale, Goto, LeaseInv, TypeOK, provider
    <2>2. TokensIssued'
      BY <2>1 DEF TokenInv, TokensIssued
    <2>3. faults' = 0 => TokensHeldOnce'
      BY <2>1 DEF TokenInv, TokensHeldOnce
    <2>4. faults' = 0 => SpentOnlyBySuccessor'
      BY <2>1 DEF TokenInv, SpentOnlyBySuccessor
    <2> QED
      BY <2>2, <2>3, <2>4 DEF TokenInv
  <1>2. CASE Claim(s)
    <2>1. PICK label \in {"exchange", "poll"} : Goto(s, label)
      BY <1>2 DEF Claim
    <2> QED
      BY <1>2, <2>1, MoveKeepsToken DEF Claim, LeaseInv, TypeOK, Labels, provider
  <1>3. CASE Exchange(s)
    BY <1>3, IssueKeepsToken DEF Exchange
  <1>4. CASE ExchangeKept(s)
    <2>1. faults' # 0
      BY <1>4 DEF ExchangeKept, LeaseInv, TypeOK
    <2>2. TokensIssued'
      BY <1>4 DEF ExchangeKept, Goto, LeaseInv, TypeOK, TokenInv, TokensIssued, provider, locals
    <2> QED
      BY <2>1, <2>2 DEF TokenInv
  <1>5. CASE Refused(s)
    BY <1>5, EndKeepsToken DEF Refused, LeaseInv, TypeOK, provider
  <1>6. CASE AnswerLost(s)
    <2>1. faults' \in Nat /\ faults' # 0
      BY <1>6 DEF AnswerLost, LeaseInv, TypeOK
    <2> QED
      BY <1>6, <2>1, EndKeepsToken DEF AnswerLost
  <1>7. CASE Store(s)
    <2>1. row # NoRow
      BY <1>7 DEF LeaseInv, LeasedWhileExchanging, LeaseLocks, Store
    <2>2. row \in Row /\ fetched[s] \in Tokens \cup {None}
      BY <2>1 DEF LeaseInv, TypeOK
    <2>3. row' \in Row /\ row'.refresh = fetched[s]
      BY <1>7, <2>1, <2>2, StoredRow DEF LeaseInv, Store, Refreshed, Row
    <2> QED
      BY <1>7, <2>3, Nulls, WriteKeepsToken DEF Store, provider
  <1>8. CASE Poll(s)
    <2>1. CASE row = NoRow \/ row.expires > now \/ polls[s] + 1 >= PollAttempts
      BY <1>8, <2>1, EndKeepsToken DEF Poll, LeaseInv, TypeOK, provider
    <2>2. CASE ~(row = NoRow \/ row.expires > now \/ polls[s] + 1 >= PollAttempts)
      BY <1>8, <2>2
      DEF Poll, TokenInv, TokensIssued, TokensHeldOnce, SpentOnlyBySuccessor, provider
    <2> QED
      BY <2>1, <2>2
  <1> QED
    BY <1>1, <1>2, <1>3, <1>4, <1>5, <1>6, <1>7, <1>8 DEF RefreshStep

(* A login's write stores its token or, when the row is gone, nothing. *)
LEMMA LoginWrites ==
  ASSUME LeaseInv, TokenInv, NEW s \in Request, UpdateById(s) \/ Insert(s) \/ Overwrite(s)
  PROVE  TokenInv'
  <1>1. /\ pc[s] \in {"write", "overwrite"} /\ EndRequest(s)
        /\ issued' = issued /\ valid' = valid /\ faults' = faults
    BY DEF UpdateById, Insert, Overwrite, provider
  <1>2. fetched[s] \in Tokens
    BY <1>1 DEF LeaseInv, GrantInHand
  <1>3. row # NoRow => /\ Stored(row.id, fetched[s]) \in Row
                       /\ Stored(row.id, fetched[s]).refresh = fetched[s]
    BY <1>2, StoredRow DEF LeaseInv, TypeOK, Row
  <1>4. /\ Inserted(s) = Stored(fetched[s], fetched[s])
        /\ Inserted(s) \in Row /\ Inserted(s).refresh = fetched[s]
    BY <1>2, Nulls, StoredRow DEF LeaseInv, Inserted
  <1>5. row' = row \/ (row' \in Row /\ row'.refresh = fetched[s])
    BY <1>3, <1>4 DEF UpdateById, Insert, Overwrite
  <1>6. CASE row' = row
    BY <1>1, <1>6, EndKeepsToken DEF LeaseInv, TypeOK
  <1>7. CASE row' \in Row /\ row'.refresh = fetched[s]
    BY <1>1, <1>7, Nulls, WriteKeepsToken DEF Holding
  <1> QED
    BY <1>5, <1>6, <1>7

(* The steps of a login. *)
LEMMA LoginToken ==
  ASSUME LeaseInv, TokenInv, NEW s \in Request, ExchangeCode(s) \/ LoginStep(s)
  PROVE  TokenInv'
  <1> USE DEF Holding, Spending
  <1>1. CASE ExchangeCode(s)
    BY <1>1, IssueKeepsToken DEF ExchangeCode
  <1>2. CASE Unlinked(s)
    BY <1>2, EndKeepsToken DEF Unlinked, LeaseInv, TypeOK, provider
  <1>3. CASE Lookup(s)
    <2>1. (IF row = NoRow THEN None ELSE row.id) \in Tokens \cup {None}
      BY DEF LeaseInv, TypeOK, Row
    <2>2. /\ current' \in [Request -> Tokens \cup {None}]
          /\ \A o \in Request \ {s} : current'[o] = current[o]
      BY <1>3, <2>1 DEF Lookup, LeaseInv, TypeOK
    <2> QED
      BY <1>3, <2>2, MoveKeepsToken DEF Lookup, Labels, provider
  <1>4. CASE UpdateById(s)
    BY <1>4, LoginWrites
  <1>5. CASE Insert(s)
    BY <1>5, LoginWrites
  <1>6. CASE InsertRaced(s)
    BY <1>6, MoveKeepsToken DEF InsertRaced, LeaseInv, TypeOK, Labels, provider, locals
  <1>7. CASE Overwrite(s)
    BY <1>7, LoginWrites
  <1> QED
    BY <1>1, <1>2, <1>3, <1>4, <1>5, <1>6, <1>7 DEF LoginStep

(* Revocation, death and time. *)
LEMMA OutsideToken ==
  ASSUME LeaseInv, TokenInv, (\E s \in Request : Revoke(s) \/ Die(s)) \/ Tick
  PROVE  TokenInv'
  <1>1. ASSUME NEW s \in Request, Revoke(s) PROVE TokenInv'
    BY <1>1
    DEF Revoke, TokenInv, TokensIssued, TokensHeldOnce, SpentOnlyBySuccessor, provider, locals
  <1>2. ASSUME NEW s \in Request, Die(s) PROVE TokenInv'
    <2>1. faults' \in Nat /\ faults' # 0
      BY <1>2 DEF Die, LeaseInv, TypeOK
    <2> QED
      BY <1>2, <2>1, EndKeepsToken DEF Die, provider
  <1>3. CASE Tick
    BY <1>3
    DEF Tick, TokenInv, TokensIssued, TokensHeldOnce, SpentOnlyBySuccessor, provider, locals
  <1> QED
    BY <1>1, <1>2, <1>3

LEMMA StepToken == LeaseInv /\ TokenInv /\ [Next]_vars => TokenInv'
  <1> SUFFICES ASSUME LeaseInv, TokenInv, [Next]_vars PROVE TokenInv'
    OBVIOUS
  <1>1. CASE \E s \in Request : ReadStale(s) \/ RefreshStep(s) \/ ExchangeKept(s) \/ AnswerLost(s)
    BY <1>1, RefreshToken
  <1>2. CASE \E s \in Request : ExchangeCode(s) \/ LoginStep(s)
    BY <1>2, LoginToken
  <1>3. CASE (\E s \in Request : Revoke(s) \/ Die(s)) \/ Tick
    BY <1>3, OutsideToken
  <1>4. CASE UNCHANGED vars
    BY <1>4
    DEF TokenInv, TokensIssued, TokensHeldOnce, SpentOnlyBySuccessor, vars, provider, locals
  <1> QED
    BY <1>1, <1>2, <1>3, <1>4 DEF Next

LEMMA TokenAlways == Spec => []TokenInv
  BY InitToken, StepToken, LeaseAlways, PTL DEF Spec

(* No rotated token is lost: however logins, refreshes and revocations interleave, and   *)
(* while no answer or request is lost, the stored refresh token is one the provider       *)
(* accepts, or the request that spent it has the provider's next one in hand.              *)
THEOREM RotationLosesNothing == Spec => []CredentialAlive
  <1>1. LeaseInv /\ TokenInv => CredentialAlive
    BY DEF LeaseInv, TypeOK, TokenInv, TokensHeldOnce, SpentOnlyBySuccessor, Holding, CredentialAlive
  <1> QED
    BY <1>1, LeaseAlways, TokenAlways, PTL

=============================================================================
