------------------------- MODULE AuthSessionsProofs -------------------------
(***************************************************************************)
(* Proofs about AuthSessions, for every number of requests, every lifetime *)
(* of cached rows and every grace window: no refresh token is exchanged    *)
(* twice, and bounds on how long a revoked session and a replaced token    *)
(* are served; with one request at a time, the current token is never      *)
(* taken for a replay.                                                     *)
(***************************************************************************)
EXTENDS MCAuthSessions, FiniteSetTheorems, TLAPS

(***************************************************************************)
(* The inductive invariant.                                                *)
(***************************************************************************)

\* Once a refresh has decided, its issuedAt is a time between its start and now.
Decided(r) == r \in second \/ pc[r] \in {"cas", "reread", "recache", "uncache"}

TimeInv ==
  /\ revokedAt <= now
  /\ \A r \in Requests :
       /\ started[r] <= now
       /\ pc[r] \notin Closed => now <= started[r] + Patience
       /\ Decided(r) => started[r] <= at[r] /\ at[r] <= now
       /\ servedAt[r] <= now
       /\ pc[r] = "idle" => r \notin second

\* Tokens come from rotations, each of the token that was current; the current
\* token has no successor, and clients know a token only when it was minted.
TokenInv ==
  /\ parent[First] = None
  /\ \A r \in Requests :
       /\ parent[r] # None => /\ parent[r] = token[r]
                              /\ pc[r] \in {"reread", "recache", "serve", "served", "dead"}
                              /\ at[r] <= supersededAt[token[r]]
       /\ pc[r] \in {"reread", "recache"} => parent[r] # None
       /\ r \in known => parent[r] # None
       /\ pc[r] # "idle" => token[r] \in known
       /\ parent[r] # None => parent[r] \in known
  /\ row # None => \A x \in Requests : parent[x] # row.cur
  /\ NoFork

\* The previous token of a session was replaced, and its grace counts from then.
PreviousInv(s) ==
  s # None /\ s.prev # None =>
    /\ \E x \in Requests : parent[x] = s.prev
    /\ s.prevUntil <= supersededAt[s.prev] + Grace

SessionsInv ==
  /\ PreviousInv(row)
  /\ PreviousInv(cache.value)
  /\ \A r \in Requests : PreviousInv(got[r])

\* A request that holds a row it read itself, or is about to cache its own
\* rotation, came before that row was revoked or replaced.
Fresh(r) == pc[r] \in {"reread", "recache"} \/ (pc[r] = "fill" /\ got[r] # None)
\* A request that goes by a row it found, in the cache or not.
Holds(r) == pc[r] \in {"decide", "cas", "uncache", "serve"}

RevokedInv ==
  row = None =>
    /\ cache.value # None => cache.until <= revokedAt + Patience + SessionTtl
    /\ \A r \in Requests :
         /\ Fresh(r) => started[r] <= revokedAt
         /\ Holds(r) => started[r] <= revokedAt + Patience + SessionTtl
         /\ pc[r] = "served" => servedAt[r] <= revokedAt + SessionTtl + 2 * Patience

Slack == Longest(Grace, SessionTtl + Patience)

ReplacedInv ==
  \A x \in Requests : parent[x] # None =>
    LET t == parent[x]
        s == supersededAt[t]
    IN  /\ s <= now
        /\ cache.value # None /\ cache.value.cur = t
             => cache.until <= s + Patience + SessionTtl
        /\ \A r \in Requests :
             /\ pc[r] \in {"reread", "recache"} /\ r = t => started[r] <= s
             /\ pc[r] = "fill" /\ got[r] # None /\ got[r].cur = t => started[r] <= s
             /\ pc[r] = "decide" /\ got[r] # None /\ got[r].cur = t
                  => started[r] <= s + Patience + SessionTtl
             /\ pc[r] = "serve" /\ token[r] = t /\ x # r => started[r] <= s + Slack
             /\ pc[r] = "served" /\ token[r] = t /\ x # r => servedAt[r] <= s + Slack + Patience

\* A live cached row was cached at most its lifetime ago.
CacheInv == cache.value # None => cache.until <= now + SessionTtl

DecideInv == \A r \in Requests : pc[r] = "decide" => got[r] # None

IInv == /\ TypeOK /\ TimeInv /\ TokenInv /\ SessionsInv
        /\ RevokedInv /\ ReplacedInv /\ CacheInv /\ DecideInv

\* Begin keeps the invariant.
LEMMA BeginInv ==
  ASSUME IInv, NEW r \in Requests, Begin(r)
  PROVE  IInv'
<1>. USE SessionsAssumption DEF Begin, Go, Open, IInv, TypeOK, Session, Token, Closed, request, history
<1>1. TypeOK'
  BY DEF RequestStep
<1>2. TimeInv'
  BY DEF TimeInv, Decided
<1>3. TokenInv'
  BY DEF TokenInv, NoFork
<1>4. SessionsInv'
  BY DEF SessionsInv, PreviousInv, TokenInv, NoFork
<1>5. RevokedInv'
  BY DEF RevokedInv, Fresh, Holds, TimeInv, Decided, CacheInv
<1>6. ReplacedInv'
  BY DEF ReplacedInv, Slack, Longest, TimeInv, Decided, TokenInv, NoFork, SessionsInv, PreviousInv, CacheInv, DecideInv
<1>7. CacheInv'
  BY DEF CacheInv
<1>8. DecideInv'
  BY DEF DecideInv
<1>. QED
  BY <1>1, <1>2, <1>3, <1>4, <1>5, <1>6, <1>7, <1>8 DEF IInv

\* Get keeps the invariant.
LEMMA GetInv ==
  ASSUME IInv, NEW r \in Requests, Get(r)
  PROVE  IInv'
<1>. USE SessionsAssumption DEF Get, Go, AfterFind, Fault, IInv, TypeOK, Session, Token, Closed, request, history
<1>1. TypeOK'
  BY DEF RequestStep
<1>2. TimeInv'
  BY DEF TimeInv, Decided
<1>3. TokenInv'
  BY DEF TokenInv, NoFork
<1>4. SessionsInv'
  BY DEF SessionsInv, PreviousInv, TokenInv, NoFork
<1>5. RevokedInv'
  BY DEF RevokedInv, Fresh, Holds, TimeInv, Decided, CacheInv
<1>6. ReplacedInv'
  BY DEF ReplacedInv, Slack, Longest, TimeInv, Decided, TokenInv, NoFork, SessionsInv, PreviousInv, CacheInv, DecideInv
<1>7. CacheInv'
  BY DEF CacheInv
<1>8. DecideInv'
  BY DEF DecideInv
<1>. QED
  BY <1>1, <1>2, <1>3, <1>4, <1>5, <1>6, <1>7, <1>8 DEF IInv

\* Read keeps the invariant.
LEMMA ReadInv ==
  ASSUME IInv, NEW r \in Requests, Read(r)
  PROVE  IInv'
<1>. USE SessionsAssumption DEF Read, Go, IInv, TypeOK, Session, Token, Closed, request, history
<1>1. TypeOK'
  BY DEF RequestStep
<1>2. TimeInv'
  BY DEF TimeInv, Decided
<1>3. TokenInv'
  BY DEF TokenInv, NoFork
<1>4. SessionsInv'
  BY DEF SessionsInv, PreviousInv, TokenInv, NoFork
<1>5. RevokedInv'
  BY DEF RevokedInv, Fresh, Holds, TimeInv, Decided, CacheInv
<1>6. ReplacedInv'
  BY DEF ReplacedInv, Slack, Longest, TimeInv, Decided, TokenInv, NoFork, SessionsInv, PreviousInv, CacheInv, DecideInv
<1>7. CacheInv'
  BY DEF CacheInv
<1>8. DecideInv'
  BY DEF DecideInv
<1>. QED
  BY <1>1, <1>2, <1>3, <1>4, <1>5, <1>6, <1>7, <1>8 DEF IInv

\* Fill keeps the invariant.
LEMMA FillInv ==
  ASSUME IInv, NEW r \in Requests, Fill(r)
  PROVE  IInv'
<1>. USE SessionsAssumption DEF Fill, Go, AfterFind, Fault, IInv, TypeOK, Session, Token, Closed, request, history
<1>1. TypeOK'
  BY DEF RequestStep
<1>2. TimeInv'
  BY DEF TimeInv, Decided
<1>3. TokenInv'
  BY DEF TokenInv, NoFork
<1>4. SessionsInv'
  BY DEF SessionsInv, PreviousInv, TokenInv, NoFork
<1>5. RevokedInv'
  BY DEF RevokedInv, Fresh, Holds, TimeInv, Decided, CacheInv
<1>6. ReplacedInv'
  BY DEF ReplacedInv, Slack, Longest, TimeInv, Decided, TokenInv, NoFork, SessionsInv, PreviousInv, CacheInv, DecideInv
<1>7. CacheInv'
  BY DEF CacheInv
<1>8. DecideInv'
  BY DEF DecideInv
<1>. QED
  BY <1>1, <1>2, <1>3, <1>4, <1>5, <1>6, <1>7, <1>8 DEF IInv

\* Decide keeps the invariant.
LEMMA DecideInvKept ==
  ASSUME IInv, NEW r \in Requests, Decide(r)
  PROVE  IInv'
<1>. USE SessionsAssumption DEF Decide, Go, Matches, InGrace, IInv, TypeOK, Session, Token, Closed, request, history
<1>1. TypeOK'
  BY DEF RequestStep
<1>2. TimeInv'
  BY DEF TimeInv, Decided
<1>3. TokenInv'
  BY DEF TokenInv, NoFork
<1>4. SessionsInv'
  BY DEF SessionsInv, PreviousInv, TokenInv, NoFork
<1>5. RevokedInv'
  BY DEF RevokedInv, Fresh, Holds, TimeInv, Decided, CacheInv
<1>6. ReplacedInv'
  BY DEF ReplacedInv, Slack, Longest, TimeInv, Decided, TokenInv, NoFork, SessionsInv, PreviousInv, CacheInv, DecideInv
<1>7. CacheInv'
  BY DEF CacheInv
<1>8. DecideInv'
  BY DEF DecideInv
<1>. QED
  BY <1>1, <1>2, <1>3, <1>4, <1>5, <1>6, <1>7, <1>8 DEF IInv

\* Cas keeps the invariant.
LEMMA CasInv ==
  ASSUME IInv, NEW r \in Requests, Cas(r)
  PROVE  IInv'
<1>. USE SessionsAssumption DEF Cas, Go, IInv, TypeOK, Session, Token, Closed, request, history
<1>1. token[r] \in Token /\ token[r] \in known
  BY DEF TokenInv
<1>2. CASE ~(row # None /\ row.cur = token[r])
  <2>. USE <1>2
  <2>1. TypeOK'
    BY DEF RequestStep
  <2>2. TimeInv'
    BY DEF TimeInv, Decided
  <2>3. TokenInv'
    BY DEF TokenInv, NoFork
  <2>4. SessionsInv'
    BY DEF SessionsInv, PreviousInv
  <2>5. RevokedInv'
    BY DEF RevokedInv, Fresh, Holds
  <2>6. ReplacedInv'
    BY DEF ReplacedInv
  <2>7. CacheInv' /\ DecideInv'
    BY DEF CacheInv, DecideInv
  <2>. QED
    BY <2>1, <2>2, <2>3, <2>4, <2>5, <2>6, <2>7
<1>3. CASE row # None /\ row.cur = token[r]
  <2>. USE <1>1, <1>3 DEF Rotate
  <2>0. row' \in Session /\ row' # None
    BY NoneIsNoSession
  <2>a. live' = TRUE
    OBVIOUS
  <2>b. live' \in BOOLEAN
    BY <2>a, Zenon
  <2>1. TypeOK'
    BY <2>0, <2>b DEF RequestStep
  <2>2. TimeInv'
    BY DEF TimeInv, Decided
  <2>3. TokenInv'
    <3>1. parent[r] = None /\ (\A x \in Requests : parent[x] # token[r]) /\ NoFork
      BY DEF TokenInv
    <3>2. parent' = [parent EXCEPT ![r] = token[r]] /\ row'.cur = r
      OBVIOUS
    <3>3. (\A x \in Requests : parent[x] # r) /\ token[r] # r
      BY <3>1 DEF TokenInv
    <3>4. NoFork'
      BY <3>1, <3>2 DEF NoFork
    <3>5. \A x \in Requests : parent'[x] # row'.cur
      BY <3>2, <3>3
    <3>6. \A x \in Requests : parent[x] # None => token[x] # token[r]
      BY <3>1 DEF TokenInv
    <3>7. supersededAt'[token[r]] = now /\ at[r] <= now
      BY DEF TimeInv, Decided
    <3>8. \A x \in Requests : parent[x] # None => at[x] <= supersededAt'[token[x]]
      BY <3>6 DEF TokenInv
    <3>9. parent'[First] = None
      BY <3>2 DEF TokenInv
    <3>. QED
      BY <3>2, <3>4, <3>5, <3>7, <3>8, <3>9 DEF TokenInv
  <2>4. SessionsInv'
    BY DEF SessionsInv, PreviousInv, TokenInv, TimeInv, Decided
  <2>5. RevokedInv'
    BY <2>0 DEF RevokedInv
  <2>6. ReplacedInv'
    BY DEF ReplacedInv, TokenInv, NoFork, TimeInv, Decided, CacheInv, Slack, Longest
  <2>7. CacheInv' /\ DecideInv'
    BY DEF CacheInv, DecideInv
  <2>. QED
    BY <2>1, <2>2, <2>3, <2>4, <2>5, <2>6, <2>7
<1>. QED
  BY <1>2, <1>3

\* Reread keeps the invariant.
LEMMA RereadInv ==
  ASSUME IInv, NEW r \in Requests, Reread(r)
  PROVE  IInv'
<1>. USE SessionsAssumption DEF Reread, Go, Gone, Fault, IInv, TypeOK, Session, Token, Closed, request, history
<1>1. TypeOK'
  BY DEF RequestStep
<1>2. TimeInv'
  BY DEF TimeInv, Decided
<1>3. TokenInv'
  BY DEF TokenInv, NoFork
<1>4. SessionsInv'
  BY DEF SessionsInv, PreviousInv, TokenInv, NoFork
<1>5. RevokedInv'
  BY DEF RevokedInv, Fresh, Holds, TimeInv, Decided, CacheInv
<1>6. ReplacedInv'
  BY DEF ReplacedInv, Slack, Longest, TimeInv, Decided, TokenInv, NoFork, SessionsInv, PreviousInv, CacheInv, DecideInv
<1>7. CacheInv'
  BY DEF CacheInv
<1>8. DecideInv'
  BY DEF DecideInv
<1>. QED
  BY <1>1, <1>2, <1>3, <1>4, <1>5, <1>6, <1>7, <1>8 DEF IInv

\* Recache keeps the invariant.
LEMMA RecacheInv ==
  ASSUME IInv, NEW r \in Requests, Recache(r)
  PROVE  IInv'
<1>. USE SessionsAssumption DEF Recache, Go, Gone, Fault, IInv, TypeOK, Session, Token, Closed, request, history
<1>1. TypeOK'
  BY DEF RequestStep
<1>2. TimeInv'
  BY DEF TimeInv, Decided
<1>3. TokenInv'
  BY DEF TokenInv, NoFork
<1>4. SessionsInv'
  BY DEF SessionsInv, PreviousInv, TokenInv, NoFork
<1>5. RevokedInv'
  BY DEF RevokedInv, Fresh, Holds, TimeInv, Decided, CacheInv
<1>6. ReplacedInv'
  BY DEF ReplacedInv, Slack, Longest, TimeInv, Decided, TokenInv, NoFork, SessionsInv, PreviousInv, CacheInv, DecideInv
<1>7. CacheInv'
  BY DEF CacheInv
<1>8. DecideInv'
  BY DEF DecideInv
<1>. QED
  BY <1>1, <1>2, <1>3, <1>4, <1>5, <1>6, <1>7, <1>8 DEF IInv

\* Uncache keeps the invariant.
LEMMA UncacheInv ==
  ASSUME IInv, NEW r \in Requests, Uncache(r)
  PROVE  IInv'
<1>. USE SessionsAssumption DEF Uncache, Go, Gone, Fault, IInv, TypeOK, Session, Token, Closed, request, history
<1>1. TypeOK'
  BY DEF RequestStep
<1>2. TimeInv'
  BY DEF TimeInv, Decided
<1>3. TokenInv'
  BY DEF TokenInv, NoFork
<1>4. SessionsInv'
  BY DEF SessionsInv, PreviousInv, TokenInv, NoFork
<1>5. RevokedInv'
  BY DEF RevokedInv, Fresh, Holds, TimeInv, Decided, CacheInv
<1>6. ReplacedInv'
  BY DEF ReplacedInv, Slack, Longest, TimeInv, Decided, TokenInv, NoFork, SessionsInv, PreviousInv, CacheInv, DecideInv
<1>7. CacheInv'
  BY DEF CacheInv
<1>8. DecideInv'
  BY DEF DecideInv
<1>. QED
  BY <1>1, <1>2, <1>3, <1>4, <1>5, <1>6, <1>7, <1>8 DEF IInv

\* Serve keeps the invariant.
LEMMA ServeInv ==
  ASSUME IInv, NEW r \in Requests, Serve(r)
  PROVE  IInv'
<1>. USE SessionsAssumption DEF Serve, Go, IInv, TypeOK, Session, Token, Closed, request, history
<1>1. TypeOK'
  BY DEF RequestStep
<1>2. TimeInv'
  BY DEF TimeInv, Decided
<1>3. TokenInv'
  BY DEF TokenInv, NoFork
<1>4. SessionsInv'
  BY DEF SessionsInv, PreviousInv, TokenInv, NoFork
<1>5. RevokedInv'
  BY DEF RevokedInv, Fresh, Holds, TimeInv, Decided, CacheInv
<1>6. ReplacedInv'
  BY DEF ReplacedInv, Slack, Longest, TimeInv, Decided, TokenInv, NoFork, SessionsInv, PreviousInv, CacheInv, DecideInv
<1>7. CacheInv'
  BY DEF CacheInv
<1>8. DecideInv'
  BY DEF DecideInv
<1>. QED
  BY <1>1, <1>2, <1>3, <1>4, <1>5, <1>6, <1>7, <1>8 DEF IInv

\* RevokeFamily keeps the invariant.
LEMMA RevokeFamilyInv ==
  ASSUME IInv, NEW r \in Requests, RevokeFamily(r)
  PROVE  IInv'
<1>. USE SessionsAssumption DEF RevokeFamily, Go, DeleteRow, IInv, TypeOK, Session, Token, Closed, request, history
<1>1. TypeOK'
  BY DEF RequestStep
<1>2. TimeInv'
  BY DEF TimeInv, Decided
<1>3. TokenInv'
  BY DEF TokenInv, NoFork
<1>4. SessionsInv'
  BY DEF SessionsInv, PreviousInv, TokenInv, NoFork
<1>5. RevokedInv'
  BY DEF RevokedInv, Fresh, Holds, TimeInv, Decided, CacheInv
<1>6. ReplacedInv'
  BY DEF ReplacedInv, Slack, Longest, TimeInv, Decided, TokenInv, NoFork, SessionsInv, PreviousInv, CacheInv, DecideInv
<1>7. CacheInv'
  BY DEF CacheInv
<1>8. DecideInv'
  BY DEF DecideInv
<1>. QED
  BY <1>1, <1>2, <1>3, <1>4, <1>5, <1>6, <1>7, <1>8 DEF IInv

\* RevokeById keeps the invariant.
LEMMA RevokeByIdInv ==
  ASSUME IInv, NEW r \in Requests, RevokeById(r)
  PROVE  IInv'
<1>. USE SessionsAssumption DEF RevokeById, Go, DeleteRow, IInv, TypeOK, Session, Token, Closed, request, history
<1>1. TypeOK'
  BY DEF RequestStep
<1>2. TimeInv'
  BY DEF TimeInv, Decided
<1>3. TokenInv'
  BY DEF TokenInv, NoFork
<1>4. SessionsInv'
  BY DEF SessionsInv, PreviousInv, TokenInv, NoFork
<1>5. RevokedInv'
  BY DEF RevokedInv, Fresh, Holds, TimeInv, Decided, CacheInv
<1>6. ReplacedInv'
  BY DEF ReplacedInv, Slack, Longest, TimeInv, Decided, TokenInv, NoFork, SessionsInv, PreviousInv, CacheInv, DecideInv
<1>7. CacheInv'
  BY DEF CacheInv
<1>8. DecideInv'
  BY DEF DecideInv
<1>. QED
  BY <1>1, <1>2, <1>3, <1>4, <1>5, <1>6, <1>7, <1>8 DEF IInv

\* Forget keeps the invariant.
LEMMA ForgetInv ==
  ASSUME IInv, NEW r \in Requests, Forget(r)
  PROVE  IInv'
<1>. USE SessionsAssumption DEF Forget, Go, Gone, Fault, IInv, TypeOK, Session, Token, Closed, request, history
<1>1. TypeOK'
  BY DEF RequestStep
<1>2. TimeInv'
  BY DEF TimeInv, Decided
<1>3. TokenInv'
  BY DEF TokenInv, NoFork
<1>4. SessionsInv'
  BY DEF SessionsInv, PreviousInv, TokenInv, NoFork
<1>5. RevokedInv'
  BY DEF RevokedInv, Fresh, Holds, TimeInv, Decided, CacheInv
<1>6. ReplacedInv'
  BY DEF ReplacedInv, Slack, Longest, TimeInv, Decided, TokenInv, NoFork, SessionsInv, PreviousInv, CacheInv, DecideInv
<1>7. CacheInv'
  BY DEF CacheInv
<1>8. DecideInv'
  BY DEF DecideInv
<1>. QED
  BY <1>1, <1>2, <1>3, <1>4, <1>5, <1>6, <1>7, <1>8 DEF IInv

\* RevokeAll keeps the invariant.
LEMMA RevokeAllInv ==
  ASSUME IInv, NEW r \in Requests, RevokeAll(r)
  PROVE  IInv'
<1>. USE SessionsAssumption DEF RevokeAll, Go, DeleteRow, IInv, TypeOK, Session, Token, Closed, request, history
<1>1. TypeOK'
  BY DEF RequestStep
<1>2. TimeInv'
  BY DEF TimeInv, Decided
<1>3. TokenInv'
  BY DEF TokenInv, NoFork
<1>4. SessionsInv'
  BY DEF SessionsInv, PreviousInv, TokenInv, NoFork
<1>5. RevokedInv'
  BY DEF RevokedInv, Fresh, Holds, TimeInv, Decided, CacheInv
<1>6. ReplacedInv'
  BY DEF ReplacedInv, Slack, Longest, TimeInv, Decided, TokenInv, NoFork, SessionsInv, PreviousInv, CacheInv, DecideInv
<1>7. CacheInv'
  BY DEF CacheInv
<1>8. DecideInv'
  BY DEF DecideInv
<1>. QED
  BY <1>1, <1>2, <1>3, <1>4, <1>5, <1>6, <1>7, <1>8 DEF IInv

\* Die keeps the invariant.
LEMMA DieInv ==
  ASSUME IInv, NEW r \in Requests, Die(r)
  PROVE  IInv'
<1>. USE SessionsAssumption DEF Die, Go, Fault, IInv, TypeOK, Session, Token, Closed, request, history
<1>1. TypeOK'
  BY DEF RequestStep
<1>2. TimeInv'
  BY DEF TimeInv, Decided
<1>3. TokenInv'
  BY DEF TokenInv, NoFork
<1>4. SessionsInv'
  BY DEF SessionsInv, PreviousInv, TokenInv, NoFork
<1>5. RevokedInv'
  BY DEF RevokedInv, Fresh, Holds, TimeInv, Decided, CacheInv
<1>6. ReplacedInv'
  BY DEF ReplacedInv, Slack, Longest, TimeInv, Decided, TokenInv, NoFork, SessionsInv, PreviousInv, CacheInv, DecideInv
<1>7. CacheInv'
  BY DEF CacheInv
<1>8. DecideInv'
  BY DEF DecideInv
<1>. QED
  BY <1>1, <1>2, <1>3, <1>4, <1>5, <1>6, <1>7, <1>8 DEF IInv

\* Passing of time and expiry of the row keep the invariant.
LEMMA TickInv ==
  ASSUME IInv, Tick \/ Expire
  PROVE  IInv'
<1>. USE SessionsAssumption DEF Tick, Expire, Open, vars, history, IInv, TypeOK, Session, Token, Closed, request, history
<1>1. TypeOK'
  <2>1. live' \in BOOLEAN
    BY Zenon
  <2>. QED
    BY <2>1
<1>2. TimeInv'
  BY DEF TimeInv, Decided
<1>3. TokenInv'
  BY DEF TokenInv, NoFork
<1>4. SessionsInv'
  BY DEF SessionsInv, PreviousInv
<1>5. RevokedInv'
  BY DEF RevokedInv, Fresh, Holds
<1>6. ReplacedInv'
  BY DEF ReplacedInv
<1>7. CacheInv' /\ DecideInv'
  BY DEF CacheInv, DecideInv
<1>. QED
  BY <1>1, <1>2, <1>3, <1>4, <1>5, <1>6, <1>7

\* The invariant holds of the login's fresh session.
LEMMA InitInv == Init => IInv
<1>. SUFFICES ASSUME Init PROVE IInv
  OBVIOUS
<1>. USE SessionsAssumption DEF Init, Gone
<1>1. TypeOK
  BY DEF TypeOK, Session, Token, RequestStep
<1>2. TimeInv
  BY DEF TimeInv, Decided, Closed
<1>3. TokenInv
  BY DEF TokenInv, NoFork, Token
<1>4. SessionsInv
  BY DEF SessionsInv, PreviousInv
<1>5. RevokedInv /\ ReplacedInv /\ CacheInv /\ DecideInv
  BY DEF RevokedInv, ReplacedInv, CacheInv, DecideInv, Token
<1>. QED
  BY <1>1, <1>2, <1>3, <1>4, <1>5 DEF IInv

\* A step that changes nothing keeps the invariant.
LEMMA StutterInv == IInv /\ UNCHANGED vars => IInv'
  BY DEF vars, request, history, IInv, TypeOK, TimeInv, Decided, TokenInv, NoFork, SessionsInv,
         PreviousInv, RevokedInv, Fresh, Holds, ReplacedInv, CacheInv, DecideInv

\* Every step keeps the invariant.
LEMMA StepInv == IInv /\ [Next]_vars => IInv'
<1>. SUFFICES ASSUME IInv, [Next]_vars PROVE IInv'
  OBVIOUS
<1>1. ASSUME NEW r \in Requests, Step(r) PROVE IInv'
  BY <1>1, BeginInv, GetInv, ReadInv, FillInv, DecideInvKept, CasInv, RereadInv, RecacheInv,
     UncacheInv, ServeInv, RevokeFamilyInv, RevokeByIdInv, ForgetInv, RevokeAllInv, DieInv
     DEF Step
<1>2. CASE Tick \/ Expire
  BY <1>2, TickInv
<1>3. CASE UNCHANGED vars
  BY <1>3, StutterInv
<1>. QED
  BY <1>1, <1>2, <1>3 DEF Next

\* The invariant holds in every reachable state.
THEOREM Invariance == Spec => []IInv
  BY StepInv, InitInv, PTL DEF Spec

(***************************************************************************)
(* What follows.                                                           *)
(***************************************************************************)

\* Every variable keeps its type.
THEOREM TypeCorrect == Spec => []TypeOK
<1>1. IInv => TypeOK
  BY DEF IInv
<1>. QED
  BY <1>1, Invariance, PTL

\* The compare-and-swap lets one of the requests that present a refresh token
\* rotate it, whatever the cache told them.
THEOREM RotatedOnce == Spec => []NoFork
<1>1. IInv => NoFork
  BY DEF IInv, TokenInv
<1>. QED
  BY <1>1, Invariance, PTL

\* A revoked session is served for at most the lifetime of a cached row and the
\* time of two requests.
THEOREM RevokedBound == Spec => []RevokedServedBriefly
<1>1. IInv => RevokedServedBriefly
  BY DEF IInv, RevokedInv, RevokedServedBriefly
<1>. QED
  BY <1>1, Invariance, PTL

\* A replaced refresh token is served for at most the grace window, or the lifetime
\* of a cached row that still names it, and the time of the requests.
THEOREM ReplacedBound == Spec => []ReplacedServedBriefly
<1>1. IInv => ReplacedServedBriefly
  <2>. SUFFICES ASSUME IInv, NEW r \in Requests, NEW x \in Requests,
                       pc[r] = "served", x # r, parent[x] = token[r]
                PROVE  servedAt[r] <= supersededAt[token[r]]
                         + Longest(Grace, SessionTtl + Patience) + Patience
    BY DEF ReplacedServedBriefly
  <2>1. token[r] # None
    BY SessionsAssumption DEF IInv, TokenInv, TypeOK, Token
  <2>. QED
    BY <2>1 DEF IInv, ReplacedInv, Slack
<1>. QED
  BY <1>1, Invariance, PTL

\* What is stale in the cache, be the session revoked or its token replaced, is served
\* for a bounded time.
THEOREM StaleBound == Spec => []StaleServedBriefly
<1>1. RevokedServedBriefly /\ ReplacedServedBriefly => StaleServedBriefly
  BY DEF StaleServedBriefly
<1>. QED
  BY <1>1, RevokedBound, ReplacedBound, PTL

(***************************************************************************)
(* One request at a time: a token that the row names as current is never   *)
(* taken for a replay.                                                     *)
(***************************************************************************)

\* A lookup returned nothing, or it names the refresh token that the row does, once
\* some client has that one.
Current(s) == row # None /\ row.cur \in known => s = None \/ s.cur = row.cur

\* A request that replaced the row's token, and has not answered.
Rotated(r) == pc[r] \in {"reread", "recache", "serve"} /\ parent[r] # None

Dead == {r \in Requests : pc[r] = "dead"}

\* The only failures are requests that died. The row's token is the cached one, unless
\* the request that minted it has not answered, in which case nobody knows it.
SerialInv ==
  /\ \A r, x \in Open : r = x
  /\ faults = Cardinality(Dead)
  /\ Current(cache.value)
  /\ \A r \in Requests :
       /\ pc[r] \in {"fill", "decide"} => Current(got[r])
       /\ Rotated(r) => row = None \/ row.cur = r
       /\ Rotated(r) /\ pc[r] = "serve" /\ row # None => cache.value = None \/ cache.value.cur = r
  /\ CurrentTokenIsNoReplay

\* A set of at most one element has no two.
LEMMA AtMostOne ==
  ASSUME NEW S, IsFiniteSet(S), Cardinality(S) <= 1, NEW x \in S, NEW y \in S
  PROVE  x = y
<1>1. IsFiniteSet(S \ {x}) /\ Cardinality(S \ {x}) = Cardinality(S) - 1
  BY FS_RemoveElement
<1>2. Cardinality(S) \in Nat /\ Cardinality(S \ {x}) \in Nat
  BY <1>1, FS_CardinalityType
<1>3. S \ {x} = {}
  BY <1>1, <1>2, FS_EmptySet
<1>. QED
  BY <1>3

\* Only a death is a failure: a step in which no request dies has none.
LEMMA NoRedisFault ==
  ASSUME IInv, faults = Cardinality(Dead), (faults = Cardinality(Dead))',
         NEW r \in Requests, NEW s, pc' = [pc EXCEPT ![r] = s], s # "dead", pc[r] # "dead"
  PROVE  faults' = faults
<1>1. Dead' = Dead
  BY DEF Dead, IInv, TypeOK
<1>. QED
  BY <1>1

\* A new request finds the row and the cache as they are.
LEMMA SerialBegin ==
  ASSUME IInv, SerialInv, (faults = Cardinality(Dead))', (\A r, x \in Open : r = x)',
         NEW r \in Requests, Begin(r)
  PROVE  SerialInv'
<1>. USE SessionsAssumption, NoneIsNoSession
     DEF Begin, Go, IInv, TypeOK, Session, Token, request, history
<1>1. Current(cache.value)'
  BY DEF SerialInv, Current, Rotated, TokenInv, Open, Closed
<1>2. ASSUME NEW x \in Requests
      PROVE  /\ (pc[x] \in {"fill", "decide"} => Current(got[x]))'
             /\ (Rotated(x) => row = None \/ row.cur = x)'
             /\ (Rotated(x) /\ pc[x] = "serve" /\ row # None
                   => cache.value = None \/ cache.value.cur = x)'
  BY DEF SerialInv, Current, Rotated, TokenInv, Open, Closed
<1>3. CurrentTokenIsNoReplay'
  BY DEF SerialInv, Current, CurrentTokenIsNoReplay, TokenInv, DecideInv, Open, Closed
<1>. QED
  BY <1>1, <1>2, <1>3 DEF SerialInv

\* A cached row names the row's token.
LEMMA SerialGet ==
  ASSUME IInv, SerialInv, (faults = Cardinality(Dead))', (\A r, x \in Open : r = x)',
         NEW r \in Requests, Get(r)
  PROVE  SerialInv'
<1>. USE SessionsAssumption, NoneIsNoSession
     DEF Get, Go, IInv, TypeOK, Session, Token, request, history
<1>0. faults' = faults
  BY NoRedisFault DEF AfterFind, SerialInv
<1>1. Current(cache.value)'
  BY <1>0 DEF AfterFind, Fault, SerialInv, Current, Rotated, TokenInv, Open, Closed
<1>2. ASSUME NEW x \in Requests
      PROVE  /\ (pc[x] \in {"fill", "decide"} => Current(got[x]))'
             /\ (Rotated(x) => row = None \/ row.cur = x)'
             /\ (Rotated(x) /\ pc[x] = "serve" /\ row # None
                   => cache.value = None \/ cache.value.cur = x)'
  BY <1>0 DEF AfterFind, Fault, SerialInv, Current, Rotated, TokenInv, Open, Closed
<1>3. CurrentTokenIsNoReplay'
  BY <1>0 DEF AfterFind, Fault, SerialInv, Current, CurrentTokenIsNoReplay, TokenInv, DecideInv, Open, Closed
<1>. QED
  BY <1>1, <1>2, <1>3 DEF SerialInv

\* A row that is read names the row's token.
LEMMA SerialRead ==
  ASSUME IInv, SerialInv, (faults = Cardinality(Dead))', (\A r, x \in Open : r = x)',
         NEW r \in Requests, Read(r)
  PROVE  SerialInv'
<1>. USE SessionsAssumption, NoneIsNoSession
     DEF Read, Go, IInv, TypeOK, Session, Token, request, history
<1>1. Current(cache.value)'
  BY DEF SerialInv, Current, Rotated, TokenInv, Open, Closed
<1>2. ASSUME NEW x \in Requests
      PROVE  /\ (pc[x] \in {"fill", "decide"} => Current(got[x]))'
             /\ (Rotated(x) => row = None \/ row.cur = x)'
             /\ (Rotated(x) /\ pc[x] = "serve" /\ row # None
                   => cache.value = None \/ cache.value.cur = x)'
  BY DEF SerialInv, Current, Rotated, TokenInv, Open, Closed
<1>3. CurrentTokenIsNoReplay'
  BY DEF SerialInv, Current, CurrentTokenIsNoReplay, TokenInv, DecideInv, Open, Closed
<1>. QED
  BY <1>1, <1>2, <1>3 DEF SerialInv

\* What is cached was just read.
LEMMA SerialFill ==
  ASSUME IInv, SerialInv, (faults = Cardinality(Dead))', (\A r, x \in Open : r = x)',
         NEW r \in Requests, Fill(r)
  PROVE  SerialInv'
<1>. USE SessionsAssumption, NoneIsNoSession
     DEF Fill, Go, IInv, TypeOK, Session, Token, request, history
<1>0. faults' = faults
  BY NoRedisFault DEF AfterFind, SerialInv
<1>1. Current(cache.value)'
  BY <1>0 DEF AfterFind, Fault, SerialInv, Current, Rotated, TokenInv, Open, Closed
<1>2. ASSUME NEW x \in Requests
      PROVE  /\ (pc[x] \in {"fill", "decide"} => Current(got[x]))'
             /\ (Rotated(x) => row = None \/ row.cur = x)'
             /\ (Rotated(x) /\ pc[x] = "serve" /\ row # None
                   => cache.value = None \/ cache.value.cur = x)'
  BY <1>0 DEF AfterFind, Fault, SerialInv, Current, Rotated, TokenInv, Open, Closed
<1>3. CurrentTokenIsNoReplay'
  BY <1>0 DEF AfterFind, Fault, SerialInv, Current, CurrentTokenIsNoReplay, TokenInv, DecideInv, Open, Closed
<1>. QED
  BY <1>1, <1>2, <1>3 DEF SerialInv

\* A token that the found row does not name is not the row's.
LEMMA SerialDecide ==
  ASSUME IInv, SerialInv, (faults = Cardinality(Dead))', (\A r, x \in Open : r = x)',
         NEW r \in Requests, Decide(r)
  PROVE  SerialInv'
<1>. USE SessionsAssumption, NoneIsNoSession
     DEF Decide, Go, IInv, TypeOK, Session, Token, request, history
<1>1. Current(cache.value)'
  BY DEF Matches, SerialInv, Current, Rotated, TokenInv, Open, Closed
<1>2. ASSUME NEW x \in Requests
      PROVE  /\ (pc[x] \in {"fill", "decide"} => Current(got[x]))'
             /\ (Rotated(x) => row = None \/ row.cur = x)'
             /\ (Rotated(x) /\ pc[x] = "serve" /\ row # None
                   => cache.value = None \/ cache.value.cur = x)'
  BY DEF Matches, SerialInv, Current, Rotated, TokenInv, Open, Closed
<1>3. CurrentTokenIsNoReplay'
  BY DEF Matches, SerialInv, Current, CurrentTokenIsNoReplay, TokenInv, DecideInv, Open, Closed
<1>. QED
  BY <1>1, <1>2, <1>3 DEF SerialInv

\* A rotation's token is nobody's yet.
LEMMA SerialCas ==
  ASSUME IInv, SerialInv, (faults = Cardinality(Dead))', (\A r, x \in Open : r = x)',
         NEW r \in Requests, Cas(r)
  PROVE  SerialInv'
<1>. USE SessionsAssumption, NoneIsNoSession
     DEF Cas, Go, IInv, TypeOK, Session, Token, request, history
<1>1. Current(cache.value)'
  BY DEF Rotate, SerialInv, Current, Rotated, TokenInv, Open, Closed
<1>2. ASSUME NEW x \in Requests
      PROVE  /\ (pc[x] \in {"fill", "decide"} => Current(got[x]))'
             /\ (Rotated(x) => row = None \/ row.cur = x)'
             /\ (Rotated(x) /\ pc[x] = "serve" /\ row # None
                   => cache.value = None \/ cache.value.cur = x)'
  BY DEF Rotate, SerialInv, Current, Rotated, TokenInv, Open, Closed
<1>3. CurrentTokenIsNoReplay'
  BY DEF Rotate, SerialInv, Current, CurrentTokenIsNoReplay, TokenInv, DecideInv, Open, Closed
<1>. QED
  BY <1>1, <1>2, <1>3 DEF SerialInv

\* A rotation is cached, or nothing is.
LEMMA SerialReread ==
  ASSUME IInv, SerialInv, (faults = Cardinality(Dead))', (\A r, x \in Open : r = x)',
         NEW r \in Requests, Reread(r)
  PROVE  SerialInv'
<1>. USE SessionsAssumption, NoneIsNoSession
     DEF Reread, Go, IInv, TypeOK, Session, Token, request, history
<1>0. faults' = faults
  BY NoRedisFault DEF SerialInv
<1>1. Current(cache.value)'
  BY <1>0 DEF Gone, Fault, SerialInv, Current, Rotated, TokenInv, Open, Closed
<1>2. ASSUME NEW x \in Requests
      PROVE  /\ (pc[x] \in {"fill", "decide"} => Current(got[x]))'
             /\ (Rotated(x) => row = None \/ row.cur = x)'
             /\ (Rotated(x) /\ pc[x] = "serve" /\ row # None
                   => cache.value = None \/ cache.value.cur = x)'
  BY <1>0 DEF Gone, Fault, SerialInv, Current, Rotated, TokenInv, Open, Closed
<1>3. CurrentTokenIsNoReplay'
  BY <1>0 DEF Gone, Fault, SerialInv, Current, CurrentTokenIsNoReplay, TokenInv, DecideInv, Open, Closed
<1>. QED
  BY <1>1, <1>2, <1>3 DEF SerialInv

\* A rotation is cached.
LEMMA SerialRecache ==
  ASSUME IInv, SerialInv, (faults = Cardinality(Dead))', (\A r, x \in Open : r = x)',
         NEW r \in Requests, Recache(r)
  PROVE  SerialInv'
<1>. USE SessionsAssumption, NoneIsNoSession
     DEF Recache, Go, IInv, TypeOK, Session, Token, request, history
<1>0. faults' = faults
  BY NoRedisFault DEF SerialInv
<1>1. Current(cache.value)'
  BY <1>0 DEF Fault, SerialInv, Current, Rotated, TokenInv, Open, Closed
<1>2. ASSUME NEW x \in Requests
      PROVE  /\ (pc[x] \in {"fill", "decide"} => Current(got[x]))'
             /\ (Rotated(x) => row = None \/ row.cur = x)'
             /\ (Rotated(x) /\ pc[x] = "serve" /\ row # None
                   => cache.value = None \/ cache.value.cur = x)'
  BY <1>0 DEF Fault, SerialInv, Current, Rotated, TokenInv, Open, Closed
<1>3. CurrentTokenIsNoReplay'
  BY <1>0 DEF Fault, SerialInv, Current, CurrentTokenIsNoReplay, TokenInv, DecideInv, Open, Closed
<1>. QED
  BY <1>1, <1>2, <1>3 DEF SerialInv

\* Nothing is cached after a lost race.
LEMMA SerialUncache ==
  ASSUME IInv, SerialInv, (faults = Cardinality(Dead))', (\A r, x \in Open : r = x)',
         NEW r \in Requests, Uncache(r)
  PROVE  SerialInv'
<1>. USE SessionsAssumption, NoneIsNoSession
     DEF Uncache, Go, IInv, TypeOK, Session, Token, request, history
<1>0. faults' = faults
  BY NoRedisFault DEF SerialInv
<1>1. Current(cache.value)'
  BY <1>0 DEF Gone, Fault, SerialInv, Current, Rotated, TokenInv, Open, Closed
<1>2. ASSUME NEW x \in Requests
      PROVE  /\ (pc[x] \in {"fill", "decide"} => Current(got[x]))'
             /\ (Rotated(x) => row = None \/ row.cur = x)'
             /\ (Rotated(x) /\ pc[x] = "serve" /\ row # None
                   => cache.value = None \/ cache.value.cur = x)'
  BY <1>0 DEF Gone, Fault, SerialInv, Current, Rotated, TokenInv, Open, Closed
<1>3. CurrentTokenIsNoReplay'
  BY <1>0 DEF Gone, Fault, SerialInv, Current, CurrentTokenIsNoReplay, TokenInv, DecideInv, Open, Closed
<1>. QED
  BY <1>1, <1>2, <1>3 DEF SerialInv

\* The rotation's token becomes known once it is cached.
LEMMA SerialServe ==
  ASSUME IInv, SerialInv, (faults = Cardinality(Dead))', (\A r, x \in Open : r = x)',
         NEW r \in Requests, Serve(r)
  PROVE  SerialInv'
<1>. USE SessionsAssumption, NoneIsNoSession
     DEF Serve, Go, IInv, TypeOK, Session, Token, request, history
<1>1. Current(cache.value)'
  BY DEF SerialInv, Current, Rotated, TokenInv, Open, Closed
<1>2. ASSUME NEW x \in Requests
      PROVE  /\ (pc[x] \in {"fill", "decide"} => Current(got[x]))'
             /\ (Rotated(x) => row = None \/ row.cur = x)'
             /\ (Rotated(x) /\ pc[x] = "serve" /\ row # None
                   => cache.value = None \/ cache.value.cur = x)'
  BY DEF SerialInv, Current, Rotated, TokenInv, Open, Closed
<1>3. CurrentTokenIsNoReplay'
  BY DEF SerialInv, Current, CurrentTokenIsNoReplay, TokenInv, DecideInv, Open, Closed
<1>. QED
  BY <1>1, <1>2, <1>3 DEF SerialInv

\* A deleted row has no token.
LEMMA SerialRevokeFamily ==
  ASSUME IInv, SerialInv, (faults = Cardinality(Dead))', (\A r, x \in Open : r = x)',
         NEW r \in Requests, RevokeFamily(r)
  PROVE  SerialInv'
<1>. USE SessionsAssumption, NoneIsNoSession
     DEF RevokeFamily, Go, IInv, TypeOK, Session, Token, request, history
<1>1. Current(cache.value)'
  BY DEF DeleteRow, SerialInv, Current, Rotated, TokenInv, Open, Closed
<1>2. ASSUME NEW x \in Requests
      PROVE  /\ (pc[x] \in {"fill", "decide"} => Current(got[x]))'
             /\ (Rotated(x) => row = None \/ row.cur = x)'
             /\ (Rotated(x) /\ pc[x] = "serve" /\ row # None
                   => cache.value = None \/ cache.value.cur = x)'
  BY DEF DeleteRow, SerialInv, Current, Rotated, TokenInv, Open, Closed
<1>3. CurrentTokenIsNoReplay'
  BY DEF DeleteRow, SerialInv, Current, CurrentTokenIsNoReplay, TokenInv, DecideInv, Open, Closed
<1>. QED
  BY <1>1, <1>2, <1>3 DEF SerialInv

\* A deleted row has no token.
LEMMA SerialRevokeById ==
  ASSUME IInv, SerialInv, (faults = Cardinality(Dead))', (\A r, x \in Open : r = x)',
         NEW r \in Requests, RevokeById(r)
  PROVE  SerialInv'
<1>. USE SessionsAssumption, NoneIsNoSession
     DEF RevokeById, Go, IInv, TypeOK, Session, Token, request, history
<1>1. Current(cache.value)'
  BY DEF DeleteRow, SerialInv, Current, Rotated, TokenInv, Open, Closed
<1>2. ASSUME NEW x \in Requests
      PROVE  /\ (pc[x] \in {"fill", "decide"} => Current(got[x]))'
             /\ (Rotated(x) => row = None \/ row.cur = x)'
             /\ (Rotated(x) /\ pc[x] = "serve" /\ row # None
                   => cache.value = None \/ cache.value.cur = x)'
  BY DEF DeleteRow, SerialInv, Current, Rotated, TokenInv, Open, Closed
<1>3. CurrentTokenIsNoReplay'
  BY DEF DeleteRow, SerialInv, Current, CurrentTokenIsNoReplay, TokenInv, DecideInv, Open, Closed
<1>. QED
  BY <1>1, <1>2, <1>3 DEF SerialInv

\* Nothing is cached after a logout.
LEMMA SerialForget ==
  ASSUME IInv, SerialInv, (faults = Cardinality(Dead))', (\A r, x \in Open : r = x)',
         NEW r \in Requests, Forget(r)
  PROVE  SerialInv'
<1>. USE SessionsAssumption, NoneIsNoSession
     DEF Forget, Go, IInv, TypeOK, Session, Token, request, history
<1>0. faults' = faults
  BY NoRedisFault DEF SerialInv
<1>1. Current(cache.value)'
  BY <1>0 DEF Gone, Fault, SerialInv, Current, Rotated, TokenInv, Open, Closed
<1>2. ASSUME NEW x \in Requests
      PROVE  /\ (pc[x] \in {"fill", "decide"} => Current(got[x]))'
             /\ (Rotated(x) => row = None \/ row.cur = x)'
             /\ (Rotated(x) /\ pc[x] = "serve" /\ row # None
                   => cache.value = None \/ cache.value.cur = x)'
  BY <1>0 DEF Gone, Fault, SerialInv, Current, Rotated, TokenInv, Open, Closed
<1>3. CurrentTokenIsNoReplay'
  BY <1>0 DEF Gone, Fault, SerialInv, Current, CurrentTokenIsNoReplay, TokenInv, DecideInv, Open, Closed
<1>. QED
  BY <1>1, <1>2, <1>3 DEF SerialInv

\* A deleted row has no token.
LEMMA SerialRevokeAll ==
  ASSUME IInv, SerialInv, (faults = Cardinality(Dead))', (\A r, x \in Open : r = x)',
         NEW r \in Requests, RevokeAll(r)
  PROVE  SerialInv'
<1>. USE SessionsAssumption, NoneIsNoSession
     DEF RevokeAll, Go, IInv, TypeOK, Session, Token, request, history
<1>1. Current(cache.value)'
  BY DEF DeleteRow, SerialInv, Current, Rotated, TokenInv, Open, Closed
<1>2. ASSUME NEW x \in Requests
      PROVE  /\ (pc[x] \in {"fill", "decide"} => Current(got[x]))'
             /\ (Rotated(x) => row = None \/ row.cur = x)'
             /\ (Rotated(x) /\ pc[x] = "serve" /\ row # None
                   => cache.value = None \/ cache.value.cur = x)'
  BY DEF DeleteRow, SerialInv, Current, Rotated, TokenInv, Open, Closed
<1>3. CurrentTokenIsNoReplay'
  BY DEF DeleteRow, SerialInv, Current, CurrentTokenIsNoReplay, TokenInv, DecideInv, Open, Closed
<1>. QED
  BY <1>1, <1>2, <1>3 DEF SerialInv

\* A request that dies leaves everything else as it is.
LEMMA SerialDie ==
  ASSUME IInv, SerialInv, (faults = Cardinality(Dead))', (\A r, x \in Open : r = x)',
         NEW r \in Requests, Die(r)
  PROVE  SerialInv'
<1>. USE DEF Die, Go, IInv, TypeOK, request, history
<1>1. Current(cache.value)'
  BY DEF SerialInv, Current
<1>2. ASSUME NEW x \in Requests
      PROVE  /\ (pc[x] \in {"fill", "decide"} => Current(got[x]))'
             /\ (Rotated(x) => row = None \/ row.cur = x)'
             /\ (Rotated(x) /\ pc[x] = "serve" /\ row # None
                   => cache.value = None \/ cache.value.cur = x)'
  BY DEF SerialInv, Current, Rotated
<1>3. CurrentTokenIsNoReplay'
  BY DEF SerialInv, CurrentTokenIsNoReplay
<1>. QED
  BY <1>1, <1>2, <1>3 DEF SerialInv

\* Time and the expiry of the row change none of it.
LEMMA SerialTick ==
  ASSUME SerialInv, Tick \/ Expire \/ UNCHANGED vars
  PROVE  SerialInv'
<1>1. UNCHANGED <<row, cache, known, pc, request, parent, faults>>
  BY DEF Tick, Expire, vars
<1>2. Current(cache.value)' /\ (\A r, x \in Open : r = x)'
  BY <1>1 DEF SerialInv, Current, Open
<1>3. (faults = Cardinality(Dead))'
  BY <1>1 DEF SerialInv, Dead
<1>4. ASSUME NEW x \in Requests
      PROVE  /\ (pc[x] \in {"fill", "decide"} => Current(got[x]))'
             /\ (Rotated(x) => row = None \/ row.cur = x)'
             /\ (Rotated(x) /\ pc[x] = "serve" /\ row # None
                   => cache.value = None \/ cache.value.cur = x)'
  BY <1>1 DEF SerialInv, Current, Rotated, request
<1>5. CurrentTokenIsNoReplay'
  BY <1>1 DEF SerialInv, CurrentTokenIsNoReplay, request
<1>. QED
  BY <1>2, <1>3, <1>4, <1>5 DEF SerialInv

\* At the start nothing is open and nothing has failed.
LEMMA SerialInit == Init => SerialInv
<1>. SUFFICES ASSUME Init PROVE SerialInv
  OBVIOUS
<1>. USE SessionsAssumption, NoneIsNoSession DEF Init, Gone, Closed, Token
<1>1. Dead = {} /\ Open = {}
  BY DEF Dead, Open
<1>2. faults = Cardinality(Dead)
  BY <1>1, FS_EmptySet
<1>. QED
  BY <1>1, <1>2 DEF SerialInv, Current, Rotated, CurrentTokenIsNoReplay

\* One request at a time, no refresh is about to revoke, as a replay, the token that the
\* session's row names as current: what the cache says of the row agrees with it, but
\* for a token whose request never answered, and nobody holds that one.
THEOREM SerialNoReplay == MCSpec => []SerialTokenIsNoReplay
<1>. DEFINE Serial == scenario = "serial" => SerialInv
<1>1. MCInit => IInv /\ Serial
  BY InitInv, SerialInit DEF MCInit
<1>2. IInv /\ Serial /\ [MCNext]_<<vars, scenario>> => IInv' /\ Serial'
  <2>. SUFFICES ASSUME IInv, Serial, [MCNext]_<<vars, scenario>> PROVE IInv' /\ Serial'
    OBVIOUS
  <2>1. IInv'
    BY StepInv DEF MCNext
  <2>2. Serial'
    <3>. SUFFICES ASSUME scenario' = "serial" PROVE SerialInv'
      OBVIOUS
    <3>1. SerialInv
      BY DEF MCNext
    <3>2. CASE Tick \/ Expire \/ UNCHANGED vars
      BY <3>1, <3>2, SerialTick
    <3>3. ASSUME Within', NEW r \in Requests, Step(r) PROVE SerialInv'
      <4>1. (Cardinality(Open) <= 1)' /\ (faults = Cardinality(Dead))'
        BY <3>3 DEF Within, Dead
      <4>2. (\A x, y \in Open : x = y)'
        <5>1. Open' \subseteq Requests
          BY DEF Open
        <5>2. IsFiniteSet(Open')
          BY <5>1, FinitelyMany, FS_Subset
        <5>. QED
          BY <4>1, <5>2, AtMostOne
      <4>. QED
        BY <3>1, <3>3, <4>1, <4>2, SerialBegin, SerialGet, SerialRead, SerialFill, SerialDecide,
           SerialCas, SerialReread, SerialRecache, SerialUncache, SerialServe,
           SerialRevokeFamily, SerialRevokeById, SerialForget, SerialRevokeAll, SerialDie
           DEF Step
    <3>. QED
      BY <3>2, <3>3 DEF MCNext, Next
  <2>. QED
    BY <2>1, <2>2
<1>3. Serial => SerialTokenIsNoReplay
  BY DEF SerialInv, SerialTokenIsNoReplay
<1>. QED
  BY <1>1, <1>2, <1>3, PTL DEF MCSpec
=============================================================================
