--------------------------- MODULE TileBatchProofs ---------------------------
(***************************************************************************)
(* Proofs about the two decoders of tile batches, for every number of      *)
(* tiles, workers and claims: RegionBatch and JpegBatchSession.            *)
(*                                                                         *)
(* RegionBatch.  The admission total is exact (AdmissionInv).  It cannot   *)
(* be followed without knowing which workers hold a claim: one that asks   *)
(* holds none, one that prepares holds what it asked for, and one that     *)
(* reconciles uses no more than it holds.  From it, what the workers hold  *)
(* fits the host cap and the caller is told what they did (BatchInv): the  *)
(* plan has one worker to a chunk and the chunks cover the tiles, each     *)
(* worker fills the slots of its chunk in order, and the calling thread    *)
(* returns only when every worker it started has ended.                    *)
(*                                                                         *)
(* JpegBatchSession (JpegInv).  The plan promised that what the slots      *)
(* retain and what their chunks may claim fit the cap together; a step of  *)
(* a chunk turns promise into retained bytes and never adds to either.     *)
(* A chunk that ended well has decoded its tiles and the chunks cover the  *)
(* call, so when nothing failed there is a result for every tile.          *)
(***************************************************************************)
EXTENDS RegionBatch, JpegBatchSession, ByteTotalsTheorems


\* The plan before planning.
NoPlan == [chunk_size |-> 0, worker_count |-> 0]

Types ==
    /\ shared \in 0..(Claim - 1)
    /\ live \in 0..Cap
    /\ claim \in [Workers -> 0..Cap]
    /\ want \in [Workers -> 0..Cap]
    /\ held \in [Workers -> 0..Cap]
    /\ DOMAIN pc = Workers
    /\ DOMAIN then = Workers
    /\ DOMAIN purpose = Workers
    /\ turn \in Nat

Booked == live = shared + Total(claim, Cap)

\* Before planning nothing is admitted and nobody runs; from then on, and
\* certainly while a worker runs, the total is exact.
Phases ==
    /\ main \in {"start", "plan"} =>
          plan = NoPlan /\ \A w \in Workers : pc[w] = "off"
    /\ plan # NoPlan \/ main \in {"spawn", "join"} => Booked
    /\ \A w \in Workers : pc[w] # "off" => Booked

Asking(w) ==
    \/ pc[w] \in {"claim", "waiting"}
    \/ pc[w] = "notify" /\ then[w] = "claim"

\* What the location of a worker says of its claim.
ClaimOf(w) ==
    /\ pc[w] = "off" => claim[w] = 0
    /\ pc[w] = "notify" => then[w] \in {"claim", "record", "ended", "unwind", "execute"}
    /\ Asking(w) => claim[w] = 0 /\ purpose[w] \in {"shared", "private", "generic"}
    /\ pc[w] \in {"build", "prepare"} => claim[w] = want[w]
    /\ pc[w] = "reconcile" => held[w] <= claim[w]

Claims == \A w \in Workers : ClaimOf(w)

\* The inductive invariant.
AdmissionInv == Types /\ Phases /\ Claims

-----------------------------------------------------------------------------
\* The cap is a number that holds at least one claim, and workers are finitely
\* many.
LEMMA CapFacts ==
    Cap \in Nat /\ Claim \in 1..Cap /\ IsFiniteSet(Workers)
<1>1. MaxGeneric \in Nat /\ Claim \in Nat /\ MaxGeneric >= 1 /\ Claim >= 1
  BY BatchAssumption
<1>2. MaxGeneric * Claim \in Nat /\ Claim <= MaxGeneric * Claim
  BY <1>1, SMTT(30)
<1>3. 2 * MaxGeneric \in Int
  BY <1>1
<1>4. IsFiniteSet(1..(2 * MaxGeneric))
  BY <1>3, FS_Interval, SMT
<1> QED
  BY <1>1, <1>2, <1>4 DEF Cap, Workers

\* The claims of two states that differ in one worker's.
LEMMA ClaimChange ==
    ASSUME Types, NEW w \in Workers, claim' \in [Workers -> 0..Cap],
           \A v \in Workers \ {w} : claim'[v] = claim[v]
    PROVE  Total(claim', Cap) = (Total(claim, Cap) - claim[w]) + claim'[w]
<1>1. claim \in [Workers -> 0..Cap] /\ IsFiniteSet(Workers) /\ Cap \in Nat
  BY CapFacts DEF Types
<1> QED
  BY <1>1, TotalUpdate

\* A claim that is set to n bytes, with what bounds the subtractions.
LEMMA ClaimUpdate ==
    ASSUME Types, NEW w \in Workers, NEW n \in 0..Cap,
           claim' = [claim EXCEPT ![w] = n]
    PROVE  /\ claim' \in [Workers -> 0..Cap]
           /\ Total(claim', Cap) = (Total(claim, Cap) - claim[w]) + n
           /\ Total(claim, Cap) \in Nat /\ claim[w] <= Total(claim, Cap)
<1>1. /\ claim' \in [Workers -> 0..Cap] /\ claim'[w] = n
      /\ \A v \in Workers \ {w} : claim'[v] = claim[v]
  BY DEF Types
<1>2. Total(claim', Cap) = (Total(claim, Cap) - claim[w]) + claim'[w]
  BY <1>1, ClaimChange
<1>3. claim \in [Workers -> 0..Cap] /\ claim \in [Workers -> Nat]
      /\ IsFiniteSet(Workers) /\ Cap \in Nat
  BY CapFacts DEF Types
<1>4. Total(claim, Cap) \in Nat
  BY <1>3, TotalType
<1>5. claim[w] <= Total(claim, Cap)
  BY <1>3, TotalBounds
<1> QED
  BY <1>1, <1>2, <1>4, <1>5

\* Worker w alone moved, its step kept the books, and what its new location
\* says of its claim is true.
LEMMA WorkerMoved ==
    ASSUME AdmissionInv, NEW w \in Workers,
           UNCHANGED <<main, plan>>,
           \A v \in Workers \ {w} :
              /\ pc'[v] = pc[v] /\ then'[v] = then[v] /\ purpose'[v] = purpose[v]
              /\ claim'[v] = claim[v] /\ want'[v] = want[v] /\ held'[v] = held[v],
           Types', Booked', pc[w] # "off", ClaimOf(w)'
    PROVE  AdmissionInv'
<1>1. Phases'
  BY DEF AdmissionInv, Phases
<1>2. Claims'
  <2> SUFFICES ASSUME NEW v \in Workers, v # w PROVE ClaimOf(v)'
    BY DEF Claims, Workers
  <2>1. ClaimOf(v)
    BY DEF AdmissionInv, Claims
  <2> QED
    BY <2>1 DEF ClaimOf, Asking
<1> QED
  BY <1>1, <1>2 DEF AdmissionInv

\* Dropping a claim returns exactly its bytes.
LEMMA DroppedClaim ==
    ASSUME AdmissionInv, NEW w \in Workers, NEW next, pc[w] # "off",
           DropClaim(w, next), UNCHANGED shared
    PROVE  /\ live' \in 0..Cap /\ Booked'
           /\ claim' \in [Workers -> 0..Cap] /\ claim'[w] = 0
           /\ \A v \in Workers \ {w} :
                 claim'[v] = claim[v] /\ pc'[v] = pc[v] /\ then'[v] = then[v]
           /\ DOMAIN pc' = Workers /\ DOMAIN then' = Workers
           /\ \/ pc'[w] = next
              \/ pc'[w] = "notify" /\ then'[w] = next
<1>1. Types /\ Booked
  BY DEF AdmissionInv, Phases
<1>2. claim' = [claim EXCEPT ![w] = 0] /\ 0 \in 0..Cap
  BY CapFacts DEF DropClaim
<1>3. /\ claim' \in [Workers -> 0..Cap]
      /\ Total(claim', Cap) = (Total(claim, Cap) - claim[w]) + 0
      /\ Total(claim, Cap) \in Nat /\ claim[w] <= Total(claim, Cap)
  BY <1>1, <1>2, ClaimUpdate
<1>4. /\ live \in 0..Cap /\ shared \in Nat /\ claim[w] \in Nat /\ Cap \in Nat
      /\ live = shared + Total(claim, Cap)
  BY <1>1, CapFacts DEF Types, Booked
<1>5. live' = live - claim[w]
  BY <1>3, <1>4 DEF DropClaim
<1>6. live' \in 0..Cap /\ Booked'
  BY <1>3, <1>4, <1>5 DEF Booked, Cap
<1>7. /\ \A v \in Workers \ {w} :
            claim'[v] = claim[v] /\ pc'[v] = pc[v] /\ then'[v] = then[v]
      /\ DOMAIN pc' = Workers /\ DOMAIN then' = Workers
      /\ pc'[w] = next \/ (pc'[w] = "notify" /\ then'[w] = next)
  BY <1>1 DEF DropClaim, Goto, Types
<1> QED
  BY <1>1, <1>2, <1>3, <1>6, <1>7 DEF Types

-----------------------------------------------------------------------------
\* Before the call nothing is admitted and no worker runs.
LEMMA InitAdmission == Init => AdmissionInv
<1> SUFFICES ASSUME Init PROVE AdmissionInv
  OBVIOUS
<1>1. Types
  BY CapFacts DEF Init, Types
<1> QED
  BY <1>1 DEF Init, AdmissionInv, Phases, Claims, ClaimOf, Asking, NoPlan

\* The calling thread: planning starts the books, the rest leaves them alone.
LEMMA MainPreserves ==
    ASSUME AdmissionInv, MainStep
    PROVE  AdmissionInv'
<1>0. Types /\ Phases /\ Claims
  BY DEF AdmissionInv
<1>1. CASE BuildShared
  <2>1. Types'
    BY <1>0, <1>1, CapFacts DEF BuildShared, Return, workerVars, Types, Cap, Workers
  <2>2. Phases'
    BY <1>0, <1>1 DEF BuildShared, Return, workerVars, Phases, Workers
  <2>3. Claims'
    BY <1>0, <1>1 DEF BuildShared, workerVars, Claims, ClaimOf, Asking, Workers
  <2> QED
    BY <2>1, <2>2, <2>3 DEF AdmissionInv
<1>2. CASE PlanBatch
  <2>1. plan = NoPlan /\ (\A w \in Workers : pc[w] = "off") /\ main = "plan"
    BY <1>0, <1>2 DEF PlanBatch, Phases
  <2>2. UNCHANGED <<shared, turn, then, want, purpose, claim, held>>
    BY <1>2 DEF PlanBatch
  <2>3. CASE UNCHANGED <<plan, live, pc>> /\ main' = "returned"
    BY <1>0, <2>1, <2>2, <2>3
       DEF AdmissionInv, Types, Phases, Claims, ClaimOf, Asking, Booked, Cap, Workers
  <2>4. CASE /\ live' = shared /\ main' \in {"join", "spawn"}
             /\ pc' = pc \/ pc' = [pc EXCEPT ![1] = "job"]
    <3>1. claim \in [Workers -> {0}]
      BY <1>0, <2>1 DEF Types, Claims, ClaimOf
    <3>2. Total(claim, Cap) = 0
      BY <3>1, CapFacts, TotalZero
    <3>3. Types'
      BY <1>0, <2>2, <2>4, CapFacts DEF Types, Cap, Workers
    <3>4. Booked'
      BY <1>0, <2>2, <2>4, <3>2 DEF Booked, Types, Cap
    <3>5. Claims'
      BY <1>0, <2>1, <2>2, <2>4 DEF Types, Claims, ClaimOf, Asking, Workers
    <3> QED
      BY <2>4, <3>3, <3>4, <3>5 DEF AdmissionInv, Phases
  <2> QED
    BY <1>2, <2>3, <2>4 DEF PlanBatch, Return
<1>3. CASE Spawn
  <2>1. /\ Booked /\ main' \in {"spawn", "join"} /\ turn' \in Nat
        /\ UNCHANGED <<plan, shared, live, then, want, purpose, claim, held>>
        /\ pc' = pc \/ pc' = [pc EXCEPT ![turn] = "job"]
    BY <1>0, <1>3 DEF Spawn, Phases, Types, callVars
  <2>2. Types' /\ Booked'
    BY <1>0, <2>1 DEF Types, Booked, Cap, Workers
  <2>3. Claims'
    BY <1>0, <2>1 DEF Types, Claims, ClaimOf, Asking, Workers
  <2> QED
    BY <2>1, <2>2, <2>3 DEF AdmissionInv, Phases
<1>4. CASE Join \/ Collect
  <2>1. /\ Booked /\ main' \in {"join", "returned"} /\ turn' \in Nat
        /\ UNCHANGED <<plan, shared, live, pc, then, want, purpose, claim, held>>
    BY <1>0, <1>4 DEF Join, Collect, Return, Phases, Types, callVars, workerVars
  <2>2. Types' /\ Booked'
    BY <1>0, <2>1 DEF Types, Booked, Cap, Workers
  <2>3. Claims'
    BY <1>0, <2>1 DEF Claims, ClaimOf, Asking, Workers
  <2> QED
    BY <2>1, <2>2, <2>3 DEF AdmissionInv, Phases
<1> QED
  BY <1>1, <1>2, <1>3, <1>4 DEF MainStep

-----------------------------------------------------------------------------
\* A worker step that drops its claim and goes on at a place where nothing is
\* said of claims, or asks for another one.
LEMMA DropPreserves ==
    ASSUME AdmissionInv, NEW w \in Workers,
           NEW next \in {"claim", "record", "ended", "unwind"},
           pc[w] # "off", DropClaim(w, next),
           UNCHANGED <<callVars, mainVars>>,
           held' = held \/ Free(w),
           \/ UNCHANGED <<want, purpose>> /\ next # "claim"
           \/ \E why \in {"private", "generic"} : Ask(w, Claim, why)
    PROVE  AdmissionInv'
<1>0. Types
  BY DEF AdmissionInv
<1>1. UNCHANGED <<shared, turn, main, plan>>
  BY DEF callVars, mainVars
<1>2. /\ live' \in 0..Cap /\ Booked'
      /\ claim' \in [Workers -> 0..Cap] /\ claim'[w] = 0
      /\ \A v \in Workers \ {w} :
            claim'[v] = claim[v] /\ pc'[v] = pc[v] /\ then'[v] = then[v]
      /\ DOMAIN pc' = Workers /\ DOMAIN then' = Workers
      /\ pc'[w] = next \/ (pc'[w] = "notify" /\ then'[w] = next)
  BY <1>1, DroppedClaim
<1>3. /\ held' \in [Workers -> 0..Cap]
      /\ \A v \in Workers \ {w} : held'[v] = held[v]
  BY <1>0, CapFacts DEF Free, Types
<1>4. /\ want' \in [Workers -> 0..Cap] /\ DOMAIN purpose' = Workers
      /\ \A v \in Workers \ {w} : want'[v] = want[v] /\ purpose'[v] = purpose[v]
      /\ next = "claim" => purpose'[w] \in {"private", "generic"}
  BY <1>0, CapFacts DEF Ask, Types
<1>5. Types'
  BY <1>0, <1>1, <1>2, <1>3, <1>4 DEF Types, Cap, Workers
<1>6. ClaimOf(w)'
  BY <1>2, <1>4 DEF ClaimOf, Asking
<1> QED
  BY <1>1, <1>2, <1>3, <1>4, <1>5, <1>6, WorkerMoved

\* A worker step that leaves the books alone.
LEMMA QuietPreserves ==
    ASSUME AdmissionInv, NEW w \in Workers, NEW next, pc[w] # "off",
           Goto(w, next), UNCHANGED <<callVars, mainVars, live, then, claim>>,
           next \notin {"off", "notify"},
           next \in {"claim", "waiting"} =>
              claim[w] = 0 /\ purpose'[w] \in {"shared", "private", "generic"},
           next \in {"build", "prepare"} => claim[w] = want'[w],
           next = "reconcile" => held'[w] <= claim[w],
           want' = want \/ \E n \in 0..Cap : want' = [want EXCEPT ![w] = n],
           purpose' = purpose \/ \E why : purpose' = [purpose EXCEPT ![w] = why],
           held' = held \/ \E n \in 0..Cap : held' = [held EXCEPT ![w] = n]
    PROVE  AdmissionInv'
<1>0. Types /\ Booked
  BY DEF AdmissionInv, Phases
<1>1. UNCHANGED <<shared, turn, main, plan>>
  BY DEF callVars, mainVars
<1>2. /\ pc'[w] = next /\ DOMAIN pc' = Workers
      /\ \A v \in Workers \ {w} : pc'[v] = pc[v]
  BY <1>0 DEF Goto, Types
<1>3. /\ want' \in [Workers -> 0..Cap] /\ held' \in [Workers -> 0..Cap]
      /\ DOMAIN purpose' = Workers
      /\ \A v \in Workers \ {w} :
            want'[v] = want[v] /\ held'[v] = held[v] /\ purpose'[v] = purpose[v]
  BY <1>0 DEF Types
<1>4. Types' /\ Booked'
  BY <1>0, <1>1, <1>2, <1>3 DEF Types, Booked, Cap, Workers
<1>5. ClaimOf(w)'
  BY <1>2 DEF ClaimOf, Asking
<1> QED
  BY <1>1, <1>2, <1>3, <1>4, <1>5, WorkerMoved

\* Every step of a worker preserves the invariant.
LEMMA WorkerPreserves ==
    ASSUME AdmissionInv, NEW w \in Workers, WorkerStep(w)
    PROVE  AdmissionInv'
<1>0. Types /\ Phases /\ ClaimOf(w)
  BY DEF AdmissionInv, Claims
<1>1. CASE ClaimBytes(w)
  <2>1. pc[w] = "claim" /\ claim[w] = 0
        /\ purpose[w] \in {"shared", "private", "generic"}
    BY <1>0, <1>1 DEF ClaimBytes, ClaimOf, Asking
  <2>2. UNCHANGED <<callVars, mainVars, then, want, purpose>>
    BY <1>1 DEF ClaimBytes
  <2>3. CASE Cap - live < want[w]
    <3>1. Goto(w, "waiting") /\ UNCHANGED <<live, claim, held>>
      BY <1>1, <2>3 DEF ClaimBytes
    <3> QED
      BY <2>1, <2>2, <3>1, QuietPreserves
  <2>4. CASE ~ (Cap - live < want[w])
    <3>1. /\ live' = live + want[w]
          /\ claim' = [claim EXCEPT ![w] = want[w]]
          /\ held' = [held EXCEPT ![w] = want[w]]
          /\ \E next \in {"prepare", "build", "decode"} : Goto(w, next)
      BY <1>1, <2>1, <2>4 DEF ClaimBytes
    <3>2. want[w] \in 0..Cap /\ live \in 0..Cap /\ Cap \in Nat /\ shared \in Nat
      BY <1>0, CapFacts DEF Types
    <3>3. /\ claim' \in [Workers -> 0..Cap]
          /\ Total(claim', Cap) = (Total(claim, Cap) - claim[w]) + want[w]
          /\ Total(claim, Cap) \in Nat
      BY <1>0, <3>1, <3>2, ClaimUpdate
    <3>4. UNCHANGED <<shared, turn, main, plan, then, want, purpose>>
      BY <2>2 DEF callVars, mainVars
    <3>5. Booked
      BY <1>0, <2>1 DEF Phases
    <3>6. live' \in 0..Cap /\ Booked'
      BY <2>1, <2>4, <3>1, <3>2, <3>3, <3>4, <3>5 DEF Booked, Cap
    <3>7. /\ DOMAIN pc' = Workers /\ held' \in [Workers -> 0..Cap]
          /\ \A v \in Workers \ {w} :
                pc'[v] = pc[v] /\ claim'[v] = claim[v] /\ held'[v] = held[v]
          /\ pc'[w] \in {"prepare", "build", "decode"} /\ claim'[w] = want[w]
      BY <1>0, <3>1, <3>2 DEF Goto, Types
    <3>8. Types'
      BY <1>0, <3>3, <3>4, <3>6, <3>7 DEF Types, Cap, Workers
    <3>9. ClaimOf(w)'
      BY <3>4, <3>7 DEF ClaimOf, Asking
    <3> QED
      BY <2>1, <3>4, <3>6, <3>7, <3>8, <3>9, WorkerMoved
  <2> QED
    BY <2>3, <2>4
<1>2. CASE NotifyAll(w)
  <2>1. /\ pc[w] = "notify"
        /\ pc' = [v \in Workers |->
                     IF v = w THEN then[w]
                     ELSE IF pc[v] = "waiting" THEN "claim" ELSE pc[v]]
        /\ UNCHANGED <<shared, turn, main, plan, live, then, want, purpose, claim, held>>
    BY <1>2 DEF NotifyAll, callVars, mainVars
  <2>2. Booked
    BY <1>0, <2>1 DEF Phases
  <2>3. Types' /\ Booked'
    BY <1>0, <2>1, <2>2 DEF Types, Booked, Cap, Workers
  <2>4. Claims'
    <3> SUFFICES ASSUME NEW v \in Workers PROVE ClaimOf(v)'
      BY DEF Claims, Workers
    <3>1. ClaimOf(v)
      BY DEF AdmissionInv, Claims
    <3> QED
      BY <2>1, <3>1 DEF ClaimOf, Asking
  <2>5. Phases'
    BY <1>0, <2>1, <2>3 DEF Phases
  <2> QED
    BY <2>3, <2>4, <2>5 DEF AdmissionInv
<1>3. CASE Reconcile(w)
  <2>1. /\ pc[w] = "reconcile" /\ held[w] <= claim[w]
        /\ live' = live - (claim[w] - held[w])
        /\ claim' = [claim EXCEPT ![w] = held[w]]
        /\ UNCHANGED <<shared, turn, main, plan, want, purpose, held>>
    BY <1>0, <1>3 DEF Reconcile, ClaimOf, callVars, mainVars
  <2>2. held[w] \in 0..Cap /\ claim[w] \in 0..Cap /\ live \in 0..Cap
        /\ Cap \in Nat /\ shared \in Nat
    BY <1>0, CapFacts DEF Types
  <2>3. /\ claim' \in [Workers -> 0..Cap]
        /\ Total(claim', Cap) = (Total(claim, Cap) - claim[w]) + held[w]
        /\ Total(claim, Cap) \in Nat /\ claim[w] <= Total(claim, Cap)
    BY <1>0, <2>1, <2>2, ClaimUpdate
  <2>4. Booked
    BY <1>0, <2>1 DEF Phases
  <2>5. live' \in 0..Cap /\ Booked'
    BY <2>1, <2>2, <2>3, <2>4 DEF Booked, Cap
  <2>6. /\ DOMAIN pc' = Workers /\ DOMAIN then' = Workers
        /\ \A v \in Workers \ {w} :
              pc'[v] = pc[v] /\ claim'[v] = claim[v] /\ then'[v] = then[v]
        /\ pc'[w] = "execute" \/ (pc'[w] = "notify" /\ then'[w] = "execute")
    BY <1>0, <1>3, <2>1 DEF Reconcile, Goto, Types
  <2>7. Types'
    BY <1>0, <2>1, <2>3, <2>5, <2>6 DEF Types, Cap, Workers
  <2>8. ClaimOf(w)'
    BY <2>6 DEF ClaimOf, Asking
  <2> QED
    BY <2>1, <2>5, <2>6, <2>7, <2>8, WorkerMoved
<1>4. CASE StartPlain(w)
  <2>1. /\ pc[w] # "off" /\ Goto(w, "decode")
        /\ UNCHANGED <<callVars, mainVars, live, then, claim>>
        /\ held' = [held EXCEPT ![w] = Claim]
        /\ want' = [want EXCEPT ![w] = 0]
        /\ purpose' = [purpose EXCEPT ![w] = "plain"]
    BY <1>4 DEF StartPlain, HasJob, Ask
  <2>2. 0 \in 0..Cap /\ Claim \in 0..Cap
    BY CapFacts
  <2> QED
    BY <2>1, <2>2, QuietPreserves
<1>5. CASE RefuseBuffer(w) \/ Record(w) \/ Unwind(w)
  BY <1>5, CapFacts, QuietPreserves DEF RefuseBuffer, Record, Unwind, HasJob, Free
<1>6. CASE StartShared(w)
  <2>1. Claim - shared \in 0..Cap
    BY <1>0, CapFacts DEF Types
  <2>2. CASE claim[w] = 0
    <3>1. /\ pc[w] # "off" /\ Goto(w, "claim") /\ UNCHANGED <<callVars, mainVars, live, then, claim, held>>
          /\ want' = [want EXCEPT ![w] = Claim - shared]
          /\ purpose' = [purpose EXCEPT ![w] = "shared"]
      BY <1>6, <2>2 DEF StartShared, HasJob, Ask
    <3>2. purpose'[w] = "shared"
      BY <1>0, <3>1 DEF Types
    <3> QED
      BY <2>1, <2>2, <3>1, <3>2, QuietPreserves
  <2>3. CASE claim[w] # 0
    BY <1>6, <2>3, QuietPreserves DEF StartShared, HasJob
  <2> QED
    BY <2>2, <2>3
<1>7. CASE StartCached(w)
  <2>1. CASE cache[w] = job[tile[w]]
    BY <1>7, <2>1, QuietPreserves DEF StartCached, HasJob
  <2>2. CASE cache[w] # job[tile[w]]
    BY <1>7, <2>2, DropPreserves DEF StartCached, HasJob, Release
  <2> QED
    BY <2>1, <2>2
<1>8. CASE StartGeneric(w)
  BY <1>8, DropPreserves DEF StartGeneric, HasJob, Release
<1>9. CASE Build(w)
  <2>1. pc[w] = "build" /\ claim[w] = want[w] /\ UNCHANGED <<callVars, mainVars>>
    BY <1>0, <1>9 DEF Build, ClaimOf
  <2>2. CASE Goto(w, "prepare") /\ UNCHANGED <<live, then, want, purpose, claim, held>>
    BY <2>1, <2>2, QuietPreserves
  <2>3. CASE Ask(w, Claim, "generic") /\ Free(w) /\ DropClaim(w, "claim")
    BY <2>1, <2>3, DropPreserves
  <2>4. CASE Free(w) /\ DropClaim(w, "record") /\ UNCHANGED <<want, purpose>>
    BY <2>1, <2>4, DropPreserves
  <2> QED
    BY <1>9, <2>2, <2>3, <2>4 DEF Build
<1>10. CASE Prepare(w)
  <2>1. pc[w] = "prepare" /\ claim[w] = want[w] /\ UNCHANGED <<callVars, mainVars, want, purpose>>
    BY <1>0, <1>10 DEF Prepare, ClaimOf
  <2>2. ASSUME NEW bytes \in 1..want[w], held' = [held EXCEPT ![w] = bytes],
               Goto(w, "reconcile"), UNCHANGED <<live, then, claim>>
        PROVE  AdmissionInv'
    <3>1. bytes \in 0..Cap /\ held'[w] = bytes /\ bytes <= claim[w]
      BY <1>0, <2>1, <2>2, CapFacts DEF Types
    <3> QED
      BY <2>1, <2>2, <3>1, QuietPreserves
  <2>3. CASE Free(w) /\ DropClaim(w, "record")
    BY <2>1, <2>3, DropPreserves
  <2> QED
    BY <1>10, <2>2, <2>3 DEF Prepare
<1>11. CASE Execute(w)
  <2>1. CASE Goto(w, "record") /\ UNCHANGED <<live, then, claim, held>>
    BY <1>11, <2>1, QuietPreserves DEF Execute
  <2>2. CASE Release(w, "record")
    BY <1>11, <2>2, DropPreserves DEF Execute, Release
  <2> QED
    BY <1>11, <2>1, <2>2 DEF Execute
<1>12. CASE Decode(w)
  <2>1. CASE Goto(w, "record") /\ UNCHANGED <<live, then, claim, held>>
    BY <1>12, <2>1, QuietPreserves DEF Decode
  <2>2. CASE Free(w) /\ DropClaim(w, "record")
    BY <1>12, <2>2, DropPreserves DEF Decode
  <2> QED
    BY <1>12, <2>1, <2>2 DEF Decode
<1>13. CASE Finish(w)
  BY <1>13, DropPreserves DEF Finish, Release
<1>14. CASE Panic(w)
  <2>1. CASE Release(w, "ended")
    BY <1>14, <2>1, DropPreserves DEF Panic, Release
  <2>2. CASE DropClaim(w, "unwind") /\ UNCHANGED held
    BY <1>14, <2>2, DropPreserves DEF Panic
  <2> QED
    BY <1>14, <2>1, <2>2 DEF Panic
<1> QED
  BY <1>1, <1>2, <1>3, <1>4, <1>5, <1>6, <1>7, <1>8, <1>9, <1>10, <1>11,
     <1>12, <1>13, <1>14 DEF WorkerStep

\* The invariant holds throughout, for every number of tiles, workers and
\* bytes to a claim.
THEOREM AdmissionInvariant == Spec => []AdmissionInv
<1>1. AdmissionInv /\ [Next]_vars => AdmissionInv'
  <2> SUFFICES ASSUME AdmissionInv, [Next]_vars PROVE AdmissionInv'
    OBVIOUS
  <2>1. CASE MainStep
    BY <2>1, MainPreserves
  <2>2. ASSUME NEW w \in Workers, WorkerStep(w) PROVE AdmissionInv'
    BY <2>2, WorkerPreserves
  <2>3. ASSUME NEW w \in Workers, SpuriousWakeup(w) PROVE AdmissionInv'
    <3>1. pc[w] = "waiting" /\ claim[w] = 0
          /\ purpose[w] \in {"shared", "private", "generic"}
      BY <2>3 DEF SpuriousWakeup, AdmissionInv, Claims, ClaimOf, Asking
    <3> QED
      BY <2>3, <3>1, QuietPreserves DEF SpuriousWakeup
  <2>4. CASE UNCHANGED vars
    BY <2>4 DEF vars, AdmissionInv, Types, Phases, Claims, ClaimOf, Asking,
                Booked, Cap, Workers
  <2> QED
    BY <2>1, <2>2, <2>3, <2>4 DEF Next, Done
<1> QED
  BY InitAdmission, <1>1, PTL DEF Spec

\* AdmissionState.live is the shared plan plus all claims not yet dropped and
\* stays within the cap (BatchAllocationBudget), whatever the workers do.
THEOREM AdmissionIsExact == Spec => []AdmittedExactly
<1>1. AdmissionInv => AdmittedExactly
  <2> SUFFICES ASSUME AdmissionInv, plan.worker_count > 0
               PROVE  live = shared + Total(claim, Cap) /\ live <= Cap
    BY DEF AdmittedExactly
  <2>1. plan # NoPlan
    BY DEF NoPlan
  <2> QED
    BY <2>1, CapFacts DEF AdmissionInv, Phases, Booked, Types
<1> QED
  BY <1>1, AdmissionInvariant, PTL
-----------------------------------------------------------------------------
(* Memory and answers                                                      *)

\* Where the worker is, or goes when it has notified the others.
Stage(w) == IF pc[w] = "notify" THEN then[w] ELSE pc[w]

\* The types that the proofs below need besides those above.
BatchTypes ==
    /\ mode \in {"plain", "region", "shared", "private"}
    /\ job \in Seq(Keys \cup {NoKey}) /\ Len(job) >= 1
    /\ desired \in Nat
    /\ main \in {"start", "plan", "spawn", "join", "returned"}
    /\ turn >= 1
    /\ firstError \in [kind : {"none", "spawn", "panicked"}, at : Nat]
    /\ slot \in [Jobs -> {"none", "ok", "err"}]
    /\ tile \in [Workers -> Nat]
    /\ verdict \in [Workers -> {"none", "ok", "err"}]
    /\ exit \in [Workers -> {"none", "ok", "panic"}]

\* A plan has one worker to a chunk, none too many, and its memory was found
\* to fit.
SoundPlan ==
    /\ plan.chunk_size \in Nat \ {0}
    /\ plan.worker_count \in Workers
    /\ plan.worker_count = Chunks
    /\ Metadata(Len(job), plan.worker_count) \in 0..MetadataCap
    /\ mode = "plain" =>
          plan.worker_count * Claim + Metadata(Len(job), plan.worker_count)
              <= HostCap

\* The planned workers have their chunks, and without admission no claims.
Planned ==
    /\ plan = NoPlan \/ SoundPlan
    /\ main \in {"spawn", "join"} => SoundPlan
    /\ plan = NoPlan => \A w \in Workers : pc[w] = "off"
    /\ mode = "plain" => shared = 0

\* A worker wrote the slots of its chunk up to the tile it is at, all of them
\* if it ended well, and holds no more than was admitted unless it panicked.
WorkerOf(w) ==
    /\ Stage(w) = "off" => exit[w] = "none" /\ held[w] = 0
    /\ Stage(w) \in {"ended", "unwind"} <=> exit[w] # "none"
    /\ Stage(w) # "off" =>
          /\ w <= plan.worker_count /\ First(w) <= tile[w]
          /\ \A j \in Jobs : First(w) <= j /\ j < tile[w] => slot[j] # "none"
    /\ Stage(w) \notin {"off", "job", "ended", "unwind"} => tile[w] <= Last(w)
    /\ exit[w] = "ok" => tile[w] > Last(w)
    /\ Stage(w) = "record" => verdict[w] \in {"ok", "err"}
    /\ mode = "plain" =>
          /\ held[w] <= Claim /\ claim[w] = 0
          /\ pc[w] \in {"off", "job", "decode", "record", "unwind", "ended"}
    /\ mode # "plain" =>
          /\ exit[w] # "panic" => held[w] <= claim[w]
          /\ pc[w] = "decode" => purpose[w] # "plain"

Running == \A w \in Workers : WorkerOf(w)

\* How far the calling thread is with starting and joining the workers, and
\* what it has noticed.
Joining ==
    /\ main \in {"start", "plan"} => turn = 1
    /\ main \in {"start", "plan", "spawn"} => firstError = NoError
    /\ main = "spawn" =>
          /\ turn <= plan.worker_count + 1
          /\ \A w \in Workers : pc[w] # "off" <=> w < turn
    /\ main = "join" =>
          /\ \A w \in Workers : w < turn => pc[w] = "ended"
          /\ \A v, w \in Workers : v < w /\ pc[w] # "off" => pc[v] # "off"
          /\ firstError.kind # "spawn" =>
                \A w \in Workers : w <= plan.worker_count => pc[w] # "off"
          /\ firstError.kind = "none" =>
                firstError = NoError /\ \A w \in Workers : w < turn => exit[w] = "ok"
          /\ firstError.kind = "panicked" =>
                /\ firstError.at \in Workers /\ firstError.at < turn
                /\ \A w \in Workers : w < firstError.at => exit[w] = "ok"
    /\ main = "returned" => \A w \in Workers : pc[w] \in {"off", "ended"}

\* Together with AdmissionInv, the inductive invariant of a call.
BatchInv == BatchTypes /\ Planned /\ Running /\ Joining /\ OutcomeFaithful

-----------------------------------------------------------------------------
(* Plans                                                                   *)

\* Some number of workers is requested whenever one fits.
LEMMA Selected ==
    ASSUME NEW n, NEW bytes, NEW limit, desired \in Nat,
           Acceptable(n, bytes, limit) # {}
    PROVE  \E r \in Acceptable(n, bytes, limit) :
              SelectPlan(n, bytes, limit) = Candidate(n, r)
<1> DEFINE fit == Acceptable(n, bytes, limit)
<1> DEFINE rest == {desired - r : r \in fit}
<1>1. fit \subseteq 1..desired /\ fit # {}
  BY DEF Acceptable
<1>2. rest \subseteq Nat /\ rest # {}
  BY <1>1
<1>3. PICK d \in rest : \A e \in rest : d <= e
  BY <1>2, LeastExists
<1>4. PICK r \in fit : d = desired - r
  BY <1>3
<1>5. \A s \in fit : s <= r
  <2> SUFFICES ASSUME NEW s \in fit PROVE s <= r
    OBVIOUS
  <2>1. desired - s \in rest
    OBVIOUS
  <2>2. d <= desired - s
    BY <1>3, <2>1
  <2> HIDE DEF fit, rest
  <2> QED
    BY <1>1, <1>4, <2>2
<1>6. (CHOOSE x \in fit : \A s \in fit : s <= x) \in fit
  BY <1>5
<1> QED
  BY <1>6 DEF SelectPlan

\* A candidate for r workers has no more than r.
LEMMA CandidateCounts ==
    ASSUME NEW n \in Nat \ {0}, NEW r \in Nat \ {0}
    PROVE  LET c == Candidate(n, r)
           IN  /\ c.chunk_size \in Nat \ {0} /\ c.worker_count \in 1..r
               /\ c.worker_count = DivCeil(n, c.chunk_size)
  BY CutCounts DEF Candidate

\* The plan that is chosen is sound.
LEMMA PlanIsSound ==
    ASSUME BatchTypes, NEW bytes, NEW limit \in Nat,
           limit <= 2 * MaxGeneric, mode = "plain" => bytes = Claim,
           Acceptable(Len(job), bytes, limit) # {},
           plan' = SelectPlan(Len(job), bytes, limit), UNCHANGED <<mode, job>>
    PROVE  SoundPlan'
<1> DEFINE n == Len(job)
<1>1. n \in Nat \ {0} /\ desired \in Nat
  BY DEF BatchTypes
<1>2. PICK r \in Acceptable(n, bytes, limit) : plan' = Candidate(n, r)
  BY <1>1, Selected
<1>3. r \in Nat \ {0} /\ r <= limit /\ Fits(n, r, bytes)
  BY <1>1, <1>2 DEF Acceptable
<1> HIDE DEF n
<1>4. /\ plan'.chunk_size \in Nat \ {0} /\ plan'.worker_count \in 1..r
      /\ plan'.worker_count = DivCeil(n, plan'.chunk_size)
  BY <1>1, <1>2, <1>3, CandidateCounts
<1>5. /\ Metadata(n, plan'.worker_count) <= MetadataCap
      /\ plan'.worker_count * bytes + Metadata(n, plan'.worker_count)
            <= HostCap
  BY <1>2, <1>3 DEF Fits
<1>6. Metadata(n, plan'.worker_count) \in Nat
  <2>1. JobBytes \in Nat /\ WorkerBytes \in Nat /\ plan'.worker_count \in Nat
    BY <1>3, <1>4, BatchAssumption
  <2>2. n * JobBytes \in Nat /\ plan'.worker_count * WorkerBytes \in Nat
    BY <1>1, <2>1, SMTT(30)
  <2> QED
    BY <2>2 DEF Metadata
<1>7. plan'.worker_count \in Workers
  BY <1>3, <1>4, BatchAssumption DEF Workers
<1>8. Metadata(n, plan'.worker_count) \in 0..MetadataCap
  BY <1>5, <1>6, BatchAssumption
<1> QED
  BY <1>4, <1>5, <1>7, <1>8
     DEF SoundPlan, Chunks, n, Workers, HostCap, Cap, Metadata

\* The chunks of a plan cover the tiles.
LEMMA TilesCovered ==
    ASSUME BatchTypes, SoundPlan, NEW j \in Jobs
    PROVE  \E w \in Workers : w <= plan.worker_count
                              /\ First(w) <= j /\ j <= Last(w)
<1> DEFINE n == Len(job)
<1> DEFINE size == plan.chunk_size
<1> DEFINE w == DivCeil(j, size)
<1>1. n \in Nat /\ j \in Nat \ {0} /\ j <= n /\ size \in Nat \ {0}
  BY DEF BatchTypes, SoundPlan, Jobs
<1>2. w \in Nat /\ j <= w * size /\ w * size < j + size
  BY <1>1, Ceiling
<1>3. /\ plan.worker_count \in Nat /\ plan.worker_count = DivCeil(n, size)
      /\ n <= plan.worker_count * size
  BY <1>1, Ceiling DEF SoundPlan, Chunks
<1>4. /\ plan.worker_count \in 1..(2 * MaxGeneric) /\ MaxGeneric \in Nat
  BY BatchAssumption DEF SoundPlan, Workers
<1> HIDE DEF n, size, w
<1>5. w # 0
  BY <1>1, <1>2
<1>6. (w - 1) * size = w * size - size /\ w * size \in Int
      /\ (w - 1) * size \in Int /\ plan.worker_count * size \in Int
  BY <1>1, <1>2, <1>3, SMTT(30)
<1>7. (w - 1) * size < j
  BY <1>1, <1>2, <1>6
<1>8. w - 1 < plan.worker_count
  <2>1. (w - 1) * size < plan.worker_count * size
    BY <1>1, <1>3, <1>6, <1>7
  <2> QED
    BY <1>1, <1>2, <1>3, <2>1, Cancel
<1>9. w \in Workers /\ w <= plan.worker_count
  BY <1>2, <1>3, <1>4, <1>5, <1>8 DEF Workers
<1>10. First(w) <= j /\ j <= Last(w)
  BY <1>1, <1>2, <1>6, <1>7 DEF First, Last, n, size
<1> QED
  BY <1>9, <1>10

-----------------------------------------------------------------------------
(* The workers                                                             *)

\* No other worker than w moves, except that a waiting one may be woken.
OthersStay(w) ==
    \A v \in Workers : v # w =>
        /\ pc'[v] = pc[v] \/ (pc[v] = "waiting" /\ pc'[v] = "claim")
        /\ then'[v] = then[v] /\ tile'[v] = tile[v]
        /\ verdict'[v] = verdict[v] /\ exit'[v] = exit[v]
        /\ held'[v] = held[v] /\ claim'[v] = claim[v]
        /\ purpose'[v] = purpose[v]

\* No slot is emptied.
SlotsStay == \A j \in Jobs : slot[j] # "none" => slot'[j] # "none"

\* The chunks depend on the call alone.
LEMMA SameChunks ==
    ASSUME UNCHANGED callVars
    PROVE  /\ UNCHANGED <<mode, job, plan, shared, desired>>
           /\ Jobs' = Jobs /\ Chunks' = Chunks
           /\ \A v : First(v)' = First(v) /\ Last(v)' = Last(v)
<1>1. UNCHANGED <<mode, job, plan, shared, desired>>
  BY DEF callVars
<1>2. Jobs' = Jobs /\ Chunks' = Chunks
  BY <1>1 DEF Jobs, Chunks, DivCeil
<1>3. \A v : First(v)' = First(v) /\ Last(v)' = Last(v)
  BY <1>1 DEF First, Last
<1> QED
  BY <1>1, <1>2, <1>3

\* A worker that is running moves, and what its new stage says is true.
LEMMA WorkerGoesOn ==
    ASSUME AdmissionInv, BatchInv, NEW w \in Workers, pc[w] \notin {"off", "ended"},
           UNCHANGED <<callVars, mainVars>>, OthersStay(w), SlotsStay,
           BatchTypes', WorkerOf(w)', pc'[w] # "off"
    PROVE  BatchInv'
<1>1. /\ UNCHANGED <<mode, job, plan, shared, desired>>
      /\ Jobs' = Jobs /\ Chunks' = Chunks
      /\ \A v : First(v)' = First(v) /\ Last(v)' = Last(v)
  BY SameChunks
<1>2. UNCHANGED <<main, turn, firstError, outcome>>
  BY DEF mainVars
<1>3. main # "returned"
  BY DEF BatchInv, Joining
<1>4. SoundPlan <=> SoundPlan'
  BY <1>1 DEF SoundPlan, Workers, HostCap, Cap, Metadata
<1>5. Planned'
  BY <1>1, <1>2, <1>4 DEF BatchInv, Planned
<1>6. Running'
  <2> SUFFICES ASSUME NEW v \in Workers, v # w PROVE WorkerOf(v)'
    BY DEF Running, Workers
  <2>1. WorkerOf(v)
    BY DEF BatchInv, Running
  <2>2. /\ \/ pc'[v] = pc[v]
           \/ pc[v] = "waiting" /\ pc'[v] = "claim"
        /\ then'[v] = then[v] /\ tile'[v] = tile[v]
        /\ verdict'[v] = verdict[v] /\ exit'[v] = exit[v]
        /\ held'[v] = held[v] /\ claim'[v] = claim[v]
        /\ purpose'[v] = purpose[v]
    BY DEF OthersStay
  <2>3. First(v)' = First(v) /\ Last(v)' = Last(v)
    BY <1>1
  <2> QED
    BY <1>1, <2>1, <2>2, <2>3 DEF WorkerOf, Stage, SlotsStay
<1>7. Joining'
  <2>1. \A v \in Workers :
           /\ pc'[v] # "off" <=> pc[v] # "off"
           /\ pc[v] = "ended" => v # w /\ pc'[v] = "ended" /\ exit'[v] = exit[v]
    BY DEF OthersStay
  <2>2. Joining
    BY DEF BatchInv
  <2>3. main = "join" => \A v \in Workers : v < turn => exit'[v] = exit[v]
    BY <2>1, <2>2 DEF Joining
  <2>4. \A v \in Workers : firstError.kind = "panicked" /\ main = "join" =>
           (v < firstError.at => exit'[v] = "ok")
    <3> SUFFICES ASSUME NEW v \in Workers, firstError.kind = "panicked",
                        main = "join", v < firstError.at
                 PROVE  exit'[v] = "ok"
      OBVIOUS
    <3>1. firstError.at < turn /\ exit[v] = "ok"
      BY <2>2 DEF Joining
    <3>2. v \in Nat /\ firstError.at \in Nat /\ turn \in Nat
      BY BatchAssumption
         DEF AdmissionInv, Types, BatchInv, BatchTypes, Workers
    <3> QED
      BY <2>3, <3>1, <3>2
  <2>5. Workers' = Workers /\ NoError' = NoError
    BY DEF Workers, NoError
  <2> QED
    BY <1>1, <1>2, <1>3, <2>1, <2>2, <2>3, <2>4, <2>5 DEF Joining
<1>8. OutcomeFaithful'
  BY <1>2, <1>3 DEF OutcomeFaithful
<1> QED
  BY <1>5, <1>6, <1>7, <1>8 DEF BatchInv

\* What is known of a worker that is running.
LEMMA RunningWorker ==
    ASSUME AdmissionInv, BatchInv, NEW w \in Workers, pc[w] \notin {"off", "ended"}
    PROVE  /\ WorkerOf(w) /\ ClaimOf(w) /\ BatchTypes /\ Types
           /\ First(w) \in Nat /\ Last(w) \in Nat /\ tile[w] \in Nat
           /\ claim[w] \in Nat /\ held[w] \in Nat /\ want[w] \in Nat
           /\ Claim \in Nat /\ Jobs = 1..Len(job) /\ Len(job) \in Nat
<1>1. WorkerOf(w) /\ ClaimOf(w) /\ BatchTypes /\ Types
  BY DEF BatchInv, Running, AdmissionInv, Claims
<1>2. SoundPlan
  BY DEF BatchInv, Planned
<1>3. plan.chunk_size \in Nat /\ w \in Nat \ {0} /\ Len(job) \in Nat
  BY <1>1, <1>2, BatchAssumption DEF SoundPlan, BatchTypes, Workers
<1>4. (w - 1) * plan.chunk_size \in Nat /\ w * plan.chunk_size \in Nat
  BY <1>3, SMTT(30)
<1>5. First(w) \in Nat /\ Last(w) \in Nat
  BY <1>3, <1>4 DEF First, Last
<1>6. Jobs = 1..Len(job) /\ tile[w] \in Nat
  BY <1>1 DEF BatchTypes, Jobs
<1>7. claim[w] \in 0..Cap /\ held[w] \in 0..Cap /\ want[w] \in 0..Cap
  BY <1>1 DEF Types
<1> QED
  BY <1>1, <1>3, <1>5, <1>6, <1>7, CapFacts

\* A running worker drops its claim.
LEMMA StageAfterDrop ==
    ASSUME AdmissionInv, BatchInv, NEW w \in Workers, NEW next,
           next \notin {"off", "notify"}, pc[w] # "off", DropClaim(w, next)
    PROVE  /\ Stage(w)' = next /\ claim'[w] = 0 /\ pc'[w] # "off"
           /\ pc'[w] \in {next, "notify"}
           /\ claim[w] = 0 => pc'[w] = next
           /\ \A v \in Workers : v # w =>
                 claim'[v] = claim[v] /\ pc'[v] = pc[v] /\ then'[v] = then[v]
<1>1. Types /\ claim[w] \in Nat
  BY CapFacts DEF AdmissionInv, Types
<1> QED
  BY <1>1 DEF DropClaim, Goto, Types, Stage

\* A worker moves within the job it is at.
LEMMA JobGoesOn ==
    ASSUME AdmissionInv, BatchInv, NEW w \in Workers,
           Stage(w) \notin {"off", "ended", "unwind"},
           Stage(w)' \notin {"off", "ended", "unwind"}, pc'[w] # "off",
           UNCHANGED <<callVars, mainVars, tile, slot, exit>>, OthersStay(w),
           verdict' \in [Workers -> {"none", "ok", "err"}],
           tile[w] <= Last(w),
           Stage(w)' = "record" => verdict'[w] \in {"ok", "err"},
           mode = "plain" =>
              /\ held'[w] <= Claim /\ claim'[w] = 0
              /\ pc'[w] \in {"job", "decode", "record"},
           mode # "plain" =>
              /\ held'[w] <= claim'[w]
              /\ pc'[w] = "decode" => purpose'[w] # "plain"
    PROVE  BatchInv'
<1>1. pc[w] \notin {"off", "ended"} /\ WorkerOf(w) /\ BatchTypes
  BY DEF Stage, BatchInv, Running, AdmissionInv, Claims, ClaimOf
<1>2. /\ UNCHANGED <<mode, job, plan, shared, desired>>
      /\ Jobs' = Jobs /\ First(w)' = First(w) /\ Last(w)' = Last(w)
  BY SameChunks
<1>3. BatchTypes' /\ SlotsStay
  BY <1>1, <1>2 DEF BatchTypes, mainVars, SlotsStay, Workers
<1>4. tile'[w] = tile[w] /\ slot' = slot /\ exit'[w] = exit[w]
  OBVIOUS
<1>5. WorkerOf(w)'
  BY <1>1, <1>2, <1>4 DEF WorkerOf
<1> QED
  BY <1>1, <1>3, <1>5, WorkerGoesOn

\* The part of the invariant that the steps of a job need.
LEMMA AtJob ==
    ASSUME AdmissionInv, BatchInv, NEW w \in Workers,
           pc[w] \notin {"off", "ended", "unwind", "notify"}
    PROVE  /\ Stage(w) \notin {"off", "ended", "unwind"}
           /\ exit[w] = "none" /\ exit \in [Workers -> {"none", "ok", "panic"}]
           /\ pc[w] # "job" => tile[w] <= Last(w)
           /\ ClaimOf(w)
           /\ verdict \in [Workers -> {"none", "ok", "err"}]
           /\ claim \in [Workers -> 0..Cap] /\ held \in [Workers -> 0..Cap]
           /\ want \in [Workers -> 0..Cap] /\ Cap \in Nat /\ Claim \in 1..Cap
           /\ DOMAIN pc = Workers /\ DOMAIN then = Workers
           /\ DOMAIN purpose = Workers
           /\ mode = "plain" =>
                 /\ held[w] <= Claim /\ claim[w] = 0
                 /\ pc[w] \in {"job", "decode", "record"}
           /\ mode # "plain" =>
                 /\ held[w] <= claim[w]
                 /\ pc[w] = "decode" => purpose[w] # "plain"
<1>1. WorkerOf(w) /\ ClaimOf(w) /\ BatchTypes /\ Types
  BY DEF BatchInv, Running, AdmissionInv, Claims
<1> QED
  BY <1>1, CapFacts DEF WorkerOf, Stage, BatchTypes, Types

\* Every step of a worker keeps the invariant of the call.
LEMMA WorkerKeepsBatch ==
    ASSUME AdmissionInv, BatchInv, NEW w \in Workers,
           WorkerStep(w) \/ SpuriousWakeup(w)
    PROVE  BatchInv'
<1>1. CASE ClaimBytes(w)
  <2>1. /\ pc[w] = "claim" /\ purpose[w] \in {"shared", "private", "generic"}
        /\ UNCHANGED <<callVars, mainVars, tile, verdict, slot, then, want,
                       purpose, exit>>
    BY <1>1, AtJob DEF ClaimBytes, jobVars, ClaimOf, Asking
  <2>2. CASE Goto(w, "waiting") /\ UNCHANGED <<live, claim, held>>
    BY <2>1, <2>2, AtJob, JobGoesOn DEF Goto, Stage, OthersStay
  <2>3. CASE /\ claim' = [claim EXCEPT ![w] = want[w]]
             /\ held' = [held EXCEPT ![w] = want[w]]
             /\ \E next \in {"prepare", "build", "decode"} : Goto(w, next)
    BY <2>1, <2>3, AtJob, JobGoesOn DEF Goto, Stage, OthersStay
  <2> QED
    BY <1>1, <2>1, <2>2, <2>3 DEF ClaimBytes
<1>2. CASE SpuriousWakeup(w)
  BY <1>2, AtJob, JobGoesOn DEF SpuriousWakeup, jobVars, Goto, Stage, OthersStay
<1>3. CASE NotifyAll(w)
  <2>1. /\ pc[w] = "notify" /\ then[w] \notin {"off", "notify"}
        /\ UNCHANGED <<callVars, mainVars, tile, verdict, slot, then, purpose,
                       claim, held, exit>>
        /\ pc' = [v \in Workers |->
                     IF v = w THEN then[w]
                     ELSE IF pc[v] = "waiting" THEN "claim" ELSE pc[v]]
    BY <1>3 DEF NotifyAll, jobVars, AdmissionInv, Claims, ClaimOf
  <2>2. Stage(w)' = Stage(w) /\ pc'[w] = then[w] /\ OthersStay(w)
    BY <2>1 DEF Stage, OthersStay
  <2>3. /\ UNCHANGED <<mode, job, plan, shared, desired>>
        /\ Jobs' = Jobs /\ First(w)' = First(w) /\ Last(w)' = Last(w)
    BY <2>1, SameChunks
  <2>4. WorkerOf(w) /\ BatchTypes /\ ClaimOf(w)
    BY DEF BatchInv, Running, AdmissionInv, Claims
  <2>5. BatchTypes' /\ SlotsStay
    BY <2>1, <2>3, <2>4 DEF BatchTypes, mainVars, SlotsStay, Workers
  <2>6. mode # "plain" /\ then[w] # "decode"
    BY <2>1, <2>4 DEF WorkerOf, ClaimOf
  <2>7. WorkerOf(w)'
    BY <2>1, <2>2, <2>3, <2>4, <2>6 DEF WorkerOf
  <2> QED
    BY <2>1, <2>2, <2>5, <2>7, WorkerGoesOn
<1>4. CASE Reconcile(w)
  <2>1. /\ pc[w] = "reconcile" /\ mode # "plain"
        /\ claim' = [claim EXCEPT ![w] = held[w]] /\ held' = held
        /\ UNCHANGED <<callVars, mainVars, tile, verdict, slot, purpose, exit>>
    BY <1>4, AtJob DEF Reconcile, jobVars
  <2>2. /\ Stage(w)' = "execute" /\ pc'[w] \in {"execute", "notify"}
        /\ OthersStay(w)
    BY <1>4, <2>1, AtJob DEF Reconcile, Goto, Stage, OthersStay
  <2> QED
    BY <2>1, <2>2, AtJob, JobGoesOn
<1>5. CASE StartPlain(w)
  <2>1. /\ pc[w] = "job" /\ tile[w] <= Last(w) /\ mode = "plain"
        /\ UNCHANGED <<callVars, mainVars, tile, verdict, slot, then, claim,
                       exit>>
        /\ held' = [held EXCEPT ![w] = Claim]
        /\ purpose' = [purpose EXCEPT ![w] = "plain"] /\ Goto(w, "decode")
    BY <1>5 DEF StartPlain, HasJob, Ask, jobVars
  <2> QED
    BY <2>1, AtJob, JobGoesOn DEF Goto, Stage, OthersStay
<1>6. CASE RefuseBuffer(w)
  <2>1. /\ pc[w] = "job" /\ tile[w] <= Last(w) /\ mode # "plain"
        /\ UNCHANGED <<callVars, mainVars, tile, slot, then, claim, held,
                       purpose, exit>>
        /\ verdict' = [verdict EXCEPT ![w] = "err"] /\ Goto(w, "record")
    BY <1>6 DEF RefuseBuffer, HasJob, After
  <2> QED
    BY <2>1, AtJob, JobGoesOn DEF Goto, Stage, OthersStay
<1>7. CASE StartShared(w)
  <2>1. /\ pc[w] = "job" /\ tile[w] <= Last(w) /\ mode # "plain"
        /\ UNCHANGED <<callVars, mainVars, tile, verdict, slot, then, claim,
                       held, exit>>
        /\ purpose' = purpose \/ purpose' = [purpose EXCEPT ![w] = "shared"]
        /\ \E next \in {"claim", "execute"} : Goto(w, next)
    BY <1>7 DEF StartShared, HasJob, Ask, jobVars
  <2> QED
    BY <2>1, AtJob, JobGoesOn DEF Goto, Stage, OthersStay
<1>8. CASE StartCached(w) \/ StartGeneric(w)
  <2>1. /\ pc[w] = "job" /\ tile[w] <= Last(w) /\ mode # "plain"
        /\ UNCHANGED <<callVars, mainVars, tile, verdict, slot, exit>>
    BY <1>8 DEF StartCached, StartGeneric, HasJob, jobVars
  <2>2. CASE Goto(w, "execute") /\ UNCHANGED <<then, purpose, claim, held>>
    BY <2>1, <2>2, AtJob, JobGoesOn DEF Goto, Stage, OthersStay
  <2>3. CASE /\ DropClaim(w, "claim") /\ Free(w)
             /\ \E why : purpose' = [purpose EXCEPT ![w] = why]
    <3>1. /\ Stage(w)' = "claim" /\ claim'[w] = 0
          /\ pc'[w] \in {"claim", "notify"}
          /\ \A v \in Workers : v # w =>
                claim'[v] = claim[v] /\ pc'[v] = pc[v] /\ then'[v] = then[v]
      BY <2>1, <2>3, StageAfterDrop
    <3>2. held'[w] = 0 /\ OthersStay(w)
      BY <2>1, <2>3, <3>1, AtJob DEF Free, OthersStay
    <3> QED
      BY <2>1, <3>1, <3>2, AtJob, JobGoesOn
  <2> QED
    BY <1>8, <2>2, <2>3 DEF StartCached, StartGeneric, Release, Ask
<1>9. CASE Build(w)
  <2>1. /\ pc[w] = "build" /\ mode # "plain"
        /\ UNCHANGED <<callVars, mainVars, tile, slot, exit>>
    BY <1>9, AtJob DEF Build
  <2>2. CASE /\ Goto(w, "prepare")
             /\ UNCHANGED <<verdict, then, purpose, claim, held>>
    BY <2>1, <2>2, AtJob, JobGoesOn DEF Goto, Stage, OthersStay
  <2>3. CASE /\ DropClaim(w, "claim") /\ Free(w) /\ UNCHANGED verdict
             /\ purpose' = [purpose EXCEPT ![w] = "generic"]
    <3>1. /\ Stage(w)' = "claim" /\ claim'[w] = 0
          /\ pc'[w] \in {"claim", "notify"}
          /\ \A v \in Workers : v # w =>
                claim'[v] = claim[v] /\ pc'[v] = pc[v] /\ then'[v] = then[v]
      BY <2>1, <2>3, StageAfterDrop
    <3>2. held'[w] = 0 /\ OthersStay(w)
      BY <2>1, <2>3, <3>1, AtJob DEF Free, OthersStay
    <3> QED
      BY <2>1, <2>3, <3>1, <3>2, AtJob, JobGoesOn
  <2>4. CASE /\ After(w, "err") /\ Free(w) /\ DropClaim(w, "record")
             /\ UNCHANGED purpose
    <3>1. /\ Stage(w)' = "record" /\ claim'[w] = 0
          /\ pc'[w] \in {"record", "notify"} /\ (claim[w] = 0 => pc'[w] = "record")
          /\ \A v \in Workers : v # w =>
                claim'[v] = claim[v] /\ pc'[v] = pc[v] /\ then'[v] = then[v]
      BY <2>1, <2>4, StageAfterDrop DEF Release
    <3>2. /\ held'[w] = 0 /\ OthersStay(w) /\ verdict'[w] \in {"ok", "err"}
          /\ verdict' \in [Workers -> {"none", "ok", "err"}]
      BY <2>1, <2>4, <3>1, AtJob DEF Free, OthersStay, After, Release
    <3> QED
      BY <2>1, <3>1, <3>2, AtJob, JobGoesOn
  <2> QED
    BY <1>9, <2>2, <2>3, <2>4 DEF Build, Ask
<1>10. CASE Prepare(w)
  <2>1. /\ pc[w] = "prepare" /\ mode # "plain" /\ claim[w] = want[w]
        /\ UNCHANGED <<callVars, mainVars, tile, slot, purpose, exit>>
    BY <1>10, AtJob DEF Prepare, ClaimOf
  <2>2. CASE /\ \E bytes \in 1..want[w] : held' = [held EXCEPT ![w] = bytes]
             /\ Goto(w, "reconcile") /\ UNCHANGED <<verdict, then, claim>>
    BY <2>1, <2>2, AtJob, JobGoesOn DEF Goto, Stage, OthersStay
  <2>3. CASE After(w, "err") /\ Free(w) /\ DropClaim(w, "record")
    <3>1. /\ Stage(w)' = "record" /\ claim'[w] = 0
          /\ pc'[w] \in {"record", "notify"} /\ (claim[w] = 0 => pc'[w] = "record")
          /\ \A v \in Workers : v # w =>
                claim'[v] = claim[v] /\ pc'[v] = pc[v] /\ then'[v] = then[v]
      BY <2>1, <2>3, StageAfterDrop DEF Release
    <3>2. /\ held'[w] = 0 /\ OthersStay(w) /\ verdict'[w] \in {"ok", "err"}
          /\ verdict' \in [Workers -> {"none", "ok", "err"}]
      BY <2>1, <2>3, <3>1, AtJob DEF Free, OthersStay, After, Release
    <3> QED
      BY <2>1, <3>1, <3>2, AtJob, JobGoesOn
  <2> QED
    BY <1>10, <2>2, <2>3 DEF Prepare
<1>11. CASE Execute(w)
  <2>1. /\ pc[w] = "execute" /\ mode # "plain"
        /\ UNCHANGED <<callVars, mainVars, tile, slot, purpose, exit>>
    BY <1>11, AtJob DEF Execute
  <2>2. CASE /\ After(w, "ok") /\ Goto(w, "record")
             /\ UNCHANGED <<then, claim, held>>
    BY <2>1, <2>2, AtJob, JobGoesOn DEF Goto, Stage, OthersStay, After
  <2>3. CASE After(w, "err") /\ Release(w, "record")
    <3>1. /\ Stage(w)' = "record" /\ claim'[w] = 0
          /\ pc'[w] \in {"record", "notify"} /\ (claim[w] = 0 => pc'[w] = "record")
          /\ \A v \in Workers : v # w =>
                claim'[v] = claim[v] /\ pc'[v] = pc[v] /\ then'[v] = then[v]
      BY <2>1, <2>3, StageAfterDrop DEF Release
    <3>2. /\ held'[w] = 0 /\ OthersStay(w) /\ verdict'[w] \in {"ok", "err"}
          /\ verdict' \in [Workers -> {"none", "ok", "err"}]
      BY <2>1, <2>3, <3>1, AtJob DEF Free, OthersStay, After, Release
    <3> QED
      BY <2>1, <3>1, <3>2, AtJob, JobGoesOn
  <2> QED
    BY <1>11, <2>2, <2>3 DEF Execute
<1>12. CASE Decode(w)
  <2>1. /\ pc[w] = "decode"
        /\ UNCHANGED <<callVars, mainVars, tile, slot, purpose, exit>>
    BY <1>12 DEF Decode
  <2>2. CASE /\ \E how \in {"ok", "err"} : After(w, how)
             /\ Goto(w, "record") /\ UNCHANGED <<then, claim, held>>
    BY <2>1, <2>2, AtJob, JobGoesOn DEF Goto, Stage, OthersStay, After
  <2>3. CASE /\ \E how \in {"ok", "err"} : After(w, how)
             /\ Free(w) /\ DropClaim(w, "record")
    <3>1. /\ Stage(w)' = "record" /\ claim'[w] = 0
          /\ pc'[w] \in {"record", "notify"} /\ (claim[w] = 0 => pc'[w] = "record")
          /\ \A v \in Workers : v # w =>
                claim'[v] = claim[v] /\ pc'[v] = pc[v] /\ then'[v] = then[v]
      BY <2>1, <2>3, StageAfterDrop DEF Release
    <3>2. /\ held'[w] = 0 /\ OthersStay(w) /\ verdict'[w] \in {"ok", "err"}
          /\ verdict' \in [Workers -> {"none", "ok", "err"}]
      BY <2>1, <2>3, <3>1, AtJob DEF Free, OthersStay, After, Release
    <3> QED
      BY <2>1, <3>1, <3>2, AtJob, JobGoesOn
  <2> QED
    BY <1>12, <2>2, <2>3 DEF Decode
<1>13. CASE Record(w)
  <2>1. /\ pc[w] = "record"
        /\ UNCHANGED <<callVars, mainVars, then, claim, held, purpose, exit>>
        /\ slot' = [slot EXCEPT ![tile[w]] = verdict[w]]
        /\ tile' = [tile EXCEPT ![w] = tile[w] + 1]
        /\ verdict' = [verdict EXCEPT ![w] = "none"]
        /\ Goto(w, "job")
    BY <1>13 DEF Record, After
  <2>2. /\ UNCHANGED <<mode, job, plan, shared, desired>>
        /\ Jobs' = Jobs /\ First(w)' = First(w) /\ Last(w)' = Last(w)
    BY <2>1, SameChunks
  <2>3. /\ WorkerOf(w) /\ ClaimOf(w) /\ BatchTypes /\ Types
        /\ First(w) \in Nat /\ Last(w) \in Nat /\ tile[w] \in Nat
        /\ claim[w] \in Nat /\ held[w] \in Nat
        /\ Claim \in Nat /\ Jobs = 1..Len(job) /\ Len(job) \in Nat
    BY <2>1, RunningWorker
  <2>4. /\ pc'[w] = "job" /\ Stage(w)' = "job" /\ Stage(w) = "record"
        /\ OthersStay(w) /\ tile'[w] = tile[w] + 1
    BY <2>1, <2>3 DEF Goto, Stage, OthersStay, Types, BatchTypes
  <2>5. tile[w] <= Last(w) /\ verdict[w] \in {"ok", "err"}
        /\ w <= plan.worker_count
        /\ exit[w] = "none" /\ First(w) <= tile[w]
    BY <2>3, <2>4 DEF WorkerOf, BatchTypes
  <2>6. \A j \in Jobs : slot'[j] = IF j = tile[w] THEN verdict[w] ELSE slot[j]
    BY <2>1, <2>3 DEF BatchTypes
  <2>7. BatchTypes' /\ SlotsStay
    <3>1. slot' \in [Jobs -> {"none", "ok", "err"}]
      BY <2>1, <2>3, <2>5 DEF BatchTypes
    <3>2. /\ tile' \in [Workers -> Nat]
          /\ verdict' \in [Workers -> {"none", "ok", "err"}]
      BY <2>1, <2>3 DEF BatchTypes
    <3> QED
      BY <2>1, <2>2, <2>3, <2>5, <2>6, <3>1, <3>2
         DEF BatchTypes, SlotsStay, mainVars, Workers
  <2>8. \A j \in Jobs : First(w) <= j /\ j < tile[w] + 1 => slot'[j] # "none"
    <3> SUFFICES ASSUME NEW j \in Jobs, First(w) <= j, j < tile[w] + 1
                 PROVE  slot'[j] # "none"
      OBVIOUS
    <3>1. j \in Nat
      BY <2>3
    <3>2. CASE j = tile[w]
      BY <2>5, <2>6, <3>2
    <3>3. CASE j < tile[w]
      BY <2>3, <2>4, <2>6, <3>1, <3>3 DEF WorkerOf
    <3> QED
      BY <2>3, <3>1, <3>2, <3>3
  <2>9. WorkerOf(w)'
    BY <2>1, <2>2, <2>3, <2>4, <2>5, <2>8 DEF WorkerOf
  <2> QED
    BY <2>1, <2>4, <2>7, <2>9, WorkerGoesOn
<1>14. CASE Finish(w)
  <2>1. /\ pc[w] = "job" /\ tile[w] > Last(w)
        /\ UNCHANGED <<callVars, mainVars, tile, verdict, slot, purpose>>
        /\ exit' = [exit EXCEPT ![w] = "ok"]
        /\ Free(w) /\ DropClaim(w, "ended")
    BY <1>14 DEF Finish, Release, jobVars
  <2>2. /\ UNCHANGED <<mode, job, plan, shared, desired>>
        /\ Jobs' = Jobs /\ First(w)' = First(w) /\ Last(w)' = Last(w)
    BY <2>1, SameChunks
  <2>3. /\ WorkerOf(w) /\ ClaimOf(w) /\ BatchTypes /\ Types
        /\ First(w) \in Nat /\ Last(w) \in Nat /\ tile[w] \in Nat
        /\ claim[w] \in Nat /\ held[w] \in Nat
        /\ Claim \in Nat /\ Jobs = 1..Len(job) /\ Len(job) \in Nat
    BY <2>1, RunningWorker
  <2>4. /\ Stage(w)' = "ended" /\ claim'[w] = 0
        /\ pc'[w] \in {"ended", "notify"} /\ (claim[w] = 0 => pc'[w] = "ended")
        /\ \A v \in Workers : v # w =>
              claim'[v] = claim[v] /\ pc'[v] = pc[v] /\ then'[v] = then[v]
    BY <2>1, StageAfterDrop
  <2>5. held'[w] = 0 /\ exit'[w] = "ok" /\ OthersStay(w)
    BY <2>1, <2>3, <2>4 DEF Free, OthersStay, Types, BatchTypes
  <2>6. BatchTypes' /\ SlotsStay
    <3>1. exit' \in [Workers -> {"none", "ok", "panic"}]
      BY <2>1, <2>3 DEF BatchTypes
    <3> QED
      BY <2>1, <2>2, <2>3, <3>1 DEF BatchTypes, SlotsStay, mainVars, Workers
  <2>7. WorkerOf(w)'
    BY <2>1, <2>2, <2>3, <2>4, <2>5 DEF WorkerOf, Stage
  <2> QED
    BY <2>1, <2>4, <2>5, <2>6, <2>7, WorkerGoesOn
<1>15. CASE Panic(w)
  <2>1. /\ pc[w] \in {"build", "prepare", "execute", "decode"}
        /\ UNCHANGED <<callVars, mainVars, tile, verdict, slot, purpose>>
        /\ exit' = [exit EXCEPT ![w] = "panic"]
        /\ held' = held \/ Free(w)
    BY <1>15 DEF Panic, Release, jobVars
  <2>2. /\ UNCHANGED <<mode, job, plan, shared, desired>>
        /\ Jobs' = Jobs /\ First(w)' = First(w) /\ Last(w)' = Last(w)
    BY <2>1, SameChunks
  <2>3. /\ WorkerOf(w) /\ ClaimOf(w) /\ BatchTypes /\ Types
        /\ First(w) \in Nat /\ Last(w) \in Nat /\ tile[w] \in Nat
        /\ claim[w] \in Nat /\ held[w] \in Nat
        /\ Claim \in Nat /\ Jobs = 1..Len(job) /\ Len(job) \in Nat
    BY <2>1, RunningWorker
  <2>4. PICK next \in {"ended", "unwind"} : DropClaim(w, next)
    BY <1>15 DEF Panic, Release
  <2>5. /\ Stage(w)' = next /\ claim'[w] = 0
        /\ pc'[w] \in {next, "notify"} /\ (claim[w] = 0 => pc'[w] = next)
        /\ \A v \in Workers : v # w =>
              claim'[v] = claim[v] /\ pc'[v] = pc[v] /\ then'[v] = then[v]
    BY <2>1, <2>4, StageAfterDrop
  <2>6. /\ exit'[w] = "panic" /\ OthersStay(w)
        /\ held'[w] = held[w] \/ held'[w] = 0
    BY <2>1, <2>3, <2>5 DEF Free, OthersStay, Types, BatchTypes
  <2>7. BatchTypes' /\ SlotsStay
    <3>1. exit' \in [Workers -> {"none", "ok", "panic"}]
      BY <2>1, <2>3 DEF BatchTypes
    <3> QED
      BY <2>1, <2>2, <2>3, <3>1 DEF BatchTypes, SlotsStay, mainVars, Workers
  <2>8. WorkerOf(w)'
    BY <2>1, <2>2, <2>3, <2>5, <2>6 DEF WorkerOf, Stage
  <2> QED
    BY <2>1, <2>5, <2>6, <2>7, <2>8, WorkerGoesOn
<1>16. CASE Unwind(w)
  <2>1. /\ pc[w] = "unwind" /\ Free(w) /\ Goto(w, "ended")
        /\ UNCHANGED <<callVars, mainVars, tile, verdict, slot, purpose, then,
                       claim, exit>>
    BY <1>16 DEF Unwind, jobVars
  <2>2. /\ UNCHANGED <<mode, job, plan, shared, desired>>
        /\ Jobs' = Jobs /\ First(w)' = First(w) /\ Last(w)' = Last(w)
    BY <2>1, SameChunks
  <2>3. /\ WorkerOf(w) /\ ClaimOf(w) /\ BatchTypes /\ Types
        /\ First(w) \in Nat /\ Last(w) \in Nat /\ tile[w] \in Nat
        /\ claim[w] \in Nat /\ held[w] \in Nat
        /\ Claim \in Nat /\ Jobs = 1..Len(job) /\ Len(job) \in Nat
    BY <2>1, RunningWorker
  <2>4. /\ pc'[w] = "ended" /\ Stage(w)' = "ended" /\ Stage(w) = "unwind"
        /\ held'[w] = 0 /\ OthersStay(w)
    BY <2>1, <2>3 DEF Goto, Free, Stage, OthersStay, Types
  <2>5. BatchTypes' /\ SlotsStay
    BY <2>1, <2>2, <2>3 DEF BatchTypes, SlotsStay, mainVars, Workers
  <2>6. WorkerOf(w)'
    BY <2>1, <2>2, <2>3, <2>4 DEF WorkerOf
  <2> QED
    BY <2>1, <2>4, <2>5, <2>6, WorkerGoesOn
<1> QED
  BY <1>1, <1>2, <1>3, <1>4, <1>5, <1>6, <1>7, <1>8, <1>9, <1>10, <1>11,
     <1>12, <1>13, <1>14, <1>15, <1>16 DEF WorkerStep

-----------------------------------------------------------------------------
(* The calling thread                                                      *)

\* A call that ends before its workers start has none that panicked.
LEMMA NothingStarted ==
    ASSUME AdmissionInv, BatchInv, main \in {"start", "plan"}
    PROVE  /\ plan = NoPlan /\ turn = 1 /\ firstError = NoError
           /\ \A w \in Workers : pc[w] = "off" /\ exit[w] = "none"
                                 /\ held[w] = 0 /\ claim[w] = 0
<1>1. plan = NoPlan /\ \A w \in Workers : pc[w] = "off"
  BY DEF AdmissionInv, Phases
<1>2. \A w \in Workers : WorkerOf(w) /\ ClaimOf(w)
  BY DEF AdmissionInv, BatchInv, Claims, Running
<1>3. turn = 1 /\ firstError = NoError
  BY DEF BatchInv, Joining
<1> QED
  BY <1>1, <1>2, <1>3 DEF WorkerOf, ClaimOf, Stage

\* The shared plan is built, not needed, or refused.
LEMMA BuildSharedKeeps ==
    ASSUME AdmissionInv, BatchInv, BuildShared
    PROVE  BatchInv'
<1>1. /\ plan = NoPlan /\ turn = 1 /\ firstError = NoError
      /\ \A w \in Workers : pc[w] = "off" /\ exit[w] = "none"
                            /\ held[w] = 0 /\ claim[w] = 0
  BY NothingStarted DEF BuildShared
<1>2. /\ UNCHANGED <<job, desired, plan, turn, firstError, pc, then, tile,
                     verdict, purpose, claim, held, exit, slot>>
      /\ mode' \in {"plain", "region", "shared", "private"}
      /\ mode' = "plain" => mode = "plain" /\ shared' = shared
      /\ \/ main' = "plan"
         \/ main' = "returned" /\ outcome' = Error("tile", 1)
  BY DEF BuildShared, Return, workerVars, BatchInv, BatchTypes
<1>3. BatchTypes'
  BY <1>2 DEF BatchInv, BatchTypes, Jobs, Workers
<1>4. Planned'
  BY <1>1, <1>2 DEF BatchInv, Planned, NoPlan, Workers
<1>5. Running'
  <2> SUFFICES ASSUME NEW w \in Workers PROVE WorkerOf(w)'
    BY DEF Running, Workers
  <2> QED
    BY <1>1, <1>2, BatchAssumption DEF WorkerOf, Stage
<1>6. Joining'
  BY <1>1, <1>2 DEF Joining, NoError, Error, Workers
<1>7. OutcomeFaithful'
  <2>1. ~ (plan'.worker_count > 0)
    BY <1>1, <1>2 DEF NoPlan
  <2> QED
    BY <1>1, <1>2, <2>1 DEF OutcomeFaithful, Error, Workers
<1> QED
  BY <1>3, <1>4, <1>5, <1>6, <1>7 DEF BatchInv

\* A plan is found or refused, and a single worker starts at once.
LEMMA PlanBatchKeeps ==
    ASSUME AdmissionInv, BatchInv, PlanBatch
    PROVE  BatchInv'
<1>1. /\ plan = NoPlan /\ turn = 1 /\ firstError = NoError
      /\ \A w \in Workers : pc[w] = "off" /\ exit[w] = "none"
                            /\ held[w] = 0 /\ claim[w] = 0
  BY NothingStarted DEF PlanBatch
<1>2. /\ main = "plan" /\ 1 \in Workers
      /\ UNCHANGED <<mode, job, desired, shared, turn, firstError, then,
                     verdict, purpose, claim, held, exit, slot>>
  BY BatchAssumption DEF PlanBatch, Workers
<1>3. CASE /\ main' = "returned" /\ outcome' = Error("infrastructure", 0)
           /\ UNCHANGED <<plan, pc, tile>>
  <2>1. BatchTypes'
    BY <1>2, <1>3 DEF BatchInv, BatchTypes, Jobs, Workers
  <2>2. Planned'
    BY <1>1, <1>2, <1>3 DEF BatchInv, Planned, NoPlan, Workers
  <2>3. Running'
    <3> SUFFICES ASSUME NEW w \in Workers PROVE WorkerOf(w)'
      BY DEF Running, Workers
    <3> QED
      BY <1>1, <1>2, <1>3, BatchAssumption DEF WorkerOf, Stage
  <2>4. Joining' /\ OutcomeFaithful'
    BY <1>1, <1>2, <1>3 DEF Joining, OutcomeFaithful, Error, Workers
  <2> QED
    BY <2>1, <2>2, <2>3, <2>4 DEF BatchInv
<1>4. CASE /\ SoundPlan'
           /\ \/ /\ plan'.worker_count = 1 /\ main' = "join"
                 /\ pc' = [pc EXCEPT ![1] = "job"]
                 /\ tile' = [tile EXCEPT ![1] = 1]
              \/ main' = "spawn" /\ UNCHANGED <<pc, tile>>
  <2>0. DOMAIN pc = Workers /\ tile \in [Workers -> Nat]
    BY DEF AdmissionInv, Types, BatchInv, BatchTypes
  <2>1. BatchTypes'
    BY <1>2, <1>4, <2>0 DEF BatchInv, BatchTypes, Jobs, Workers
  <2>2. Planned'
    <3>1. plan' # NoPlan
      BY <1>4 DEF SoundPlan, NoPlan
    <3> QED
      BY <1>2, <1>4, <3>1 DEF BatchInv, Planned, NoPlan
  <2>3. Running'
    <3> SUFFICES ASSUME NEW w \in Workers PROVE WorkerOf(w)'
      BY DEF Running, Workers
    <3>1. CASE pc'[w] = "off"
      BY <1>1, <1>2, <3>1, BatchAssumption DEF WorkerOf, Stage
    <3>2. CASE pc'[w] # "off"
      <4>1. /\ w = 1 /\ pc'[w] = "job" /\ tile'[w] = 1
            /\ plan'.worker_count = 1
        BY <1>1, <1>4, <2>0, <3>2
      <4>2. plan'.chunk_size \in Nat
        BY <1>4 DEF SoundPlan
      <4>3. First(w)' = 1
        BY <4>1, <4>2 DEF First
      <4>4. \A j \in Jobs' : j \in Nat
        BY <2>1 DEF BatchTypes, Jobs
      <4> QED
        BY <1>1, <1>2, <4>1, <4>3, <4>4, BatchAssumption DEF WorkerOf, Stage
    <3> QED
      BY <3>1, <3>2
  <2>4. Joining'
    <3>1. \A w \in Workers : w \in Nat /\ w >= 1
      BY BatchAssumption DEF Workers
    <3>2. plan'.worker_count \in Nat
      BY <1>4, BatchAssumption DEF SoundPlan, Workers
    <3>3. CASE main' = "spawn" /\ pc' = pc
      BY <1>1, <1>2, <3>1, <3>2, <3>3 DEF Joining, Workers, NoError, Error
    <3>4. CASE /\ plan'.worker_count = 1 /\ main' = "join"
               /\ pc' = [pc EXCEPT ![1] = "job"]
      <4>1. \A w \in Workers : pc'[w] # "off" <=> w = 1
        BY <1>1, <2>0, <3>4
      <4> QED
        BY <1>1, <1>2, <3>1, <3>4, <4>1 DEF Joining, Workers, NoError, Error
    <3> QED
      BY <1>4, <3>3, <3>4
  <2>5. OutcomeFaithful'
    BY <1>4 DEF OutcomeFaithful
  <2> QED
    BY <2>1, <2>2, <2>3, <2>4, <2>5 DEF BatchInv
<1>5. ASSUME Acceptable(Len(job), IF mode = "plain" THEN Claim ELSE 0,
                        IF mode = "plain" THEN MaxGeneric ELSE 2 * MaxGeneric)
                # {},
             plan' = SelectPlan(Len(job), IF mode = "plain" THEN Claim ELSE 0,
                        IF mode = "plain" THEN MaxGeneric ELSE 2 * MaxGeneric)
      PROVE  SoundPlan'
  <2> DEFINE bytes == IF mode = "plain" THEN Claim ELSE 0
  <2> DEFINE limit == IF mode = "plain" THEN MaxGeneric ELSE 2 * MaxGeneric
  <2>1. /\ limit \in Nat /\ limit <= 2 * MaxGeneric
        /\ mode = "plain" => bytes = Claim
    BY BatchAssumption
  <2>2. BatchTypes
    BY DEF BatchInv
  <2>3. /\ Acceptable(Len(job), bytes, limit) # {}
        /\ plan' = SelectPlan(Len(job), bytes, limit)
    BY <1>5
  <2> HIDE DEF bytes, limit
  <2> QED
    BY <1>2, <2>1, <2>2, <2>3, PlanIsSound
<1> QED
  BY <1>3, <1>4, <1>5 DEF PlanBatch, Return

\* A worker starts, or cannot be started, or all have been.
LEMMA SpawnKeeps ==
    ASSUME AdmissionInv, BatchInv, Spawn
    PROVE  BatchInv'
<1>1. /\ main = "spawn" /\ SoundPlan /\ plan # NoPlan /\ firstError = NoError
      /\ turn \in Nat /\ turn >= 1 /\ turn <= plan.worker_count + 1
      /\ \A w \in Workers : pc[w] # "off" <=> w < turn
      /\ plan.worker_count \in Nat /\ plan.worker_count = Chunks
      /\ plan.worker_count <= 2 * MaxGeneric /\ MaxGeneric \in Nat
      /\ DOMAIN pc = Workers /\ tile \in [Workers -> Nat]
      /\ plan.chunk_size \in Nat
  <2>1. main = "spawn"
    BY DEF Spawn
  <2>2. SoundPlan /\ firstError = NoError /\ turn >= 1
        /\ turn <= plan.worker_count + 1
        /\ \A w \in Workers : pc[w] # "off" <=> w < turn
    BY <2>1 DEF BatchInv, Planned, Joining, BatchTypes
  <2>3. plan # NoPlan /\ plan.worker_count \in 1..(2 * MaxGeneric)
        /\ plan.worker_count = Chunks /\ plan.chunk_size \in Nat
    BY <2>2 DEF SoundPlan, NoPlan, Workers
  <2> QED
    BY <2>1, <2>2, <2>3, BatchAssumption, SMTT(30) DEF AdmissionInv, Types,
      BatchInv, BatchTypes
<1>2. /\ UNCHANGED <<callVars, outcome, then, verdict, purpose, claim, held,
                     exit, slot>>
  BY DEF Spawn
<1>3. /\ UNCHANGED <<mode, job, plan, shared, desired>>
      /\ Jobs' = Jobs /\ Chunks' = Chunks
      /\ \A v : First(v)' = First(v) /\ Last(v)' = Last(v)
  BY <1>2, SameChunks
<1>4. SoundPlan'
  BY <1>1, <1>3 DEF SoundPlan, Workers, HostCap, Cap, Metadata
<1>5. Planned'
  BY <1>1, <1>3, <1>4 DEF BatchInv, Planned
<1>6. CASE /\ turn <= plan.worker_count
           /\ pc' = [pc EXCEPT ![turn] = "job"]
           /\ tile' = [tile EXCEPT ![turn] = First(turn)]
           /\ turn' = turn + 1 /\ UNCHANGED <<main, firstError>>
  <2>1. turn \in Workers /\ First(turn) \in Nat
    <3>1. (turn - 1) * plan.chunk_size \in Nat
      BY <1>1, SMTT(30)
    <3>2. First(turn) \in Nat
      BY <3>1 DEF First
    <3>3. turn \in Nat /\ turn >= 1 /\ turn <= 2 * MaxGeneric
          /\ MaxGeneric \in Nat
      BY <1>1, <1>6
    <3>4. turn \in Workers
      BY <3>3 DEF Workers
    <3> QED
      BY <3>2, <3>4
  <2>2. BatchTypes'
    BY <1>1, <1>2, <1>3, <1>6, <2>1 DEF BatchInv, BatchTypes, Workers
  <2>3. Running'
    <3> SUFFICES ASSUME NEW w \in Workers PROVE WorkerOf(w)'
      BY DEF Running, Workers
    <3>1. WorkerOf(w) /\ ClaimOf(w)
      BY DEF BatchInv, Running, AdmissionInv, Claims
    <3>2. First(w)' = First(w) /\ Last(w)' = Last(w)
      BY <1>3
    <3>3. CASE w # turn
      <4>1. pc'[w] = pc[w] /\ tile'[w] = tile[w]
        BY <1>1, <1>6, <3>3
      <4> QED
        BY <1>2, <1>3, <3>1, <3>2, <4>1 DEF WorkerOf, Stage
    <3>4. CASE w = turn
      <4>1. pc[w] = "off" /\ pc'[w] = "job" /\ tile'[w] = First(w)
        BY <1>1, <1>6, <3>4
      <4>2. \A j \in Jobs' : j \in Nat
        BY <2>2 DEF BatchTypes, Jobs
      <4>3. exit[w] = "none" /\ held[w] = 0 /\ claim[w] = 0
        BY <3>1, <4>1 DEF WorkerOf, ClaimOf, Stage
      <4> QED
        BY <1>2, <1>3, <1>6, <2>1, <3>2, <3>4, <4>1, <4>2, <4>3, CapFacts
           DEF WorkerOf, Stage
    <3> QED
      BY <3>3, <3>4
  <2>4. Joining'
    <3>1. \A w \in Workers : pc'[w] # "off" <=> w < turn'
      BY <1>1, <1>6, <2>1, BatchAssumption, SMTT(30) DEF Workers
    <3> QED
      BY <1>1, <1>3, <1>6, <3>1 DEF Joining, Workers, NoError, Error
  <2>5. OutcomeFaithful'
    BY <1>1, <1>6 DEF OutcomeFaithful
  <2> QED
    BY <1>5, <2>2, <2>3, <2>4, <2>5 DEF BatchInv
<1>7. CASE /\ \/ firstError' = Error("spawn", turn)
              \/ turn > plan.worker_count /\ firstError' = firstError
           /\ main' = "join" /\ turn' = 1 /\ UNCHANGED <<pc, tile>>
  <2>1. firstError' \in [kind : {"none", "spawn", "panicked"}, at : Nat]
    BY <1>1, <1>7 DEF Error, NoError
  <2>2. BatchTypes'
    BY <1>1, <1>2, <1>3, <1>7, <2>1 DEF BatchInv, BatchTypes, Workers
  <2>3. Running'
    <3> SUFFICES ASSUME NEW w \in Workers PROVE WorkerOf(w)'
      BY DEF Running, Workers
    <3>1. WorkerOf(w)
      BY DEF BatchInv, Running
    <3>2. First(w)' = First(w) /\ Last(w)' = Last(w)
      BY <1>3
    <3> QED
      BY <1>2, <1>3, <1>7, <3>1, <3>2 DEF WorkerOf, Stage
  <2>4. Joining'
    <3>1. \A w \in Workers : w \in Nat /\ w >= 1
      BY BatchAssumption DEF Workers
    <3>2. \A v, w \in Workers : v < w /\ pc[w] # "off" => pc[v] # "off"
      BY <1>1, <3>1
    <3>3. firstError'.kind # "spawn" =>
             firstError' = NoError
             /\ \A w \in Workers : w <= plan.worker_count => pc[w] # "off"
      BY <1>1, <1>7, <3>1 DEF Error
    <3>4. firstError'.kind # "panicked"
      BY <1>1, <1>7 DEF Error, NoError
    <3> QED
      BY <1>3, <1>7, <3>1, <3>2, <3>3, <3>4
         DEF Joining, Workers, NoError, Error
  <2>5. OutcomeFaithful'
    BY <1>7 DEF OutcomeFaithful
  <2> QED
    BY <1>5, <2>2, <2>3, <2>4, <2>5 DEF BatchInv
<1> QED
  BY <1>1, <1>6, <1>7 DEF Spawn

\* A worker is joined; a panic is noticed unless an earlier error was.
LEMMA JoinKeeps ==
    ASSUME AdmissionInv, BatchInv, Join
    PROVE  BatchInv'
<1>1. /\ main = "join" /\ turn \in Workers /\ pc[turn] = "ended"
      /\ SoundPlan /\ turn \in Nat /\ turn >= 1
      /\ turn' = turn + 1 /\ UNCHANGED <<callVars, workerVars>>
  BY BatchAssumption DEF Join, Spawned, BatchInv, Planned, BatchTypes, Workers
<1>2. /\ UNCHANGED <<mode, job, plan, shared, desired, pc, then, tile, verdict,
                     purpose, claim, held, exit, slot>>
      /\ Jobs' = Jobs /\ Chunks' = Chunks
      /\ \A v : First(v)' = First(v) /\ Last(v)' = Last(v)
  BY <1>1, SameChunks DEF workerVars
<1>3. WorkerOf(turn) /\ exit[turn] \in {"ok", "panic"} /\ Joining
      /\ turn <= plan.worker_count
  BY <1>1 DEF BatchInv, Running, WorkerOf, Stage, BatchTypes
<1>4. /\ \A w \in Workers : w \in Nat /\ w >= 1
      /\ plan.worker_count \in Nat
  BY <1>1, BatchAssumption DEF Workers, SoundPlan
<1>5. Planned'
  <2>1. SoundPlan'
    BY <1>1, <1>2 DEF SoundPlan, Workers, HostCap, Cap, Metadata
  <2> QED
    BY <1>1, <1>2, <2>1 DEF BatchInv, Planned
<1>6. Running'
  <2> SUFFICES ASSUME NEW w \in Workers PROVE WorkerOf(w)'
    BY DEF Running, Workers
  <2>1. WorkerOf(w)
    BY DEF BatchInv, Running
  <2>2. First(w)' = First(w) /\ Last(w)' = Last(w)
    BY <1>2
  <2> QED
    BY <1>2, <2>1, <2>2 DEF WorkerOf, Stage
<1>7. CASE exit[turn] = "panic" /\ plan.worker_count = 1
  <2>1. /\ main' = "returned" /\ outcome' = Error("unwound", 1)
        /\ firstError' = firstError
    BY <1>7 DEF Join, Return
  <2>2. BatchTypes'
    BY <1>1, <1>2, <2>1 DEF BatchInv, BatchTypes, Workers
  <2>3. \A w \in Workers : pc[w] \in {"off", "ended"}
    <3> SUFFICES ASSUME NEW w \in Workers, pc[w] # "off" PROVE pc[w] = "ended"
      OBVIOUS
    <3>1. WorkerOf(w) /\ ClaimOf(w)
      BY DEF BatchInv, Running, AdmissionInv, Claims
    <3>2. w <= plan.worker_count
      BY <3>1 DEF WorkerOf, ClaimOf, Stage
    <3>3. w = 1 /\ turn = 1
      BY <1>1, <1>3, <1>4, <1>7, <3>2
    <3> QED
      BY <1>1, <3>3
  <2>4. Joining' /\ OutcomeFaithful'
    BY <1>2, <2>1, <2>3 DEF Joining, OutcomeFaithful, Error, Workers
  <2> QED
    BY <1>5, <1>6, <2>2, <2>4 DEF BatchInv
<1>8. CASE ~ (exit[turn] = "panic" /\ plan.worker_count = 1)
  <2>1. /\ main' = "join"
        /\ firstError' = IF exit[turn] = "panic" /\ firstError = NoError
                         THEN Error("panicked", turn) ELSE firstError
    BY <1>1, <1>8 DEF Join
  <2>2. firstError \in [kind : {"none", "spawn", "panicked"}, at : Nat]
    BY DEF BatchInv, BatchTypes
  <2>3. BatchTypes'
    BY <1>1, <1>2, <2>1, <2>2 DEF BatchInv, BatchTypes, Workers, Error
  <2>4. CASE exit[turn] = "panic" /\ firstError = NoError
    <3>1. /\ firstError'.kind = "panicked" /\ firstError'.at = turn
          /\ firstError.kind = "none"
      BY <2>1, <2>4 DEF Error, NoError
    <3>2. /\ \A w \in Workers : w < turn => pc[w] = "ended" /\ exit[w] = "ok"
          /\ \A w \in Workers : w <= plan.worker_count => pc[w] # "off"
      BY <1>1, <1>3, <3>1 DEF Joining
    <3>3. \A v, w \in Workers : v < w /\ pc[w] # "off" => pc[v] # "off"
      BY <1>1, <1>3 DEF Joining
    <3>4. \A w \in Workers : w < turn + 1 => pc[w] = "ended"
      BY <1>1, <1>4, <3>2
    <3> QED
      BY <1>1, <1>2, <1>5, <1>6, <2>1, <2>3, <3>1, <3>2, <3>3, <3>4
         DEF BatchInv, Joining, OutcomeFaithful, Workers
  <2>5. CASE ~ (exit[turn] = "panic" /\ firstError = NoError)
    <3>1. firstError' = firstError
      BY <2>1, <2>5
    <3>2. \A w \in Workers : w < turn + 1 => w < turn \/ w = turn
      BY <1>1, <1>4
    <3>3. \A w \in Workers : w < turn + 1 => pc[w] = "ended"
      BY <1>1, <1>3, <3>2 DEF Joining
    <3>4. firstError.kind = "none" =>
             firstError = NoError
             /\ \A w \in Workers : w < turn + 1 => exit[w] = "ok"
      BY <1>1, <1>3, <2>5, <3>2 DEF Joining
    <3>5. firstError.kind = "panicked" =>
             /\ firstError.at \in Workers /\ firstError.at < turn + 1
             /\ \A w \in Workers : w < firstError.at => exit[w] = "ok"
      <4> SUFFICES ASSUME firstError.kind = "panicked"
                   PROVE  /\ firstError.at \in Workers
                          /\ firstError.at < turn + 1
                          /\ \A w \in Workers :
                                w < firstError.at => exit[w] = "ok"
        OBVIOUS
      <4>1. /\ firstError.at \in Workers /\ firstError.at < turn
            /\ \A w \in Workers : w < firstError.at => exit[w] = "ok"
        BY <1>1, <1>3 DEF Joining
      <4>2. firstError.at \in Nat /\ turn \in Nat
        BY <1>1, <1>4, <4>1
      <4>3. firstError.at < turn + 1
        BY <4>1, <4>2
      <4> QED
        BY <4>1, <4>3
    <3>6. /\ \A v, w \in Workers : v < w /\ pc[w] # "off" => pc[v] # "off"
          /\ firstError.kind # "spawn" =>
                \A w \in Workers : w <= plan.worker_count => pc[w] # "off"
      BY <1>1, <1>3 DEF Joining
    <3>7. Workers' = Workers /\ NoError' = NoError
      BY DEF Workers, NoError
    <3>8. Joining'
      BY <1>1, <1>2, <2>1, <3>1, <3>3, <3>4, <3>5, <3>6, <3>7 DEF Joining
    <3>9. OutcomeFaithful'
      BY <2>1 DEF OutcomeFaithful
    <3> QED
      BY <1>5, <1>6, <2>3, <3>8, <3>9 DEF BatchInv
  <2> QED
    BY <2>4, <2>5
<1> QED
  BY <1>7, <1>8

\* Workers that all ended well have filled every slot.
LEMMA AllWritten ==
    ASSUME BatchTypes, SoundPlan, Running,
           \A w \in Workers : w <= plan.worker_count => exit[w] = "ok"
    PROVE  \A j \in Jobs : slot[j] \in {"ok", "err"}
<1> SUFFICES ASSUME NEW j \in Jobs PROVE slot[j] \in {"ok", "err"}
  OBVIOUS
<1>1. PICK w \in Workers : w <= plan.worker_count
                           /\ First(w) <= j /\ j <= Last(w)
  BY TilesCovered
<1>2. WorkerOf(w) /\ exit[w] = "ok"
  BY <1>1 DEF Running
<1>3. Stage(w) # "off" /\ tile[w] > Last(w)
  BY <1>2 DEF WorkerOf
<1>4. /\ tile[w] \in Nat /\ j \in Nat /\ Len(job) \in Nat
      /\ w \in Int /\ plan.chunk_size \in Int
  <2>1. tile[w] \in Nat /\ j \in Nat /\ Len(job) \in Nat
    BY DEF BatchTypes, Jobs
  <2>2. w \in Int /\ plan.chunk_size \in Int
    BY BatchAssumption DEF SoundPlan, Workers
  <2> QED
    BY <2>1, <2>2
<1>5. Last(w) \in Int
  BY <1>4 DEF Last
<1>6. j < tile[w]
  BY <1>1, <1>3, <1>4, <1>5
<1> QED
  BY <1>1, <1>2, <1>3, <1>6 DEF WorkerOf, BatchTypes

\* The call returns what its workers did.
LEMMA CollectKeeps ==
    ASSUME AdmissionInv, BatchInv, Collect
    PROVE  BatchInv'
<1>1. /\ main = "join" /\ ~Spawned(turn) /\ main' = "returned"
      /\ UNCHANGED <<callVars, turn, firstError, workerVars>>
  BY DEF Collect, Return
<1>2. /\ UNCHANGED <<mode, job, plan, shared, desired, pc, then, tile, verdict,
                     purpose, claim, held, exit, slot>>
      /\ Jobs' = Jobs /\ Chunks' = Chunks
      /\ \A v : First(v)' = First(v) /\ Last(v)' = Last(v)
  BY <1>1, SameChunks DEF workerVars
<1>3. SoundPlan /\ BatchTypes /\ Running /\ Joining
      /\ turn \in Nat /\ turn >= 1
  BY <1>1 DEF BatchInv, Planned, BatchTypes, AdmissionInv, Types
<1>4. /\ \A w \in Workers : w \in Nat /\ w >= 1
      /\ plan.worker_count \in Nat
      /\ turn \notin Workers => \A w \in Workers : w < turn
  <2>1. MaxGeneric \in Nat /\ turn \in Nat /\ turn >= 1
    BY <1>3, BatchAssumption
  <2>2. /\ \A w \in Workers : w \in Nat /\ w >= 1
        /\ turn \notin Workers => \A w \in Workers : w < turn
    BY <2>1 DEF Workers
  <2>3. plan.worker_count \in Workers
    BY <1>3 DEF SoundPlan
  <2> QED
    BY <2>2, <2>3
<1>5. \A w \in Workers : IF w < turn THEN pc[w] = "ended" ELSE pc[w] = "off"
  <2> SUFFICES ASSUME NEW w \in Workers, ~ (w < turn) PROVE pc[w] = "off"
    BY <1>1, <1>3 DEF Joining
  <2>1. turn \in Workers /\ pc[turn] = "off"
    BY <1>1, <1>4 DEF Spawned
  <2>2. w = turn \/ turn < w
    BY <1>3, <1>4
  <2> QED
    BY <1>1, <1>3, <2>1, <2>2 DEF Joining
<1>6. Planned' /\ BatchTypes'
  <2>1. SoundPlan'
    BY <1>2, <1>3 DEF SoundPlan, Workers, HostCap, Cap, Metadata
  <2>2. BatchTypes'
    BY <1>1, <1>2, <1>3 DEF BatchTypes, Workers
  <2> QED
    BY <1>1, <1>2, <2>1, <2>2 DEF BatchInv, Planned, NoPlan, SoundPlan
<1>7. Running'
  <2> SUFFICES ASSUME NEW w \in Workers PROVE WorkerOf(w)'
    BY DEF Running, Workers
  <2>1. WorkerOf(w)
    BY <1>3 DEF Running
  <2>2. First(w)' = First(w) /\ Last(w)' = Last(w)
    BY <1>2
  <2> QED
    BY <1>2, <2>1, <2>2 DEF WorkerOf, Stage
<1>8. Joining'
  BY <1>1, <1>2, <1>5 DEF Joining, Workers
<1>9. OutcomeFaithful'
  <2>1. CASE firstError # NoError /\ outcome' = firstError
    <3>1. /\ firstError.kind \in {"spawn", "panicked"}
          /\ firstError.kind = "panicked" =>
                /\ firstError.at \in Workers
                /\ \A w \in Workers : w < firstError.at => exit[w] = "ok"
      BY <1>1, <1>3, <2>1 DEF Joining, BatchTypes
    <3>2. ASSUME firstError.kind = "panicked",
                 NEW w \in 1..(firstError.at - 1)
          PROVE  exit[w] = "ok"
      <4>1. firstError.at \in 1..(2 * MaxGeneric) /\ MaxGeneric \in Nat
        BY <3>1, <3>2, BatchAssumption DEF Workers
      <4>2. w \in Workers /\ w < firstError.at
        BY <4>1 DEF Workers
      <4> QED
        BY <3>1, <3>2, <4>2
    <3> QED
      BY <1>2, <2>1, <3>1, <3>2 DEF OutcomeFaithful
  <2>2. CASE firstError = NoError
    <3>1. firstError.kind = "none"
      BY <2>2 DEF NoError
    <3>2. /\ \A w \in Workers : w < turn => exit[w] = "ok"
          /\ \A w \in Workers : w <= plan.worker_count => pc[w] # "off"
      BY <1>1, <1>3, <3>1 DEF Joining
    <3>3. \A w \in Workers : exit[w] # "panic"
      <4> SUFFICES ASSUME NEW w \in Workers, ~ (w < turn)
                   PROVE  exit[w] # "panic"
        BY <3>2
      <4>1. WorkerOf(w) /\ pc[w] = "off"
        BY <1>3, <1>5 DEF Running
      <4> QED
        BY <4>1 DEF WorkerOf, Stage
    <3>4. \A j \in Jobs : slot[j] \in {"ok", "err"}
      BY <1>3, <1>5, <3>2, AllWritten
    <3>5. CASE outcome' = Error("infrastructure", 0)
      BY <1>2, <3>3, <3>5 DEF OutcomeFaithful, Error, Workers
    <3>6. CASE outcome' = Collected
      <4>1. Unwritten = {}
        BY <3>4 DEF Unwritten
      <4>2. CASE Failed = {}
        <5>1. outcome'.kind = "ok" /\ \A j \in Jobs : slot[j] = "ok"
          BY <3>4, <3>6, <4>1, <4>2 DEF Collected, Error, Failed
        <5> QED
          BY <1>2, <3>3, <5>1 DEF OutcomeFaithful, Workers
      <4>3. CASE Failed # {}
        <5>1. outcome'.kind = "tile" /\ outcome'.at = Least(Failed)
          BY <3>6, <4>3 DEF Collected, Error
        <5>2. Jobs = 1..Len(job) /\ Len(job) \in Nat /\ Failed \subseteq Nat
          BY <1>3 DEF BatchTypes, Jobs, Failed
        <5>3. /\ Least(Failed) \in Failed
              /\ \A j \in Failed : Least(Failed) <= j
          BY <4>3, <5>2, LeastExists DEF Least
        <5>4. Least(Failed) \in Jobs /\ slot[Least(Failed)] = "err"
          BY <5>3 DEF Failed
        <5>5. ASSUME NEW j \in 1..(Least(Failed) - 1) PROVE slot[j] = "ok"
          <6>1. j \in Jobs /\ ~ (Least(Failed) <= j)
            BY <5>2, <5>4
          <6> QED
            BY <3>4, <5>3, <6>1 DEF Failed
        <5> QED
          BY <1>2, <3>3, <3>4, <5>1, <5>4, <5>5 DEF OutcomeFaithful, Workers
      <4> QED
        BY <4>2, <4>3
    <3> QED
      BY <2>2, <3>5, <3>6 DEF Collect, Return
  <2> QED
    BY <2>1, <2>2 DEF Collect, Return
<1> QED
  BY <1>6, <1>7, <1>8, <1>9 DEF BatchInv

\* Before the call no worker runs and no slot is written.
LEMMA InitBatch == Init => BatchInv
<1> SUFFICES ASSUME Init PROVE BatchInv
  OBVIOUS
<1>1. BatchTypes
  <2>1. PICK n \in 1..MaxJobs : job \in [1..n -> Keys \cup {NoKey}]
    BY DEF Init
  <2>2. n \in Nat /\ n >= 1
    BY <2>1, BatchAssumption
  <2>3. job \in Seq(Keys \cup {NoKey}) /\ Len(job) = n
    BY <2>1, <2>2
  <2>4. desired \in Nat
    BY BatchAssumption DEF Init
  <2> QED
    BY <2>2, <2>3, <2>4 DEF Init, BatchTypes, NoError, Jobs
<1>2. Planned /\ Joining /\ OutcomeFaithful
  BY DEF Init, Planned, Joining, OutcomeFaithful, NoPlan, NoError
<1>3. Running
  BY BatchAssumption DEF Init, Running, WorkerOf, Stage
<1> QED
  BY <1>1, <1>2, <1>3 DEF BatchInv

\* The invariant of the call holds throughout.
THEOREM BatchInvariant == Spec => [](AdmissionInv /\ BatchInv)
<1>1. AdmissionInv /\ BatchInv /\ [Next]_vars => BatchInv'
  <2> SUFFICES ASSUME AdmissionInv, BatchInv, [Next]_vars PROVE BatchInv'
    OBVIOUS
  <2>1. CASE MainStep
    BY <2>1, BuildSharedKeeps, PlanBatchKeeps, SpawnKeeps, JoinKeeps,
       CollectKeeps DEF MainStep
  <2>2. ASSUME NEW w \in Workers, WorkerStep(w) \/ SpuriousWakeup(w)
        PROVE  BatchInv'
    BY <2>2, WorkerKeepsBatch
  <2>3. CASE UNCHANGED vars
    <3>1. UNCHANGED <<mode, job, desired, plan, shared, main, turn, firstError,
                      outcome, pc, then, tile, verdict, purpose, claim, held,
                      exit, slot>>
      BY <2>3 DEF vars
    <3>2. BatchTypes' /\ Joining' /\ OutcomeFaithful'
      BY <3>1 DEF BatchInv, BatchTypes, Jobs, Joining, OutcomeFaithful, Workers,
                  NoError, Error
    <3>3. /\ UNCHANGED callVars
          /\ \A v : First(v)' = First(v) /\ Last(v)' = Last(v)
          /\ Jobs' = Jobs /\ Chunks' = Chunks
      BY <3>1, SameChunks DEF callVars
    <3>4. Planned'
      BY <3>1, <3>3 DEF BatchInv, Planned, SoundPlan, Workers, HostCap, Cap,
                        Metadata, NoPlan
    <3>5. Running'
      <4> SUFFICES ASSUME NEW w \in Workers PROVE WorkerOf(w)'
        BY DEF Running, Workers
      <4>1. WorkerOf(w)
        BY DEF BatchInv, Running
      <4>2. First(w)' = First(w) /\ Last(w)' = Last(w)
        BY <3>3
      <4> QED
        BY <3>1, <3>3, <4>1, <4>2 DEF WorkerOf, Stage
    <3> QED
      BY <3>2, <3>4, <3>5 DEF BatchInv
  <2> QED
    BY <2>1, <2>2, <2>3 DEF Next, Done
<1> QED
  BY InitBatch, <1>1, AdmissionInvariant, PTL DEF Spec

\* Workers that hold at most n bytes each, and nothing beyond worker k.
LEMMA TotalOfWorkers ==
    ASSUME NEW f \in [Workers -> Nat], NEW k \in Workers, NEW n \in Nat,
           NEW cap \in Nat,
           \A w \in Workers : f[w] <= (IF w <= k THEN n ELSE 0)
    PROVE  Total(f, cap) \in Nat /\ Total(f, cap) <= k * n
<1> DEFINE T == (1..k) \X (1..n)
<1>1. k \in Nat /\ IsFiniteSet(Workers) /\ \A w \in Workers : w \in Nat /\ w >= 1
  BY CapFacts, BatchAssumption DEF Workers
<1>2. Total(f, cap) \in Nat
  BY <1>1, TotalType
<1>3. Tokens(f, cap) \in SUBSET T
  <2> SUFFICES ASSUME NEW t \in Tokens(f, cap) PROVE t \in T
    OBVIOUS
  <2>1. /\ t \in Workers \X (1..cap) /\ t[1] \in Workers /\ t[2] \in 1..cap
        /\ t[2] <= f[t[1]] /\ t = <<t[1], t[2]>>
    BY DEF Tokens
  <2>2. f[t[1]] \in Nat /\ f[t[1]] <= (IF t[1] <= k THEN n ELSE 0)
    BY <2>1
  <2>3. t[1] \in Nat /\ t[1] >= 1 /\ t[2] \in Nat /\ t[2] >= 1
    <3>1. t[1] \in Nat /\ t[1] >= 1
      BY <1>1, <2>1, Zenon
    <3>2. t[2] \in Nat /\ t[2] >= 1
      <4>1. t[2] \in 1..cap
        BY <2>1
      <4> QED
        BY <4>1
    <3> QED
      BY <3>1, <3>2
  <2>4. t[1] <= k
    BY <2>1, <2>2, <2>3
  <2>5. t[1] \in 1..k /\ t[2] \in 1..n
    BY <1>1, <2>1, <2>2, <2>3, <2>4
  <2> QED
    BY <2>1, <2>5
<1>4. /\ IsFiniteSet(1..k) /\ Cardinality(1..k) = k
      /\ IsFiniteSet(1..n) /\ Cardinality(1..n) = n
  BY <1>1, FS_Interval, SMT
<1>5. IsFiniteSet(T) /\ Cardinality(T) = k * n
  <2>1. IsFiniteSet(T) /\ Cardinality(T) = Cardinality(1..k) * Cardinality(1..n)
    BY <1>4, FS_Product
  <2> QED
    BY <1>4, <2>1
<1>6. Cardinality(Tokens(f, cap)) <= Cardinality(T)
  BY <1>3, <1>5, FS_Subset
<1> QED
  BY <1>2, <1>5, <1>6 DEF Total

\* What the workers hold was admitted, and fits the host cap with the metadata.
LEMMA HeldIsAdmitted == ASSUME AdmissionInv, BatchInv PROVE MemoryAdmitted
<1> DEFINE steady == [w \in Workers |-> IF pc[w] = "unwind" \/ exit[w] = "panic"
                                        THEN 0 ELSE held[w]]
<1>1. /\ Types /\ BatchTypes /\ Cap \in Nat /\ Claim \in Nat
      /\ IsFiniteSet(Workers) /\ shared \in Nat /\ live \in 0..Cap
      /\ \A w \in Workers : WorkerOf(w) /\ ClaimOf(w)
  BY CapFacts DEF AdmissionInv, BatchInv, Running, Claims, Types
<1>2. /\ held \in [Workers -> 0..Cap] /\ claim \in [Workers -> 0..Cap]
      /\ claim \in [Workers -> Nat]
  BY <1>1 DEF Types
<1>3. steady \in [Workers -> Nat]
  BY <1>1, <1>2
<1>4. mode # "plain" => \A w \in Workers : steady[w] <= claim[w]
  BY <1>1, <1>2 DEF WorkerOf
<1>5. ASSUME plan.worker_count > 0
      PROVE  shared + Total(steady, Cap)
                + Metadata(Len(job), plan.worker_count) <= HostCap
  <2>1. plan # NoPlan
    BY <1>5 DEF NoPlan
  <2>2. SoundPlan /\ Booked
    BY <2>1 DEF BatchInv, Planned, AdmissionInv, Phases
  <2>3. /\ Metadata(Len(job), plan.worker_count) \in Nat
        /\ Metadata(Len(job), plan.worker_count) <= MetadataCap
        /\ MetadataCap \in Nat /\ HostCap = Cap + MetadataCap
    BY <2>2, BatchAssumption DEF SoundPlan, HostCap
  <2>4. Total(steady, Cap) \in Nat /\ Total(claim, Cap) \in Nat
    BY <1>1, <1>2, <1>3, TotalType
  <2>5. CASE mode # "plain"
    <3>1. Total(steady, Cap) <= Total(claim, Cap)
      <4>1. \A w \in Workers : steady[w] <= claim[w]
        BY <1>4, <2>5
      <4> HIDE DEF steady
      <4> QED
        BY <1>1, <1>2, <1>3, <4>1, TotalMonotone
    <3>2. live = shared + Total(claim, Cap)
      BY <2>2 DEF Booked
    <3> HIDE DEF steady
    <3> QED
      BY <1>1, <2>3, <2>4, <3>1, <3>2
  <2>6. CASE mode = "plain"
    <3>1. shared = 0 /\ plan.worker_count \in Workers
          /\ plan.worker_count * Claim
                + Metadata(Len(job), plan.worker_count) <= HostCap
      BY <2>2, <2>6 DEF BatchInv, Planned, SoundPlan
    <3>2. \A w \in Workers :
             steady[w] <= (IF w <= plan.worker_count THEN Claim ELSE 0)
      <4> SUFFICES ASSUME NEW w \in Workers
                   PROVE  held[w] <= (IF w <= plan.worker_count THEN Claim ELSE 0)
        BY <1>1
      <4>1. WorkerOf(w)
        BY <1>1
      <4>2. held[w] <= Claim /\ pc[w] # "notify"
        BY <2>6, <4>1 DEF WorkerOf
      <4>3. ~ (w <= plan.worker_count) => held[w] = 0
        BY <4>1, <4>2 DEF WorkerOf, Stage
      <4> QED
        BY <1>1, <4>2, <4>3
    <3> HIDE DEF steady
    <3>3. Total(steady, Cap) <= plan.worker_count * Claim
      BY <1>1, <1>3, <3>1, <3>2, TotalOfWorkers
    <3>4. plan.worker_count * Claim \in Int
      <4>1. plan.worker_count \in Nat
        BY <3>1, BatchAssumption DEF Workers
      <4> QED
        BY <1>1, <4>1
    <3> QED
      BY <2>3, <2>4, <3>1, <3>3, <3>4
  <2> QED
    BY <2>5, <2>6
<1> QED
  BY <1>4, <1>5 DEF MemoryAdmitted

\* The decode memory of all workers and the metadata of the batch fit the host
\* cap, and a worker under admission owns no more than its claim, for every
\* number of tiles and workers and every size of a claim.
THEOREM MemoryIsAdmitted == Spec => []MemoryAdmitted
<1>1. AdmissionInv /\ BatchInv => MemoryAdmitted
  BY HeldIsAdmitted
<1> QED
  BY <1>1, BatchInvariant, PTL

\* What decode_batch and its siblings return is what their workers did: the
\* first failing tile, or Ok for a whole batch, and never in place of a panic.
THEOREM OutcomesAreFaithful == Spec => []OutcomeFaithful
<1>1. BatchInv => OutcomeFaithful
  BY DEF BatchInv
<1> QED
  BY <1>1, BatchInvariant, PTL

-----------------------------------------------------------------------------
(* The persistent JPEG session: its inductive invariant                    *)

\* A slot, and how a chunk may end.
Slot == [ctx : 0..CodecCap, pool : 0..CodecCap, poisoned : {"no", "yes"}]
Ends == {"ok", "refused", "panicked"}

\* The types of the variables the properties speak of.
JpegTypes ==
    /\ slots \in Seq(Slot)
    /\ workers \in 0..Available
    /\ phase \in {"idle", "planning", "prepare", "run"}
    /\ tiles \in Calls \cup {<<>>}
    /\ DOMAIN result = DOMAIN tiles
    /\ \A j \in DOMAIN tiles : result[j] \in {"none", "ok", "err"}
    /\ spawnFailed \in Nat
    /\ panicked \in {"no", "yes"}

\* What decoding a tile comes to.
Verdict(j) == IF tiles[j].nature = "good" THEN "ok" ELSE "err"

\* A regular batch with a bad header is not decoded.
HeadersChecked == kind = "regular" /\ phase \in {"prepare", "run"} => BadHeaders = {}

\* A batch that is being planned has a sound session and nothing done.
Untouched ==
    phase \in {"planning", "prepare"} =>
        /\ tiles # <<>> /\ chunk = <<>> /\ spawnFailed = 0
        /\ \A j \in DOMAIN tiles : result[j] = "none"
        /\ panicked = "no" /\ Poisoned(slots) = {}

\* What the slot of a chunk retains and may still come to hold.
Load == [c \in DOMAIN slots |->
            Retained(slots[c]) +
            IF chunk[c] \in {"pending", "running"}
            THEN Operation(batchPlan.chunk_size, c) ELSE 0]

\* A batch that is being decoded: one slot to a chunk, chunks that cover the
\* tiles, memory for all of them; a chunk that ended well has decoded its tiles
\* and one was left out only for a reason.
Decoded ==
    LET n == batchPlan.worker_count
        size == batchPlan.chunk_size
    IN  phase = "run" =>
        /\ tiles # <<>> /\ size \in Nat \ {0} /\ n = DivCeil(Len(tiles), size)
        /\ Len(slots) = n
        /\ chunk \in [1..n -> Ends \cup {"pending", "running", "skipped"}]
        /\ Sum(Load) <= CodecCap
        /\ panicked = "yes" <=> Poisoned(slots) # {}
        /\ \A j \in DOMAIN tiles : result[j] \in {"none", Verdict(j)}
        /\ \A c \in 1..n :
              /\ chunk[c] \in {"pending", "running"} => slots[c].poisoned = "no"
              /\ chunk[c] = "ok" =>
                    \A j \in ChunkOf(size, c) : result[j] = Verdict(j)
              /\ chunk[c] = "skipped" => FailedChunks # {} \/ spawnFailed # 0

\* The inductive invariant of a session.
JpegInv ==
    /\ JpegTypes /\ HeadersChecked /\ Untouched /\ Decoded
    /\ CodecWithinCap /\ PoisonUntilReset /\ AnswerFaithful

-----------------------------------------------------------------------------
(* Slots and sums                                                          *)

\* The constants are numbers.
LEMMA SessionNumbers ==
    /\ CodecCap \in Nat /\ 2 * CodecCap \in Nat /\ Available \in Nat \ {0}
    /\ CodecCap <= 2 * CodecCap
  BY SessionAssumption

\* The least element of a set of numbers is in it.
LEMMA MinIsLeast ==
    ASSUME NEW S, S \subseteq Nat, S # {}
    PROVE  Min(S) \in S /\ \A x \in S : Min(S) <= x
  BY LeastExists DEF Min

\* The greatest element of a bounded set of numbers is in it.
LEMMA MaxIsGreatest ==
    ASSUME NEW S, S \subseteq Nat, S # {}, NEW n \in Nat, \A x \in S : x <= n
    PROVE  Max(S) \in S /\ \A x \in S : x <= Max(S)
  BY GreatestExists DEF Max

\* The least element is determined by the set.
LEMMA MinIs ==
    ASSUME NEW S, S \subseteq Nat, NEW x \in S, \A y \in S : x <= y
    PROVE  Min(S) = x
<1>1. Min(S) \in S /\ \A y \in S : Min(S) <= y
  BY MinIsLeast
<1>2. Min(S) \in Nat /\ x \in Nat /\ Min(S) <= x /\ x <= Min(S)
  BY <1>1
<1> QED
  BY <1>2

\* A sequence of slots, as a function.
LEMMA SlotsAreFunctions ==
    ASSUME NEW ss \in Seq(Slot)
    PROVE  /\ Len(ss) \in Nat /\ DOMAIN ss = 1..Len(ss)
           /\ IsFiniteSet(DOMAIN ss)
           /\ \A i \in DOMAIN ss :
                 /\ ss[i] \in Slot /\ Retained(ss[i]) \in 0..(2 * CodecCap)
                 /\ Retained(ss[i]) = ss[i].ctx + ss[i].pool
           /\ [i \in DOMAIN ss |-> Retained(ss[i])]
                 \in [DOMAIN ss -> 0..(2 * CodecCap)]
           /\ RetainedTotal(ss) \in Nat
<1>1. Len(ss) \in Nat /\ DOMAIN ss = 1..Len(ss)
  OBVIOUS
<1>2. IsFiniteSet(DOMAIN ss)
  BY <1>1, FS_Interval
<1>3. \A i \in DOMAIN ss : ss[i] \in Slot
  BY <1>1
<1>4. \A i \in DOMAIN ss : /\ Retained(ss[i]) \in 0..(2 * CodecCap)
                           /\ Retained(ss[i]) = ss[i].ctx + ss[i].pool
  BY <1>3, SessionNumbers DEF Slot, Retained
<1> DEFINE f == [i \in DOMAIN ss |-> Retained(ss[i])]
<1>5. f \in [DOMAIN ss -> 0..(2 * CodecCap)]
  BY <1>4
<1>6. f \in [DOMAIN ss -> Nat]
  BY <1>5
<1>7. Total(f, 2 * CodecCap) \in Nat
  BY <1>2, <1>6, SessionNumbers, TotalType
<1> QED
  BY <1>1, <1>2, <1>3, <1>4, <1>5, <1>7 DEF RetainedTotal, Sum

\* Slots that are fewer and retain less retain less in all.
LEMMA RetainedShrinks ==
    ASSUME NEW ss \in Seq(Slot), NEW tt \in Seq(Slot), Len(tt) <= Len(ss),
           \A i \in DOMAIN tt : Retained(tt[i]) <= Retained(ss[i])
    PROVE  RetainedTotal(tt) <= RetainedTotal(ss)
<1> DEFINE f == [i \in DOMAIN ss |-> Retained(ss[i])]
<1> DEFINE h == [i \in DOMAIN tt |-> Retained(tt[i])]
<1>1. /\ IsFiniteSet(DOMAIN ss) /\ DOMAIN tt \subseteq DOMAIN ss
      /\ f \in [DOMAIN ss -> 0..(2 * CodecCap)]
      /\ h \in [DOMAIN tt -> 0..(2 * CodecCap)]
  BY SlotsAreFunctions
<1>2. f \in [DOMAIN ss -> Nat] /\ h \in [DOMAIN tt -> Nat]
  BY <1>1
<1>3. \A i \in DOMAIN tt : h[i] <= f[i]
  BY <1>1
<1> HIDE DEF f, h
<1>4. Total(h, 2 * CodecCap) <= Total(f, 2 * CodecCap)
  BY <1>1, <1>2, <1>3, SessionNumbers, TotalSubset
<1> QED
  BY <1>4 DEF RetainedTotal, Sum, f, h

\* Slots that retain nothing, but for a context of the first, keep to the cap.
LEMMA RetainedFirst ==
    ASSUME NEW ss \in Seq(Slot),
           \A i \in DOMAIN ss : ss[i].pool = 0 /\ (i # 1 => ss[i].ctx = 0)
    PROVE  RetainedTotal(ss) <= CodecCap
<1> DEFINE f == [i \in DOMAIN ss |-> Retained(ss[i])]
<1>1. /\ IsFiniteSet(DOMAIN ss) /\ DOMAIN ss = 1..Len(ss) /\ Len(ss) \in Nat
      /\ f \in [DOMAIN ss -> 0..(2 * CodecCap)]
  BY SlotsAreFunctions
<1>2. \A i \in DOMAIN ss : f[i] <= CodecCap /\ (i # 1 => f[i] = 0)
  <2> SUFFICES ASSUME NEW i \in DOMAIN ss
               PROVE  f[i] <= CodecCap /\ (i # 1 => f[i] = 0)
    OBVIOUS
  <2>1. ss[i].ctx \in 0..CodecCap /\ f[i] = ss[i].ctx + ss[i].pool
    BY SlotsAreFunctions DEF Slot
  <2>2. ss[i].pool = 0 /\ (i # 1 => ss[i].ctx = 0)
    OBVIOUS
  <2> QED
    BY <2>1, <2>2, SessionNumbers
<1>0. RetainedTotal(ss) = Total(f, 2 * CodecCap)
  BY DEF RetainedTotal, Sum
<1> HIDE DEF f
<1>3. CASE Len(ss) = 0
  <2>1. f \in [DOMAIN ss -> {0}]
    BY <1>1, <1>3
  <2>2. Total(f, 2 * CodecCap) = 0
    BY <2>1, SessionNumbers, TotalZero
  <2> QED
    BY <1>0, <2>2, SessionNumbers
<1>4. CASE Len(ss) # 0
  <2>1. 1 \in DOMAIN ss
    BY <1>1, <1>4
  <2>2. Total(f, 2 * CodecCap) = f[1]
    <3>1. \A y \in DOMAIN ss \ {1} : f[y] = 0
      BY <1>2
    <3>2. \A x \in DOMAIN ss : (\A y \in DOMAIN ss \ {x} : f[y] = 0)
             => Total(f, 2 * CodecCap) = f[x]
      <4> DEFINE S == DOMAIN ss
      <4> DEFINE cap == 2 * CodecCap
      <4>1. IsFiniteSet(S) /\ cap \in Nat /\ f \in [S -> 0..cap]
        BY <1>1, SessionNumbers
      <4> HIDE DEF S, cap
      <4>2. \A x \in S : (\A y \in S \ {x} : f[y] = 0) => Total(f, cap) = f[x]
        BY <4>1, TotalSingle
      <4> QED
        BY <4>2 DEF S, cap
    <3> QED
      BY <2>1, <3>1, <3>2
  <2> QED
    BY <1>0, <1>2, <2>1, <2>2
<1> QED
  BY <1>3, <1>4

\* A session that may be used: within the cap and not poisoned.
Sound(ss) ==
    ss \in Seq(Slot) /\ RetainedTotal(ss) <= CodecCap /\ Poisoned(ss) = {}

\* No slots are sound.
LEMMA SoundEmpty == Sound(<<>>)
<1>1. <<>> \in Seq(Slot)
  OBVIOUS
<1>2. \A i \in DOMAIN <<>> : FALSE
  OBVIOUS
<1>3. \A ss \in Seq(Slot) :
          (\A i \in DOMAIN ss : ss[i].pool = 0 /\ (i # 1 => ss[i].ctx = 0))
             => RetainedTotal(ss) <= CodecCap
  BY RetainedFirst
<1>4. RetainedTotal(<<>>) <= CodecCap
  BY <1>1, <1>2, <1>3
<1> QED
  BY <1>1, <1>2, <1>4 DEF Sound, Poisoned

\* Releasing and evicting a slot.
LEMMA SlotReleased ==
    ASSUME NEW s \in Slot
    PROVE  /\ Released(s) \in Slot
           /\ Released(s).ctx = 0 /\ Released(s).pool = 0
           /\ Released(s).poisoned = s.poisoned
<1>1. Released(s) = [[s EXCEPT !.ctx = 0] EXCEPT !.pool = 0]
  BY DEF Released
<1>2. [s EXCEPT !.ctx = 0] \in Slot
  BY SessionNumbers DEF Slot
<1>3. [[s EXCEPT !.ctx = 0] EXCEPT !.pool = 0] \in Slot
  BY <1>2, SessionNumbers DEF Slot
<1>4. /\ Released(s).ctx = 0 /\ Released(s).pool = 0
      /\ Released(s).poisoned = s.poisoned
  BY DEF Released, Slot
<1> QED
  BY <1>1, <1>3, <1>4

\* Slots of which each retains no more than before.
LEMMA SlotsLighter ==
    ASSUME NEW ss \in Seq(Slot), NEW tt, tt = [i \in DOMAIN ss |-> tt[i]],
           \A i \in DOMAIN ss : tt[i] \in Slot /\ Retained(tt[i]) <= Retained(ss[i])
    PROVE  /\ tt \in Seq(Slot) /\ Len(tt) = Len(ss) /\ DOMAIN tt = DOMAIN ss
           /\ RetainedTotal(tt) <= RetainedTotal(ss)
<1>1. DOMAIN ss = 1..Len(ss) /\ Len(ss) \in Nat
  OBVIOUS
<1>2. tt \in Seq(Slot) /\ Len(tt) = Len(ss) /\ DOMAIN tt = DOMAIN ss
  BY <1>1
<1>3. RetainedTotal(tt) <= RetainedTotal(ss)
  BY <1>1, <1>2, RetainedShrinks
<1> QED
  BY <1>2, <1>3

\* release_worker_allocations leaves sound slots.
LEMMA SoundReleased ==
    ASSUME NEW ss, Sound(ss)
    PROVE  Sound(ReleasedAll(ss)) /\ Len(ReleasedAll(ss)) = Len(ss)
<1> DEFINE tt == ReleasedAll(ss)
<1>1. ss \in Seq(Slot) /\ DOMAIN ss = 1..Len(ss) /\ Len(ss) \in Nat
      /\ \A i \in DOMAIN ss : ss[i] \in Slot
  BY SlotsAreFunctions DEF Sound
<1>2. \A i \in DOMAIN ss : /\ Released(ss[i]) \in Slot
                           /\ Released(ss[i]).ctx = 0 /\ Released(ss[i]).pool = 0
                           /\ Released(ss[i]).poisoned = ss[i].poisoned
  BY <1>1, SlotReleased
<1>3. /\ tt \in Seq(Slot) /\ Len(tt) = Len(ss) /\ DOMAIN tt = DOMAIN ss
      /\ \A i \in DOMAIN ss : tt[i] = Released(ss[i])
  BY <1>1, <1>2 DEF ReleasedAll
<1> HIDE DEF tt
<1>4. RetainedTotal(tt) <= CodecCap
  BY <1>2, <1>3, RetainedFirst
<1>5. Poisoned(tt) = {}
  BY <1>2, <1>3 DEF Poisoned, Sound
<1> QED
  BY <1>3, <1>4, <1>5 DEF Sound, tt

\* Dropping the last slots keeps the others sound.
LEMMA SoundPrefix ==
    ASSUME NEW ss, Sound(ss), NEW n \in Nat, n <= Len(ss)
    PROVE  /\ Sound(SubSeq(ss, 1, n)) /\ Len(SubSeq(ss, 1, n)) = n
           /\ \A i \in 1..n : SubSeq(ss, 1, n)[i] = ss[i]
<1> DEFINE tt == SubSeq(ss, 1, n)
<1>1. ss \in Seq(Slot) /\ DOMAIN ss = 1..Len(ss) /\ Len(ss) \in Nat
      /\ \A i \in DOMAIN ss : ss[i] \in Slot /\ Retained(ss[i]) \in Nat
  BY SlotsAreFunctions DEF Sound
<1>2. tt \in Seq(Slot) /\ Len(tt) = n /\ DOMAIN tt = 1..n
      /\ \A i \in 1..n : tt[i] = ss[i]
  BY <1>1
<1> HIDE DEF tt
<1>3. RetainedTotal(tt) <= RetainedTotal(ss)
  BY <1>1, <1>2, RetainedShrinks
<1>4. RetainedTotal(tt) <= CodecCap
  BY <1>1, <1>2, <1>3, SlotsAreFunctions, SessionNumbers DEF Sound
<1>5. Poisoned(tt) = {}
  BY <1>1, <1>2 DEF Poisoned, Sound
<1> QED
  BY <1>2, <1>4, <1>5 DEF Sound, tt

\* A slot that was never used is sound.
LEMMA SoundFresh ==
    ASSUME NEW n \in Nat
    PROVE  /\ Sound([i \in 1..n |-> Fresh])
           /\ Len([i \in 1..n |-> Fresh]) = n
<1> DEFINE tt == [i \in 1..n |-> Fresh]
<1>1. Fresh \in Slot /\ Fresh.ctx = 0 /\ Fresh.pool = 0 /\ Fresh.poisoned = "no"
  BY SessionNumbers DEF Fresh, Slot
<1>2. tt \in Seq(Slot) /\ Len(tt) = n /\ DOMAIN tt = 1..n
      /\ \A i \in 1..n : tt[i] = Fresh
  BY <1>1
<1> HIDE DEF tt
<1>3. RetainedTotal(tt) <= CodecCap
  BY <1>1, <1>2, RetainedFirst
<1> QED
  BY <1>1, <1>2, <1>3 DEF Sound, Poisoned, tt

-----------------------------------------------------------------------------
(* Plans                                                                   *)

\* A call is a sequence of tiles.
LEMMA TilesTyped ==
    ASSUME tiles \in Calls \cup {<<>>}
    PROVE  /\ Len(tiles) \in Nat /\ DOMAIN tiles = 1..Len(tiles)
           /\ tiles # <<>> => Len(tiles) # 0
           /\ \A j \in DOMAIN tiles :
                 /\ TileClaim(tiles[j]) \in 0..CodecCap
                 /\ tiles[j].nature \in {"good", "bad_header", "bad_data"}
<1> DEFINE Tile == [nature : {"good", "bad_header", "bad_data"}, bytes : 1..CodecCap]
<1>0. Calls \subseteq Seq(Tile)
  BY SessionAssumption
<1>3. \A t \in Tile : /\ TileClaim(t) \in 0..CodecCap
                      /\ t.nature \in {"good", "bad_header", "bad_data"}
  BY SessionNumbers DEF TileClaim
<1> HIDE DEF Tile
<1>1. tiles \in Seq(Tile)
  <2>1. <<>> \in Seq(Tile)
    OBVIOUS
  <2>2. CASE tiles = <<>>
    BY <2>1, <2>2
  <2>3. CASE tiles \in Calls
    BY <1>0, <2>3
  <2> QED
    BY <2>2, <2>3
<1>2. \A j \in DOMAIN tiles : tiles[j] \in Tile
  BY <1>1
<1>4. /\ Len(tiles) \in Nat /\ DOMAIN tiles = 1..Len(tiles)
      /\ tiles # <<>> => Len(tiles) # 0
  BY <1>1
<1> QED
  BY <1>2, <1>3, <1>4

\* A chunk has a tile and its operation is the claim of one of them.
LEMMA OperationBound ==
    ASSUME tiles \in Calls \cup {<<>>}, NEW size \in Nat \ {0},
           NEW c \in 1..DivCeil(Len(tiles), size)
    PROVE  Operation(size, c) \in 0..CodecCap
<1>1. /\ Len(tiles) \in Nat /\ DOMAIN tiles = 1..Len(tiles)
      /\ \A j \in DOMAIN tiles : TileClaim(tiles[j]) \in 0..CodecCap
  BY TilesTyped
<1>2. DivCeil(Len(tiles), size) \in Nat
  BY <1>1, Ceiling
<1>3. c \in Nat /\ (c - 1) * size \in Nat /\ (c - 1) * size < Len(tiles)
  BY <1>1, <1>2, CutStarts
<1>4. c * size = (c - 1) * size + size
  BY <1>3
<1>5. (c - 1) * size + 1 \in ChunkOf(size, c)
  <2> DEFINE x == (c - 1) * size
  <2> HIDE DEF x
  <2>1. x + 1 \in 1..Len(tiles) /\ x < x + 1 /\ x + 1 <= x + size
    BY <1>1, <1>3 DEF x
  <2> QED
    BY <1>1, <1>4, <2>1 DEF x, ChunkOf
<1> DEFINE S == {TileClaim(tiles[j]) : j \in ChunkOf(size, c)}
<1>6. S # {} /\ S \subseteq 0..CodecCap
  BY <1>1, <1>5 DEF ChunkOf
<1> HIDE DEF S
<1>7. S \subseteq Nat /\ \A x \in S : x <= CodecCap
  BY <1>6, SessionNumbers
<1>8. Max(S) \in S
  BY <1>6, <1>7, SessionNumbers, MaxIsGreatest
<1> QED
  BY <1>6, <1>8 DEF Operation, S

\* A plan cuts the tiles into chunks, no more than workers were asked for, and
\* keeps to the caps.
LEMMA PlanFits ==
    ASSUME tiles \in Calls, NEW most \in Nat, NEW fixed, NEW cap, NEW old, NEW p,
           p = SelectBatchPlan(most, fixed, cap, old), p # Unplanned
    PROVE  /\ p.chunk_size \in Nat \ {0} /\ p.worker_count \in 1..most
           /\ p.worker_count = DivCeil(Len(tiles), p.chunk_size)
           /\ PlannedFits(p.worker_count, p.chunk_size, fixed, cap, old)
<1>1. Len(tiles) \in Nat \ {0}
  <2>1. tiles # <<>>
    BY SessionAssumption
  <2> QED
    BY <2>1, TilesTyped
<1> DEFINE Fit(r) == PlannedFits(Shape(r).worker_count, Shape(r).chunk_size,
                                 fixed, cap, old)
<1> DEFINE fit == {r \in 1..most : r <= Len(tiles) /\ Fit(r)}
<1>2. fit # {} /\ p = Shape(Max(fit))
  BY DEF SelectBatchPlan
<1> HIDE DEF Fit
<1>3. fit \subseteq Nat /\ \A x \in fit : x <= most
  OBVIOUS
<1> HIDE DEF fit
<1>4. Max(fit) \in fit
  BY <1>2, <1>3, MaxIsGreatest
<1>5. PICK r \in 1..most : p = Shape(r) /\ Fit(r)
  BY <1>2, <1>4 DEF fit
<1>6. LET size == DivCeil(Len(tiles), r)
      IN  size \in Nat \ {0} /\ DivCeil(Len(tiles), size) \in 1..r
  <2>1. r \in Nat \ {0}
    OBVIOUS
  <2> QED
    BY <1>1, <2>1, CutCounts
<1>7. /\ p.chunk_size = DivCeil(Len(tiles), r)
      /\ p.worker_count = DivCeil(Len(tiles), DivCeil(Len(tiles), r))
  BY <1>5 DEF Shape
<1>8. /\ p.chunk_size \in Nat \ {0} /\ p.worker_count \in 1..r
      /\ p.worker_count = DivCeil(Len(tiles), p.chunk_size)
  BY <1>6, <1>7
<1> QED
  BY <1>5, <1>8 DEF Fit

\* What the slots retain and what the running chunks claim are part of the load.
LEMMA RunTotals ==
    ASSUME NEW S, IsFiniteSet(S), NEW ret \in [S -> 0..CodecCap],
           NEW dec \in [S -> 0..CodecCap], NEW load \in [S -> Nat],
           \A c \in S : ret[c] + dec[c] <= load[c]
    PROVE  /\ Sum(ret) \in Nat /\ Sum(dec) \in Nat /\ Sum(load) \in Nat
           /\ Sum(ret) + Sum(dec) <= Sum(load)
<1> DEFINE both == [c \in S |-> ret[c] + dec[c]]
<1>2. /\ ret \in [S -> Nat] /\ dec \in [S -> Nat] /\ both \in [S -> Nat]
      /\ \A c \in S : both[c] = ret[c] + dec[c] /\ both[c] <= load[c]
  BY SessionNumbers
<1> HIDE DEF both
<1>3. Total(both, 2 * CodecCap) = Total(ret, CodecCap) + Total(dec, CodecCap)
  <2>1. \A cap \in Nat : ret \in [S -> 0..cap] /\ dec \in [S -> 0..cap]
           => Total(both, 2 * cap) = Total(ret, cap) + Total(dec, cap)
    BY <1>2, TotalSum
  <2> QED
    BY <2>1, SessionNumbers
<1>4. \A f \in [S -> 0..CodecCap] : Total(f, 2 * CodecCap) = Total(f, CodecCap)
  <2>1. \A wide \in Nat : CodecCap <= wide =>
           \A f \in [S -> 0..CodecCap] : Total(f, wide) = Total(f, CodecCap)
    BY SessionNumbers, TotalWider
  <2> QED
    BY <2>1, SessionNumbers
<1>5. Total(both, 2 * CodecCap) <= Total(load, 2 * CodecCap)
  BY <1>2, SessionNumbers, TotalMonotone
<1>6. \A f \in [S -> Nat] : Total(f, 2 * CodecCap) \in Nat
  BY SessionNumbers, TotalType
<1> QED
  BY <1>2, <1>3, <1>4, <1>5, <1>6 DEF Sum

\* Of slots within the cap each is.
LEMMA RetainedEach ==
    ASSUME NEW ss \in Seq(Slot), RetainedTotal(ss) <= CodecCap
    PROVE  /\ \A i \in DOMAIN ss : Retained(ss[i]) \in 0..CodecCap
           /\ [i \in DOMAIN ss |-> Retained(ss[i])] \in [DOMAIN ss -> 0..CodecCap]
<1> DEFINE f == [i \in DOMAIN ss |-> Retained(ss[i])]
<1>1. /\ IsFiniteSet(DOMAIN ss) /\ f \in [DOMAIN ss -> 0..(2 * CodecCap)]
      /\ RetainedTotal(ss) \in Nat
      /\ RetainedTotal(ss) = Total(f, 2 * CodecCap)
      /\ \A i \in DOMAIN ss : f[i] = Retained(ss[i])
  BY SlotsAreFunctions DEF RetainedTotal, Sum
<1>2. \A i \in DOMAIN ss : f[i] \in 0..(2 * CodecCap)
  BY <1>1
<1> HIDE DEF f
<1>3. \A i \in DOMAIN ss : f[i] <= Total(f, 2 * CodecCap)
  BY <1>1, SessionNumbers, TotalBounds
<1>4. \A i \in DOMAIN ss : Retained(ss[i]) \in 0..CodecCap
  BY <1>1, <1>2, <1>3, SessionNumbers
<1> QED
  BY <1>4

\* Each stage of prepare_batch leaves a session that may be used.
LEMMA SoundTrimmed ==
    ASSUME Sound(slots), NEW rounded \in BOOLEAN
    PROVE  Sound(Trimmed(rounded).ss)
<1>1. Sound(ReleasedAll(slots)) /\ Sound(<<>>)
  BY SoundReleased, SoundEmpty
<1> DEFINE ss == IF Exceeds(slots, capacity, Len(slots))
                 THEN ReleasedAll(slots) ELSE slots
<1>2. Sound(ss)
  BY <1>1
<1> HIDE DEF ss
<1>3. Trimmed(rounded).ss \in {<<>>, ss}
  BY DEF Trimmed, ss
<1> QED
  BY <1>1, <1>2, <1>3

\* Replacing the first slot by a sound one keeps all sound.
LEMMA SoundFirst ==
    ASSUME tiles \in Calls, NEW from, Sound(from.ss), NEW most \in Nat
    PROVE  LET first == FirstPlan(from, most)
           IN  /\ Sound(first.ss)
               /\ first.plan # Unplanned => first.plan.worker_count \in 1..most
<1> DEFINE first == FirstPlan(from, most)
<1>1. Sound(ReleasedAll(from.ss)) /\ Sound(<<>>)
  BY SoundReleased, SoundEmpty
<1>2. first.ss \in {<<>>, from.ss, ReleasedAll(from.ss)}
  BY DEF FirstPlan
<1>3. \E fixed, cap, old : first.plan = SelectBatchPlan(most, fixed, cap, old)
  <2> DEFINE planned == Len(tiles) * PlanBytes
  <2> DEFINE fixed == planned + Len(from.ss) * SummaryBytes
  <2>1. first.plan \in {SelectBatchPlan(most, planned, 0, <<>>),
                        SelectBatchPlan(most, fixed, from.cap, from.ss),
                        SelectBatchPlan(most, fixed, from.cap, ReleasedAll(from.ss))}
    BY DEF FirstPlan
  <2> HIDE DEF planned, fixed, first
  <2> QED
    BY <2>1
<1> HIDE DEF first
<1>4. first.plan # Unplanned => first.plan.worker_count \in 1..most
  BY <1>3, PlanFits
<1>5. Sound(first.ss)
  BY <1>1, <1>2
<1> QED
  BY <1>4, <1>5 DEF first

\* ensure_worker_slots keeps the slots sound.
LEMMA SoundStaffed ==
    ASSUME tiles \in Calls, NEW from, Sound(from.ss), from.plan.worker_count \in Nat
    PROVE  LET last == Staffed(from)
           IN  /\ Sound(last.ss) /\ Len(last.ss) = from.plan.worker_count
               /\ \E fixed, cap : last.plan
                     = SelectBatchPlan(Len(last.ss), fixed, cap, last.ss)
<1> DEFINE n == from.plan.worker_count
<1> DEFINE last == Staffed(from)
<1>1. Len(from.ss) \in Nat
  BY SlotsAreFunctions DEF Sound
<1>4. Sound(last.ss) /\ Len(last.ss) = n
  <2>1. CASE Len(from.ss) < n
    <3>1. last.ss = [i \in 1..n |-> Fresh]
      BY <2>1 DEF Staffed
    <3> QED
      BY <3>1, SoundFresh
  <2>2. CASE ~ (Len(from.ss) < n)
    <3>1. last.ss = SubSeq(from.ss, 1, n) /\ n <= Len(from.ss)
      BY <1>1, <2>2 DEF Staffed
    <3> QED
      BY <3>1, SoundPrefix
  <2> QED
    BY <2>1, <2>2
<1>5. \E fixed, cap : last.plan = SelectBatchPlan(n, fixed, cap, last.ss)
  <2> DEFINE fixed == Len(tiles) * PlanBytes + n * SummaryBytes
  <2>1. last.plan = SelectBatchPlan(n, fixed, last.cap, last.ss)
    BY DEF Staffed
  <2> HIDE DEF fixed, last
  <2> QED
    BY <2>1
<1> HIDE DEF last
<1>6. \E fixed, cap : last.plan = SelectBatchPlan(Len(last.ss), fixed, cap, last.ss)
  BY <1>4, <1>5
<1> QED
  BY <1>4, <1>6 DEF last
-----------------------------------------------------------------------------
(* The inductive invariant                                                 *)

\* A call that answers with no word on its tiles.
LEMMA IdleKeeps ==
    ASSUME phase' = "idle", slots' \in Seq(Slot), RetainedTotal(slots') <= CodecCap,
           workers' \in 0..Available, tiles' \in Calls \cup {<<>>},
           DOMAIN result' = DOMAIN tiles',
           \A j \in DOMAIN tiles' : result'[j] \in {"none", "ok", "err"},
           spawnFailed' \in Nat, panicked' \in {"no", "yes"},
           panicked' = "yes" <=> Poisoned(slots') # {},
           answer'.what \in {"none", "too_large", "poisoned"},
           answer'.what = "poisoned" => panicked' = "yes"
    PROVE  JpegInv'
<1>1. JpegTypes'
  BY DEF JpegTypes
<1>2. HeadersChecked' /\ Untouched' /\ Decoded'
  BY DEF HeadersChecked, Untouched, Decoded
<1>3. CodecWithinCap'
  BY DEF CodecWithinCap
<1>4. PoisonUntilReset'
  BY DEF PoisonUntilReset
<1>5. AnswerFaithful'
  BY DEF AnswerFaithful
<1> QED
  BY <1>1, <1>2, <1>3, <1>4, <1>5 DEF JpegInv

\* A new session satisfies the invariant.
LEMMA JpegInitially == JpegInit => JpegInv
<1> SUFFICES ASSUME JpegInit PROVE JpegInv
  OBVIOUS
<1>1. Sound(slots)
  BY SoundEmpty DEF JpegInit
<1>2. DOMAIN tiles = {} /\ DOMAIN result = {} /\ tiles = <<>>
  BY DEF JpegInit
<1>3. /\ answer.what = "none" /\ phase = "idle" /\ panicked = "no"
      /\ workers \in 0..Available /\ spawnFailed = 0
  BY DEF JpegInit, Outcome
<1>4. JpegTypes
  BY <1>1, <1>2, <1>3 DEF JpegTypes, Sound
<1>5. HeadersChecked /\ Untouched /\ Decoded
  BY <1>3 DEF HeadersChecked, Untouched, Decoded
<1>6. CodecWithinCap
  BY <1>1, <1>3 DEF CodecWithinCap, Sound
<1>7. PoisonUntilReset
  BY <1>1, <1>3 DEF PoisonUntilReset, Sound
<1>8. AnswerFaithful
  BY <1>3 DEF AnswerFaithful
<1> QED
  BY <1>4, <1>5, <1>6, <1>7, <1>8 DEF JpegInv

\* Eviction: only the first slot keeps its context.
LEMMA SlotEvicted ==
    ASSUME NEW ss \in Seq(Slot), NEW i \in DOMAIN ss
    PROVE  /\ Evicted(ss)[i] \in Slot
           /\ Evicted(ss)[i].pool = 0 /\ (i # 1 => Evicted(ss)[i].ctx = 0)
           /\ Evicted(ss)[i].poisoned = ss[i].poisoned
           /\ Retained(Evicted(ss)[i]) <= Retained(ss[i])
<1>1. ss[i] \in Slot
  OBVIOUS
<1>2. CASE i = 1
  <2>1. Evicted(ss)[i] = [ss[i] EXCEPT !.pool = 0]
    BY <1>2 DEF Evicted
  <2>2. /\ [ss[i] EXCEPT !.pool = 0] \in Slot
        /\ [ss[i] EXCEPT !.pool = 0].pool = 0
        /\ [ss[i] EXCEPT !.pool = 0].ctx = ss[i].ctx
        /\ [ss[i] EXCEPT !.pool = 0].poisoned = ss[i].poisoned
    BY <1>1, SessionNumbers, SMTT(30) DEF Slot
  <2>3. ss[i].ctx \in Nat /\ ss[i].pool \in Nat
    BY <1>1, SessionNumbers DEF Slot
  <2> QED
    BY <1>2, <2>1, <2>2, <2>3 DEF Retained
<1>3. CASE i # 1
  <2>1. Evicted(ss)[i] = Released(ss[i])
    BY <1>3 DEF Evicted
  <2>2. /\ Released(ss[i]) \in Slot
        /\ Released(ss[i]).ctx = 0 /\ Released(ss[i]).pool = 0
        /\ Released(ss[i]).poisoned = ss[i].poisoned
    BY <1>1, SlotReleased
  <2>3. ss[i].ctx \in Nat /\ ss[i].pool \in Nat
    BY <1>1, SessionNumbers DEF Slot
  <2> QED
    BY <2>1, <2>2, <2>3 DEF Retained
<1> QED
  BY <1>2, <1>3
\* prepare_job_planning keeps the invariant.
LEMMA BeginKeeps ==
    ASSUME JpegInv, NEW how, NEW input \in Calls, Begin(how, input)
    PROVE  JpegInv'
<1>1. /\ slots \in Seq(Slot) /\ RetainedTotal(slots) <= CodecCap
      /\ panicked \in {"no", "yes"} /\ workers \in 0..Available
      /\ phase = "idle" /\ (panicked = "yes" <=> Poisoned(slots) # {})
  BY DEF Begin, JpegInv, JpegTypes, CodecWithinCap, PoisonUntilReset
<1>2. RetainedTotal(slots) \in Nat /\ DOMAIN slots = 1..Len(slots)
  BY <1>1, SlotsAreFunctions
<1>3. /\ tiles' = input /\ tiles' # <<>> /\ chunk' = <<>> /\ spawnFailed' = 0
      /\ result' = [j \in DOMAIN tiles' |-> "none"]
      /\ workers' = workers /\ panicked' = panicked
  BY SessionAssumption DEF Begin
<1>4. CASE Poisoned(slots) # {}
  <2> DEFINE tt == [i \in DOMAIN slots |-> IF i < Min(Poisoned(slots))
                                          THEN Evicted(slots)[i] ELSE slots[i]]
  <2>1. slots' = tt /\ phase' = "idle" /\ answer'.what = "poisoned"
    BY <1>4 DEF Begin, Answer, Outcome
  <2>2. \A i \in DOMAIN slots : /\ tt[i] \in Slot
                                /\ Retained(tt[i]) <= Retained(slots[i])
                                /\ tt[i].poisoned = slots[i].poisoned
    <3> SUFFICES ASSUME NEW i \in DOMAIN slots
                 PROVE  /\ tt[i] \in Slot
                        /\ Retained(tt[i]) <= Retained(slots[i])
                        /\ tt[i].poisoned = slots[i].poisoned
      OBVIOUS
    <3>1. slots[i] \in Slot /\ Retained(slots[i]) \in Nat
      BY <1>1, SlotsAreFunctions
    <3>2. tt[i] \in {Evicted(slots)[i], slots[i]}
      OBVIOUS
    <3> HIDE DEF tt
    <3> QED
      BY <1>1, <3>1, <3>2, SlotEvicted
  <2>3. tt = [i \in DOMAIN slots |-> tt[i]]
    OBVIOUS
  <2> HIDE DEF tt
  <2>4. /\ tt \in Seq(Slot) /\ DOMAIN tt = DOMAIN slots
        /\ RetainedTotal(tt) <= RetainedTotal(slots)
    BY <1>1, <2>2, <2>3, SlotsLighter
  <2>5. RetainedTotal(tt) <= CodecCap
    BY <1>1, <1>2, <2>4, SlotsAreFunctions, SessionNumbers
  <2>6. Poisoned(tt) # {}
    BY <1>4, <2>2, <2>4 DEF Poisoned
  <2> QED
    BY <1>1, <1>3, <1>4, <2>1, <2>4, <2>5, <2>6, IdleKeeps
<1>5. CASE Poisoned(slots) = {}
  <2>1. slots' \in {Evicted(slots), <<>>}
    BY <1>5 DEF Begin
  <2>2. /\ slots' \in Seq(Slot) /\ Poisoned(slots') = {}
        /\ \A i \in DOMAIN slots' :
              slots'[i].pool = 0 /\ (i # 1 => slots'[i].ctx = 0)
    <3>1. CASE slots' = <<>>
      BY <3>1 DEF Poisoned
    <3>2. CASE slots' = Evicted(slots)
      <4>1. \A i \in DOMAIN slots :
              /\ slots'[i] \in Slot
              /\ slots'[i].pool = 0 /\ (i # 1 => slots'[i].ctx = 0)
              /\ slots'[i].poisoned = slots[i].poisoned
        BY <1>1, <3>2, SlotEvicted
      <4>2. slots' = [i \in DOMAIN slots |-> slots'[i]]
        BY <3>2 DEF Evicted
      <4>3. slots' \in Seq(Slot) /\ DOMAIN slots' = DOMAIN slots
        BY <1>1, <1>2, <4>1, <4>2
      <4> QED
        BY <1>5, <4>1, <4>3 DEF Poisoned
    <3> QED
      BY <2>1, <3>1, <3>2
  <2>3. RetainedTotal(slots') <= CodecCap
    BY <2>2, RetainedFirst
  <2>4. CASE phase' = "idle"
    <3>1. answer'.what = "too_large"
      BY <1>5, <2>4 DEF Begin, Answer, Outcome
    <3> QED
      BY <1>1, <1>3, <1>5, <2>2, <2>3, <2>4, <3>1, IdleKeeps
  <2>5. CASE phase' = "planning"
    <3>1. answer'.what = "none"
      BY <1>5, <2>5 DEF Begin, Answer, Outcome
    <3>2. JpegTypes'
      BY <1>1, <1>3, <2>2, <2>5 DEF JpegTypes
    <3>3. HeadersChecked' /\ Decoded'
      BY <2>5 DEF HeadersChecked, Decoded
    <3>4. Untouched'
      BY <1>1, <1>3, <1>5, <2>2 DEF Untouched
    <3>5. CodecWithinCap'
      BY <2>2, <2>3, <2>5 DEF CodecWithinCap
    <3>6. PoisonUntilReset' /\ AnswerFaithful'
      BY <2>5, <3>1 DEF PoisonUntilReset, AnswerFaithful
    <3> QED
      BY <3>2, <3>3, <3>4, <3>5, <3>6 DEF JpegInv
  <2> QED
    BY <1>5, <2>4, <2>5 DEF Begin, Answer
<1> QED
  BY <1>4, <1>5

\* What is known of a batch that is being planned.
LEMMA PlanningState ==
    ASSUME JpegInv, phase \in {"planning", "prepare"}
    PROVE  /\ Sound(slots) /\ panicked = "no" /\ workers \in 0..Available
           /\ tiles \in Calls /\ spawnFailed = 0 /\ chunk = <<>>
           /\ DOMAIN result = DOMAIN tiles
           /\ \A j \in DOMAIN tiles : result[j] = "none"
           /\ answer.what # "poisoned"
           /\ phase = "planning" => \A i \in DOMAIN slots :
                 slots[i].pool = 0 /\ (i # 1 => slots[i].ctx = 0)
  BY DEF JpegInv, JpegTypes, Untouched, CodecWithinCap, PoisonUntilReset, Sound

\* Planning the jobs of a batch keeps the invariant.
LEMMA PlanJobsKeeps ==
    ASSUME JpegInv, PlanJobs
    PROVE  JpegInv'
<1>1. /\ Sound(slots) /\ panicked = "no" /\ workers \in 0..Available
      /\ tiles \in Calls /\ spawnFailed = 0 /\ chunk = <<>>
      /\ DOMAIN result = DOMAIN tiles
      /\ \A j \in DOMAIN tiles : result[j] = "none"
      /\ answer.what # "poisoned"
      /\ \A i \in DOMAIN slots : slots[i].pool = 0 /\ (i # 1 => slots[i].ctx = 0)
  BY PlanningState DEF PlanJobs
<1>2. /\ kind' = kind /\ tiles' = tiles /\ workers' = workers
      /\ spawnFailed' = spawnFailed /\ chunk' = chunk /\ result' = result
      /\ panicked' = panicked
  BY DEF PlanJobs, inputVars, runVars
<1>3. Sound(slots')
  <2>1. CASE slots = <<>>
    BY <1>1, <2>1 DEF PlanJobs
  <2>2. CASE slots # <<>>
    <3>1. PICK bytes \in slots[1].ctx..CodecCap :
             slots' = [slots EXCEPT ![1].ctx = bytes]
      BY <2>2 DEF PlanJobs
    <3>2. slots \in Seq(Slot) /\ Poisoned(slots) = {}
      BY <1>1 DEF Sound
    <3>3. 1 \in DOMAIN slots /\ slots[1] \in Slot
      BY <2>2, <3>2
    <3>4. bytes \in 0..CodecCap
      BY <3>3, SessionNumbers DEF Slot
    <3>5. /\ DOMAIN slots' = DOMAIN slots /\ slots'[1] = [slots[1] EXCEPT !.ctx = bytes]
          /\ \A i \in DOMAIN slots \ {1} : slots'[i] = slots[i]
      BY <3>1, <3>2, <3>3
    <3>6. /\ slots'[1] \in Slot /\ slots'[1].pool = slots[1].pool
          /\ slots'[1].poisoned = slots[1].poisoned
      BY <3>3, <3>4, <3>5 DEF Slot
    <3>7. slots' \in Seq(Slot)
      BY <3>1, <3>2, <3>3, <3>5, <3>6
    <3>8. \A i \in DOMAIN slots' :
             slots'[i].pool = 0 /\ (i # 1 => slots'[i].ctx = 0)
      <4>1. slots'[1].pool = 0
        BY <1>1, <3>3, <3>6
      <4>2. \A i \in DOMAIN slots \ {1} :
               slots'[i].pool = 0 /\ (i # 1 => slots'[i].ctx = 0)
        BY <1>1, <3>5
      <4> QED
        BY <3>3, <3>5, <4>1, <4>2
    <3>9. RetainedTotal(slots') <= CodecCap
      BY <3>7, <3>8, RetainedFirst
    <3>10. Poisoned(slots') = {}
      BY <3>2, <3>5, <3>6 DEF Poisoned
    <3> QED
      BY <3>7, <3>9, <3>10 DEF Sound
  <2> QED
    BY <2>1, <2>2
<1>4. JpegTypes' \/ phase' \notin {"idle", "prepare"}
  BY <1>1, <1>2, <1>3 DEF JpegTypes, Sound
<1>5. CASE phase' = "idle"
  <2>1. \/ answer'.what = "too_large"
        \/ /\ BadHeaders # {} /\ answer'.what = "tile"
           /\ answer'.at = Min(BadHeaders)
    BY <1>5 DEF PlanJobs, Answer, Outcome
  <2>2. HeadersChecked' /\ Untouched' /\ Decoded'
    BY <1>5 DEF HeadersChecked, Untouched, Decoded
  <2>3. CodecWithinCap' /\ PoisonUntilReset'
    BY <1>1, <1>2, <1>3, <1>5, <2>1 DEF CodecWithinCap, PoisonUntilReset, Sound
  <2>4. FailedChunks' = {} /\ BadHeaders' = BadHeaders
    BY <1>1, <1>2 DEF FailedChunks, BadHeaders
  <2>5. ASSUME answer'.what = "tile"
        PROVE  /\ answer'.at \in DOMAIN tiles
               /\ tiles[answer'.at].nature = "bad_header"
               /\ \A j \in DOMAIN tiles :
                     j < answer'.at => tiles[j].nature # "bad_header"
    <3>1. BadHeaders # {} /\ answer'.at = Min(BadHeaders)
      BY <2>1, <2>5
    <3>2. BadHeaders \subseteq DOMAIN tiles /\ DOMAIN tiles \subseteq Nat
      BY <1>1, TilesTyped DEF BadHeaders
    <3>3. answer'.at \in BadHeaders /\ \A j \in BadHeaders : answer'.at <= j
      BY <3>1, <3>2, MinIsLeast
    <3>4. ASSUME NEW j \in DOMAIN tiles, j < answer'.at
          PROVE  tiles[j].nature # "bad_header"
      <4>1. j \in Nat /\ answer'.at \in Nat
        BY <3>2, <3>3
      <4>2. j \notin BadHeaders
        BY <3>3, <3>4, <4>1
      <4> QED
        BY <4>2 DEF BadHeaders
    <3> QED
      BY <3>3, <3>4 DEF BadHeaders
  <2>6. AnswerFaithful'
    BY <1>1, <1>2, <2>1, <2>4, <2>5 DEF AnswerFaithful
  <2> QED
    BY <1>4, <1>5, <2>2, <2>3, <2>6 DEF JpegInv
<1>6. CASE phase' = "prepare"
  <2>1. (kind = "prepared" \/ BadHeaders = {}) /\ answer' = answer
    BY <1>6 DEF PlanJobs, Answer
  <2>2. HeadersChecked'
    BY <1>2, <2>1 DEF HeadersChecked, BadHeaders
  <2>3. Untouched'
    BY <1>1, <1>2, <1>3, SessionAssumption DEF Untouched, Sound
  <2>4. Decoded' /\ AnswerFaithful'
    BY <1>6 DEF Decoded, AnswerFaithful
  <2>5. CodecWithinCap' /\ PoisonUntilReset'
    BY <1>1, <1>3, <1>6, <2>1 DEF CodecWithinCap, PoisonUntilReset, Sound
  <2> QED
    BY <1>4, <1>6, <2>2, <2>3, <2>4, <2>5 DEF JpegInv
<1> QED
  BY <1>5, <1>6 DEF PlanJobs, Answer
\* The workers asked for are a number.
LEMMA DesiredIsNumber ==
    ASSUME tiles \in Calls, workers \in 0..Available
    PROVE  DesiredWorkers \in Nat
<1> DEFINE w == IF scoped THEN workers ELSE Available
<1>1. Len(tiles) \in Nat /\ w \in Nat
  BY TilesTyped, SessionNumbers
<1> HIDE DEF w
<1>2. {Len(tiles), w} \subseteq Nat /\ {Len(tiles), w} # {}
  BY <1>1
<1>3. Min({Len(tiles), w}) \in {Len(tiles), w}
  BY <1>2, MinIsLeast
<1> QED
  BY <1>2, <1>3 DEF DesiredWorkers, w

\* With a plan that fits, the chunks may be decoded.
LEMMA RunBegins ==
    ASSUME JpegInv, phase = "prepare", phase' = "run",
           UNCHANGED <<kind, tiles, workers, result, panicked, spawnFailed, answer>>,
           NEW ss, Sound(ss), NEW p, NEW fixed, NEW cap,
           p = SelectBatchPlan(Len(ss), fixed, cap, ss), p # Unplanned,
           Sound(slots'), Len(slots') = p.worker_count,
           \A i \in 1..p.worker_count : slots'[i] = ss[i], batchPlan' = p,
           chunk' = [c \in 1..p.worker_count |-> "pending"]
    PROVE  JpegInv'
<1> DEFINE n == p.worker_count
<1> DEFINE size == p.chunk_size
<1>1. /\ panicked = "no" /\ workers \in 0..Available
      /\ tiles \in Calls /\ spawnFailed = 0
      /\ DOMAIN result = DOMAIN tiles
      /\ \A j \in DOMAIN tiles : result[j] = "none"
      /\ answer.what # "poisoned"
  BY PlanningState
<1>2. ss \in Seq(Slot) /\ Len(ss) \in Nat /\ DOMAIN ss = 1..Len(ss)
      /\ RetainedTotal(ss) <= CodecCap
  BY SlotsAreFunctions DEF Sound
<1>3. /\ size \in Nat \ {0} /\ n \in 1..Len(ss)
      /\ n = DivCeil(Len(tiles), size)
      /\ PlannedFits(n, size, fixed, cap, ss)
  BY <1>1, <1>2, PlanFits
<1>4. /\ n \in Nat /\ Sound(slots') /\ Len(slots') = n
      /\ \A i \in 1..n : slots'[i] = ss[i]
  BY <1>2, <1>3
<1>5. slots' \in Seq(Slot) /\ DOMAIN slots' = 1..n /\ Poisoned(slots') = {}
      /\ RetainedTotal(slots') <= CodecCap /\ RetainedTotal(slots') \in Nat
      /\ \A c \in 1..n : slots'[c] \in Slot
  BY <1>4, SlotsAreFunctions DEF Sound
<1> HIDE DEF n, size
<1>6. /\ tiles' = tiles /\ tiles # <<>> /\ batchPlan'.chunk_size = size
      /\ batchPlan'.worker_count = n /\ chunk' = [c \in 1..n |-> "pending"]
  BY <1>1, SessionAssumption DEF n, size
<1>7. \A c \in 1..n : Operation(size, c) \in 0..CodecCap
  BY <1>1, <1>3, OperationBound
<1>8. \A c \in 1..n : Operation(size, c)' = Operation(size, c)
  BY <1>6 DEF Operation, ChunkOf
<1>9. Load' = [c \in 1..n |-> Operation(size, c)
                     + IF c \in DOMAIN ss THEN Retained(ss[c]) ELSE 0]
  <2>1. \A c \in 1..n : /\ c \in DOMAIN ss /\ Retained(ss[c]) \in 0..CodecCap
                        /\ Retained(slots'[c]) = Retained(ss[c])
    <3>1. \A i \in DOMAIN ss : Retained(ss[i]) \in 0..CodecCap
      BY <1>2, RetainedEach
    <3>2. \A c \in 1..n : c \in DOMAIN ss
      BY <1>2, <1>3
    <3> QED
      BY <1>4, <3>1, <3>2
  <2>2. Load' = [c \in 1..n |-> Retained(slots'[c]) + Operation(size, c)]
    BY <1>5, <1>6, <1>8 DEF Load
  <2>3. \A c \in 1..n : Retained(slots'[c]) + Operation(size, c)
             = Operation(size, c) + IF c \in DOMAIN ss THEN Retained(ss[c]) ELSE 0
    <3> SUFFICES ASSUME NEW c \in 1..n
                 PROVE  Retained(slots'[c]) + Operation(size, c)
                          = Operation(size, c) + Retained(ss[c])
      BY <2>1
    <3>1. /\ Operation(size, c) \in Int /\ Retained(ss[c]) \in Int
          /\ Retained(slots'[c]) = Retained(ss[c])
      BY <1>7, <2>1, SessionNumbers
    <3> QED
      BY <3>1
  <2> QED
    BY <2>2, <2>3
<1>10. Sum(Load') <= CodecCap
  BY <1>3, <1>9 DEF PlannedFits
<1>11. Sum(Decoding') = 0
  <2>1. Decoding' \in [1..n -> {0}]
    BY <1>6 DEF Decoding
  <2> QED
    BY <2>1, SessionNumbers, TotalZero DEF Sum
<1>12. JpegTypes'
  BY <1>1, <1>5 DEF JpegTypes
<1>13. HeadersChecked'
  BY DEF JpegInv, HeadersChecked, BadHeaders
<1>14. Untouched' /\ AnswerFaithful'
  BY DEF Untouched, AnswerFaithful
<1>15. CodecWithinCap'
  BY <1>5, <1>11 DEF CodecWithinCap
<1>16. PoisonUntilReset'
  BY <1>1 DEF PoisonUntilReset
<1>17. Decoded'
  <2>1. \A j \in DOMAIN tiles' : result'[j] \in {"none", Verdict(j)'}
    BY <1>1
  <2>2. \A c \in 1..n : chunk'[c] = "pending" /\ slots'[c].poisoned = "no"
    <3>1. \A c \in 1..n : slots'[c].poisoned \in {"no", "yes"}
      BY <1>5 DEF Slot
    <3> QED
      BY <1>5, <1>6, <3>1 DEF Poisoned
  <2>3. chunk' \in [1..n -> Ends \cup {"pending", "running", "skipped"}]
    BY <1>6
  <2> QED
    BY <1>1, <1>3, <1>4, <1>5, <1>6, <1>10, <2>1, <2>2, <2>3 DEF Decoded
<1> QED
  BY <1>12, <1>13, <1>14, <1>15, <1>16, <1>17 DEF JpegInv

\* prepare_batch keeps the invariant: the plan it selects fits the cap with all
\* that the slots retain.
LEMMA PrepareKeeps ==
    ASSUME JpegInv, PrepareBatch
    PROVE  JpegInv'
<1>1. /\ Sound(slots) /\ panicked = "no" /\ workers \in 0..Available
      /\ tiles \in Calls /\ spawnFailed = 0 /\ chunk = <<>>
      /\ DOMAIN result = DOMAIN tiles
      /\ \A j \in DOMAIN tiles : result[j] = "none"
  BY PlanningState DEF PrepareBatch
<1>2. /\ UNCHANGED <<kind, tiles, workers, result, panicked, spawnFailed>>
      /\ phase = "prepare"
  BY DEF PrepareBatch, inputVars
<1>3. PICK rounded \in BOOLEAN :
        LET first == FirstPlan(Trimmed(rounded), DesiredWorkers)
            last == Staffed(first)
        IN  \/ slots' = Trimmed(FALSE).ss /\ Answer("too_large", 0)
            \/ slots' = first.ss /\ Answer("too_large", 0)
            \/ slots' = <<>> /\ Answer("too_large", 0)
            \/ /\ first.plan # Unplanned
               /\ slots' = last.ss /\ Answer("too_large", 0)
            \/ /\ first.plan # Unplanned /\ last.plan # Unplanned
               /\ slots' = SubSeq(last.ss, 1, last.plan.worker_count)
               /\ batchPlan' = last.plan
               /\ chunk' = [c \in 1..last.plan.worker_count |-> "pending"]
               /\ phase' = "run" /\ UNCHANGED answer
  BY DEF PrepareBatch
<1> DEFINE first == FirstPlan(Trimmed(rounded), DesiredWorkers)
<1> DEFINE last == Staffed(first)
<1>4. Sound(Trimmed(rounded).ss) /\ Sound(Trimmed(FALSE).ss) /\ Sound(<<>>)
  BY <1>1, SoundTrimmed, SoundEmpty
<1>5. DesiredWorkers \in Nat
  BY <1>1, DesiredIsNumber
<1>6. /\ Sound(first.ss)
      /\ first.plan # Unplanned => first.plan.worker_count \in 1..DesiredWorkers
  BY <1>1, <1>4, <1>5, SoundFirst
<1>7. ASSUME first.plan # Unplanned
      PROVE  /\ Sound(last.ss)
             /\ \E fixed, cap : last.plan
                   = SelectBatchPlan(Len(last.ss), fixed, cap, last.ss)
  <2> HIDE DEF first
  <2>1. first.plan.worker_count \in Nat
    BY <1>5, <1>6, <1>7
  <2> QED
    BY <1>1, <1>6, <2>1, SoundStaffed
<1> HIDE DEF first, last
<1>8. \/ Sound(slots') /\ Answer("too_large", 0)
      \/ /\ first.plan # Unplanned /\ last.plan # Unplanned
         /\ slots' = SubSeq(last.ss, 1, last.plan.worker_count)
         /\ batchPlan' = last.plan
         /\ chunk' = [c \in 1..last.plan.worker_count |-> "pending"]
         /\ phase' = "run" /\ UNCHANGED answer
  BY <1>3, <1>4, <1>6, <1>7 DEF first, last
<1>9. CASE Sound(slots') /\ Answer("too_large", 0)
  <2>1. phase' = "idle" /\ answer'.what = "too_large"
    BY <1>9 DEF Answer, Outcome
  <2> QED
    BY <1>1, <1>2, <1>9, <2>1, IdleKeeps DEF Sound
<1>10. CASE /\ first.plan # Unplanned /\ last.plan # Unplanned
            /\ slots' = SubSeq(last.ss, 1, last.plan.worker_count)
            /\ batchPlan' = last.plan
            /\ chunk' = [c \in 1..last.plan.worker_count |-> "pending"]
            /\ phase' = "run" /\ UNCHANGED answer
  <2>1. PICK fixed, cap : last.plan
                             = SelectBatchPlan(Len(last.ss), fixed, cap, last.ss)
    BY <1>7, <1>10
  <2>2. last.plan.worker_count \in 1..Len(last.ss)
    <3>1. Len(last.ss) \in Nat
      BY <1>7, <1>10, SlotsAreFunctions DEF Sound
    <3> QED
      BY <1>1, <1>10, <2>1, <3>1, PlanFits
  <2>3. /\ Sound(slots') /\ Len(slots') = last.plan.worker_count
        /\ \A i \in 1..last.plan.worker_count : slots'[i] = last.ss[i]
    BY <1>7, <1>10, <2>2, SoundPrefix
  <2> QED
    BY <1>2, <1>7, <1>10, <2>1, <2>3, RunBegins
<1> QED
  BY <1>8, <1>9, <1>10
\* What is known of a batch that is being decoded.
LEMMA RunState ==
    ASSUME JpegInv, phase = "run"
    PROVE  /\ Len(slots) \in Nat /\ DOMAIN slots = 1..Len(slots)
           /\ DOMAIN chunk = 1..Len(slots) /\ slots \in Seq(Slot)
           /\ chunk \in [1..Len(slots) -> Ends \cup {"pending", "running", "skipped"}]
           /\ batchPlan.chunk_size \in Nat \ {0} /\ tiles \in Calls
           /\ batchPlan.worker_count = Len(slots)
           /\ Len(slots) = DivCeil(Len(tiles), batchPlan.chunk_size)
           /\ \A c \in 1..Len(slots) :
                 /\ slots[c] \in Slot /\ Retained(slots[c]) \in Nat
                 /\ Operation(batchPlan.chunk_size, c) \in 0..CodecCap
                 /\ Load[c] = Retained(slots[c])
                       + IF chunk[c] \in {"pending", "running"}
                         THEN Operation(batchPlan.chunk_size, c) ELSE 0
           /\ Load \in [1..Len(slots) -> 0..CodecCap]
           /\ Sum(Load) \in Nat /\ Sum(Load) <= CodecCap
<1> DEFINE n == Len(slots)
<1> DEFINE size == batchPlan.chunk_size
<1>1. /\ slots \in Seq(Slot) /\ tiles # <<>> /\ tiles \in Calls \cup {<<>>}
      /\ size \in Nat \ {0} /\ batchPlan.worker_count = n
      /\ n = DivCeil(Len(tiles), size)
      /\ chunk \in [1..n -> Ends \cup {"pending", "running", "skipped"}]
      /\ Sum(Load) <= CodecCap /\ RetainedTotal(slots) <= CodecCap
  BY DEF JpegInv, JpegTypes, Decoded, CodecWithinCap
<1>2. n \in Nat /\ DOMAIN slots = 1..n /\ \A c \in 1..n : slots[c] \in Slot
  BY <1>1, SlotsAreFunctions
<1>3. \A c \in 1..n : Retained(slots[c]) \in 0..CodecCap
  BY <1>1, <1>2, RetainedEach
<1>4. \A c \in 1..n : Operation(size, c) \in 0..CodecCap
  BY <1>1, OperationBound
<1>5. Load = [c \in 1..n |-> Retained(slots[c])
                 + IF chunk[c] \in {"pending", "running"}
                   THEN Operation(size, c) ELSE 0]
  BY <1>2 DEF Load
<1> HIDE DEF n, size
<1>6. Load \in [1..n -> 0..(2 * CodecCap)] /\ Load \in [1..n -> Nat]
  <2>1. \A c \in 1..n : Retained(slots[c])
                 + (IF chunk[c] \in {"pending", "running"}
                    THEN Operation(size, c) ELSE 0) \in 0..(2 * CodecCap)
    <3> SUFFICES ASSUME NEW c \in 1..n
                 PROVE  Retained(slots[c])
                          + (IF chunk[c] \in {"pending", "running"}
                             THEN Operation(size, c) ELSE 0) \in 0..(2 * CodecCap)
      OBVIOUS
    <3>1. Retained(slots[c]) \in 0..CodecCap /\ Operation(size, c) \in 0..CodecCap
      BY <1>3, <1>4
    <3> QED
      BY <3>1, SessionNumbers
  <2> QED
    BY <1>5, <2>1
<1>7. IsFiniteSet(1..n)
  BY <1>2, FS_Interval
<1>8. Sum(Load) \in Nat
  BY <1>6, <1>7, SessionNumbers, TotalType DEF Sum
<1>9. \A c \in 1..n : Load[c] <= Sum(Load)
  BY <1>6, <1>7, SessionNumbers, TotalBounds DEF Sum
<1>10. Load \in [1..n -> 0..CodecCap]
  <2>1. \A c \in 1..n : Load[c] \in 0..CodecCap
    <3> SUFFICES ASSUME NEW c \in 1..n PROVE Load[c] \in 0..CodecCap
      OBVIOUS
    <3>1. Load[c] \in Nat /\ Load[c] <= Sum(Load)
      BY <1>6, <1>9
    <3> QED
      BY <1>1, <1>8, <3>1, SessionNumbers
  <2> QED
    BY <1>6, <2>1
<1>11. \A c \in 1..n : /\ Retained(slots[c]) \in Nat
                       /\ Load[c] = Retained(slots[c])
                            + IF chunk[c] \in {"pending", "running"}
                              THEN Operation(size, c) ELSE 0
  BY <1>3, <1>5
<1> QED
  BY <1>1, <1>2, <1>4, <1>8, <1>10, <1>11 DEF n, size
\* A chunk's record: it may still use its slot, has decoded its tiles, or was
\* left out for a reason.
Accounted(ss, ch, res, spawn, c) ==
    /\ ch[c] \in {"pending", "running"} => ss[c].poisoned = "no"
    /\ ch[c] = "ok" =>
          \A j \in ChunkOf(batchPlan.chunk_size, c) : res[j] = Verdict(j)
    /\ ch[c] = "skipped" =>
          (\E d \in DOMAIN ch : ch[d] \in {"refused", "panicked"}) \/ spawn # 0

\* A step of a chunk by which no slot's load grows.
LEMMA RunStep ==
    ASSUME JpegInv, phase = "run",
           UNCHANGED <<kind, tiles, workers, phase, batchPlan, answer>>,
           slots' \in Seq(Slot), Len(slots') = Len(slots),
           chunk' \in [1..Len(slots) -> Ends \cup {"pending", "running", "skipped"}],
           \A c \in 1..Len(slots) :
              Retained(slots'[c]) + (IF chunk'[c] \in {"pending", "running"}
                                     THEN Operation(batchPlan.chunk_size, c) ELSE 0)
                 <= Load[c],
           DOMAIN result' = DOMAIN tiles,
           \A j \in DOMAIN tiles : result'[j] \in {"none", Verdict(j)},
           spawnFailed' \in Nat, panicked' \in {"no", "yes"},
           panicked = "yes" => panicked' = "yes",
           panicked' = "yes" <=> Poisoned(slots') # {},
           \A c \in 1..Len(slots) :
              Accounted(slots', chunk', result', spawnFailed', c)
    PROVE  JpegInv'
<1> DEFINE n == Len(slots)
<1> DEFINE size == batchPlan.chunk_size
<1>1. /\ n \in Nat /\ size \in Nat \ {0} /\ tiles \in Calls /\ tiles # <<>>
      /\ batchPlan.worker_count = n /\ n = DivCeil(Len(tiles), size)
      /\ \A c \in 1..n : Operation(size, c) \in 0..CodecCap
      /\ Load \in [1..n -> 0..CodecCap] /\ Sum(Load) \in Nat /\ Sum(Load) <= CodecCap
  BY RunState, SessionAssumption
<1>2. DOMAIN slots' = 1..n /\ RetainedTotal(slots') \in Nat
      /\ \A c \in 1..n : Retained(slots'[c]) \in Nat
  BY SlotsAreFunctions, SessionNumbers
<1>3. \A s, c : Operation(s, c)' = Operation(s, c)
  BY DEF Operation, ChunkOf
<1> HIDE DEF n, size
<1> DEFINE ret == [c \in 1..n |-> Retained(slots'[c])]
<1> DEFINE dec == [c \in 1..n |-> IF chunk'[c] = "running"
                                  THEN Operation(size, c) ELSE 0]
<1> DEFINE load == [c \in 1..n |-> Retained(slots'[c])
                       + IF chunk'[c] \in {"pending", "running"}
                         THEN Operation(size, c) ELSE 0]
<1>4. \A c \in 1..n : /\ load[c] \in Nat /\ load[c] <= Load[c]
                      /\ ret[c] \in 0..CodecCap /\ dec[c] \in 0..CodecCap
                      /\ ret[c] + dec[c] <= load[c]
  <2> SUFFICES ASSUME NEW c \in 1..n
               PROVE  /\ load[c] \in Nat /\ load[c] <= Load[c]
                      /\ ret[c] \in 0..CodecCap /\ dec[c] \in 0..CodecCap
                      /\ ret[c] + dec[c] <= load[c]
    OBVIOUS
  <2>1. /\ Retained(slots'[c]) \in Nat /\ Operation(size, c) \in 0..CodecCap
        /\ Load[c] \in 0..CodecCap
    BY <1>1, <1>2
  <2>2. load[c] <= Load[c]
    BY DEF n, size
  <2> QED
    BY <2>1, <2>2, SessionNumbers
<1>5. /\ Load' = load /\ Decoding' = dec /\ RetainedTotal(slots') = Sum(ret)
  BY <1>2, <1>3 DEF Load, Decoding, RetainedTotal, n, size
<1>6. /\ ret \in [1..n -> 0..CodecCap] /\ dec \in [1..n -> 0..CodecCap]
      /\ load \in [1..n -> Nat]
  BY <1>4
<1> HIDE DEF ret, dec, load
<1>7. IsFiniteSet(1..n)
  BY <1>1, FS_Interval
<1>8. /\ Sum(ret) \in Nat /\ Sum(dec) \in Nat /\ Sum(load) \in Nat
      /\ Sum(ret) + Sum(dec) <= Sum(load)
  BY <1>4, <1>6, <1>7, RunTotals
<1>9. Sum(load) <= Sum(Load)
  <2>1. Load \in [1..n -> Nat]
    BY <1>1
  <2> QED
    BY <1>4, <1>6, <1>7, <2>1, SessionNumbers, TotalMonotone DEF Sum
<1>10. /\ Sum(Load') <= CodecCap /\ RetainedTotal(slots') <= CodecCap
       /\ RetainedTotal(slots') + Sum(Decoding') <= CodecCap
  BY <1>1, <1>5, <1>8, <1>9, SessionNumbers
<1>11. workers \in 0..Available /\ (answer.what = "poisoned" => panicked = "yes")
  BY DEF JpegInv, JpegTypes, PoisonUntilReset
<1>12. JpegTypes'
  <2>1. \A j \in DOMAIN tiles : Verdict(j) \in {"ok", "err"}
    BY DEF Verdict
  <2> QED
    BY <1>1, <1>11, <2>1 DEF JpegTypes
<1>13. HeadersChecked'
  BY DEF JpegInv, HeadersChecked, BadHeaders
<1>14. Untouched' /\ AnswerFaithful'
  BY DEF Untouched, AnswerFaithful
<1>15. CodecWithinCap'
  BY <1>10 DEF CodecWithinCap
<1>16. PoisonUntilReset'
  BY <1>11 DEF PoisonUntilReset
<1>17. Decoded'
  <2>1. \A j \in DOMAIN tiles : Verdict(j)' = Verdict(j)
    BY DEF Verdict
  <2>2. \A s, c : ChunkOf(s, c)' = ChunkOf(s, c) /\ ChunkOf(s, c) \subseteq DOMAIN tiles
    BY DEF ChunkOf
  <2>3. \A c \in 1..n :
          /\ chunk'[c] \in {"pending", "running"} => slots'[c].poisoned = "no"
          /\ chunk'[c] = "ok" =>
                \A j \in ChunkOf(batchPlan.chunk_size, c)' : result'[j] = Verdict(j)'
          /\ chunk'[c] = "skipped" => FailedChunks' # {} \/ spawnFailed' # 0
    BY <2>1, <2>2 DEF Accounted, FailedChunks, n, size
  <2>4. /\ batchPlan'.worker_count = n /\ batchPlan'.chunk_size = size
        /\ tiles' = tiles /\ Len(slots') = n
        /\ chunk' \in [1..n -> Ends \cup {"pending", "running", "skipped"}]
        /\ \A j \in DOMAIN tiles' : result'[j] \in {"none", Verdict(j)'}
    BY <1>1, <2>1 DEF n, size
  <2> QED
    BY <1>1, <1>10, <2>3, <2>4 DEF Decoded
<1> QED
  BY <1>12, <1>13, <1>14, <1>15, <1>16, <1>17 DEF JpegInv

\* The chunks' records as the invariant has them.
LEMMA RunRecord ==
    ASSUME JpegInv, phase = "run"
    PROVE  /\ \A c \in 1..Len(slots) : Accounted(slots, chunk, result, spawnFailed, c)
           /\ DOMAIN result = DOMAIN tiles
           /\ \A j \in DOMAIN tiles : result[j] \in {"none", Verdict(j)}
           /\ spawnFailed \in Nat /\ panicked \in {"no", "yes"}
           /\ panicked = "yes" <=> Poisoned(slots) # {}
  BY DEF JpegInv, JpegTypes, Decoded, Accounted, FailedChunks
\* A chunk that takes its slot keeps the invariant.
LEMMA StartKeeps ==
    ASSUME JpegInv, NEW c \in DOMAIN chunk, StartChunk(c)
    PROVE  JpegInv'
<1>1. /\ phase = "run" /\ chunk[c] = "pending" /\ slots' = slots
      /\ UNCHANGED <<kind, tiles, workers, phase, batchPlan, answer, result,
                     spawnFailed, panicked>>
      /\ chunk' = [chunk EXCEPT ![c] =
                      IF slots[c].poisoned = "yes" THEN "refused" ELSE "running"]
  BY DEF StartChunk, inputVars
<1>2. /\ slots \in Seq(Slot) /\ DOMAIN chunk = 1..Len(slots)
      /\ chunk \in [1..Len(slots) -> Ends \cup {"pending", "running", "skipped"}]
      /\ \A d \in 1..Len(slots) :
             /\ Load[d] = Retained(slots[d])
                    + IF chunk[d] \in {"pending", "running"}
                      THEN Operation(batchPlan.chunk_size, d) ELSE 0
             /\ Load[d] \in Int
  BY <1>1, RunState
<1>3. /\ \A d \in 1..Len(slots) : Accounted(slots, chunk, result, spawnFailed, d)
      /\ DOMAIN result = DOMAIN tiles
      /\ \A j \in DOMAIN tiles : result[j] \in {"none", Verdict(j)}
      /\ spawnFailed \in Nat /\ panicked \in {"no", "yes"}
      /\ panicked = "yes" <=> Poisoned(slots) # {}
  BY <1>1, RunRecord
<1>4. slots[c].poisoned = "no"
  BY <1>1, <1>2, <1>3 DEF Accounted
<1>5. chunk' = [chunk EXCEPT ![c] = "running"]
  BY <1>1, <1>4
<1>6. chunk' \in [1..Len(slots) -> Ends \cup {"pending", "running", "skipped"}]
  BY <1>2, <1>5
<1>7. \A d \in 1..Len(slots) :
         chunk'[d] \in {"pending", "running"} <=> chunk[d] \in {"pending", "running"}
  BY <1>1, <1>2, <1>5
<1>8. \A d \in 1..Len(slots) :
         Retained(slots'[d]) + (IF chunk'[d] \in {"pending", "running"}
                                THEN Operation(batchPlan.chunk_size, d) ELSE 0)
            <= Load[d]
  BY <1>1, <1>2, <1>7
<1>9. \A d \in 1..Len(slots) : Accounted(slots', chunk', result', spawnFailed', d)
  <2> SUFFICES ASSUME NEW d \in 1..Len(slots)
               PROVE  Accounted(slots, chunk', result, spawnFailed, d)
    BY <1>1
  <2>1. CASE d = c
    <3>1. chunk'[d] = "running" /\ slots[d].poisoned = "no"
      BY <1>2, <1>4, <1>5, <2>1
    <3> QED
      BY <3>1 DEF Accounted
  <2>2. CASE d # c
    <3>1. chunk'[d] = chunk[d]
      BY <1>2, <1>5, <2>2
    <3>2. \A e \in DOMAIN chunk : chunk[e] \in {"refused", "panicked"}
             => e \in DOMAIN chunk' /\ chunk'[e] = chunk[e]
      BY <1>1, <1>5
    <3>3. Accounted(slots, chunk, result, spawnFailed, d)
      BY <1>3
    <3> QED
      BY <3>1, <3>2, <3>3 DEF Accounted
  <2> QED
    BY <2>1, <2>2
<1> QED
  BY <1>1, <1>2, <1>3, <1>6, <1>8, <1>9, RunStep

\* Leaving out chunks that have not begun.
LEMMA LeaveOut ==
    ASSUME JpegInv, phase = "run", NEW S, S \subseteq DOMAIN chunk,
           \A d \in S : chunk[d] = "pending",
           UNCHANGED <<kind, tiles, workers, phase, batchPlan, answer, result,
                       slots, panicked>>,
           spawnFailed' \in Nat, spawnFailed # 0 => spawnFailed' # 0,
           chunk' = [d \in DOMAIN chunk |-> IF d \in S THEN "skipped" ELSE chunk[d]],
           FailedChunks # {} \/ spawnFailed' # 0
    PROVE  JpegInv'
<1>2. /\ slots \in Seq(Slot) /\ DOMAIN chunk = 1..Len(slots)
      /\ chunk \in [1..Len(slots) -> Ends \cup {"pending", "running", "skipped"}]
      /\ \A d \in 1..Len(slots) :
             /\ Load[d] = Retained(slots[d])
                    + IF chunk[d] \in {"pending", "running"}
                      THEN Operation(batchPlan.chunk_size, d) ELSE 0
             /\ Load[d] \in Int /\ Retained(slots[d]) \in Nat
             /\ Operation(batchPlan.chunk_size, d) \in Nat
  BY RunState, SessionNumbers
<1>3. /\ \A d \in 1..Len(slots) : Accounted(slots, chunk, result, spawnFailed, d)
      /\ DOMAIN result = DOMAIN tiles
      /\ \A j \in DOMAIN tiles : result[j] \in {"none", Verdict(j)}
      /\ panicked \in {"no", "yes"} /\ (panicked = "yes" <=> Poisoned(slots) # {})
  BY RunRecord
<1>4. /\ chunk' \in [1..Len(slots) -> Ends \cup {"pending", "running", "skipped"}]
      /\ \A d \in 1..Len(slots) : chunk'[d] \in {"skipped", chunk[d]}
  BY <1>2
<1>5. \A d \in 1..Len(slots) :
         Retained(slots'[d]) + (IF chunk'[d] \in {"pending", "running"}
                                THEN Operation(batchPlan.chunk_size, d) ELSE 0)
            <= Load[d]
  <2> SUFFICES ASSUME NEW d \in 1..Len(slots)
               PROVE  Retained(slots[d]) + (IF chunk'[d] \in {"pending", "running"}
                                THEN Operation(batchPlan.chunk_size, d) ELSE 0)
                         <= Load[d]
    OBVIOUS
  <2>1. CASE chunk'[d] = "skipped"
    BY <1>2, <2>1
  <2>2. CASE chunk'[d] = chunk[d]
    BY <1>2, <2>2
  <2> QED
    BY <1>4, <2>1, <2>2
<1>6. (\E d \in DOMAIN chunk' : chunk'[d] \in {"refused", "panicked"})
         \/ spawnFailed' # 0
  BY DEF FailedChunks
<1>7. \A d \in 1..Len(slots) : Accounted(slots', chunk', result', spawnFailed', d)
  <2> SUFFICES ASSUME NEW d \in 1..Len(slots)
               PROVE  Accounted(slots, chunk', result, spawnFailed', d)
    OBVIOUS
  <2>1. CASE chunk'[d] = "skipped"
    BY <1>6, <2>1 DEF Accounted
  <2>2. CASE chunk'[d] = chunk[d]
    BY <1>3, <1>6, <2>2 DEF Accounted
  <2> QED
    BY <1>4, <2>1, <2>2
<1> QED
  BY <1>2, <1>3, <1>4, <1>5, <1>7, RunStep

\* A chunk that is never run keeps the invariant.
LEMMA SkipKeeps ==
    ASSUME JpegInv, NEW c \in DOMAIN chunk, SkipChunk(c)
    PROVE  JpegInv'
<1>1. /\ phase = "run" /\ chunk[c] = "pending" /\ FailedChunks # {}
      /\ UNCHANGED <<kind, tiles, workers, phase, batchPlan, answer, result,
                     slots, spawnFailed, panicked>>
      /\ chunk' = [chunk EXCEPT ![c] = "skipped"]
  BY DEF SkipChunk, inputVars
<1>2. spawnFailed \in Nat
  BY DEF JpegInv, JpegTypes
<1>3. chunk' = [d \in DOMAIN chunk |-> IF d \in {c} THEN "skipped" ELSE chunk[d]]
  BY <1>1
<1> QED
  BY <1>1, <1>2, <1>3, LeaveOut

\* A thread that does not start keeps the invariant.
LEMMA ThreadFailureKeeps ==
    ASSUME JpegInv, NEW c \in DOMAIN chunk, SpawnFails(c)
    PROVE  JpegInv'
<1>1. /\ phase = "run" /\ spawnFailed = 0
      /\ \A d \in c..batchPlan.worker_count : chunk[d] = "pending"
      /\ UNCHANGED <<kind, tiles, workers, phase, batchPlan, answer, result,
                     slots, panicked>>
      /\ spawnFailed' = c
      /\ chunk' = [d \in DOMAIN chunk |-> IF d < c THEN chunk[d] ELSE "skipped"]
  BY DEF SpawnFails, inputVars
<1>2. /\ DOMAIN chunk = 1..Len(slots) /\ batchPlan.worker_count = Len(slots)
      /\ Len(slots) \in Nat
  BY <1>1, RunState
<1> DEFINE S == c..Len(slots)
<1>3. /\ c \in Nat \ {0} /\ S \subseteq DOMAIN chunk
      /\ \A d \in S : chunk[d] = "pending"
  BY <1>1, <1>2
<1>4. \A d \in DOMAIN chunk : ~ (d < c) <=> d \in S
  BY <1>2, <1>3
<1> HIDE DEF S
<1>5. chunk' = [d \in DOMAIN chunk |-> IF d \in S THEN "skipped" ELSE chunk[d]]
  BY <1>1, <1>4
<1> QED
  BY <1>1, <1>3, <1>5, LeaveOut
\* What is left of an interval below a bound.
LEMMA Clipped ==
    ASSUME NEW n \in Nat, NEW x \in Nat, NEW z \in Nat, x < z, x < n
    PROVE  \E y \in Nat :
              x < y /\ \A j \in Int : j \in 1..n /\ x < j /\ j <= z <=> j \in (x + 1)..y
<1>1. CASE z <= n
  <2>1. \A j \in Int : j \in 1..n /\ x < j /\ j <= z <=> j \in (x + 1)..z
    BY <1>1
  <2> QED
    BY <2>1
<1>2. CASE ~ (z <= n)
  <2>1. \A j \in Int : j \in 1..n /\ x < j /\ j <= z <=> j \in (x + 1)..n
    BY <1>2
  <2> QED
    BY <2>1
<1> QED
  BY <1>1, <1>2

\* A chunk is an interval: its tiles follow its first.
LEMMA ChunkInterval ==
    ASSUME tiles \in Calls \cup {<<>>}, NEW size \in Nat \ {0},
           NEW c \in 1..DivCeil(Len(tiles), size)
    PROVE  LET mine == ChunkOf(size, c)
           IN  /\ Cardinality(mine) \in Nat /\ mine \subseteq DOMAIN tiles
               /\ \A j \in mine : j < Min(mine) + Cardinality(mine)
<1> DEFINE x == (c - 1) * size
<1>1. Len(tiles) \in Nat /\ DOMAIN tiles = 1..Len(tiles)
  BY TilesTyped
<1>2. DivCeil(Len(tiles), size) \in Nat
  BY <1>1, Ceiling
<1>3. c \in Nat /\ x \in Nat /\ x < Len(tiles)
  BY <1>1, <1>2, CutStarts
<1>4. c * size = x + size
  BY <1>3
<1>5. /\ ChunkOf(size, c) \subseteq 1..Len(tiles)
      /\ \A j \in 1..Len(tiles) : j \in ChunkOf(size, c) <=> x < j /\ j <= x + size
  BY <1>1, <1>4 DEF ChunkOf
<1> HIDE DEF x
<1>6. x + size \in Nat /\ x < x + size
  BY <1>3
<1>7. PICK y \in Nat : x < y /\ ChunkOf(size, c) = (x + 1)..y
  <2> DEFINE n == Len(tiles)
  <2> DEFINE z == x + size
  <2>1. n \in Nat /\ x \in Nat /\ z \in Nat /\ x < z /\ x < n
    BY <1>1, <1>3, <1>6
  <2> HIDE DEF n, z
  <2>2. PICK y \in Nat :
          x < y /\ \A j \in Int : j \in 1..n /\ x < j /\ j <= z <=> j \in (x + 1)..y
    BY <2>1, Clipped
  <2>3. ChunkOf(size, c) \subseteq Int /\ (x + 1)..y \subseteq Int
    BY <1>5
  <2>4. \A j \in Int : j \in ChunkOf(size, c) <=> j \in (x + 1)..y
    BY <1>5, <2>2 DEF n, z
  <2>5. ChunkOf(size, c) = (x + 1)..y
    BY <2>3, <2>4
  <2> QED
    BY <2>2, <2>5
<1>8. Cardinality((x + 1)..y) = y - x
  BY <1>3, <1>7, FS_Interval
<1>9. Min((x + 1)..y) = x + 1
  <2>1. /\ (x + 1)..y \subseteq Nat /\ x + 1 \in (x + 1)..y
        /\ \A k \in (x + 1)..y : x + 1 <= k
    BY <1>3, <1>7
  <2> QED
    BY <2>1, MinIs
<1>10. ChunkOf(size, c) \subseteq DOMAIN tiles
  BY DEF ChunkOf
<1> QED
  BY <1>3, <1>7, <1>8, <1>9, <1>10

\* The fields of a slot.
LEMMA SlotFields ==
    ASSUME NEW s \in Slot
    PROVE  /\ s.ctx \in Nat /\ s.pool \in Nat /\ Retained(s) = s.ctx + s.pool
           /\ s.poisoned \in {"no", "yes"}
  BY SessionNumbers DEF Slot, Retained

\* A slot that is replaced.
LEMMA SlotReplaced ==
    ASSUME NEW ss \in Seq(Slot), NEW c \in DOMAIN ss, NEW new \in Slot,
           NEW tt, tt = [ss EXCEPT ![c] = new]
    PROVE  /\ tt \in Seq(Slot) /\ Len(tt) = Len(ss) /\ DOMAIN tt = DOMAIN ss
           /\ tt[c] = new /\ \A i \in DOMAIN ss \ {c} : tt[i] = ss[i]
  OBVIOUS

\* A chunk that ends, or panics, keeps the invariant.
LEMMA EndKeeps ==
    ASSUME JpegInv, NEW c \in DOMAIN chunk, NEW end \in {"ok", "refused", "panicked"},
           EndChunk(c, end)
    PROVE  JpegInv'
<1> DEFINE size == batchPlan.chunk_size
<1> DEFINE mine == ChunkOf(size, c)
<1> DEFINE mark == IF end = "panicked" THEN "yes" ELSE "no"
<1>1. /\ phase = "run" /\ chunk[c] = "running"
      /\ UNCHANGED <<kind, tiles, workers, phase, batchPlan, answer, spawnFailed>>
      /\ chunk' = [chunk EXCEPT ![c] = end]
      /\ panicked' = IF end = "panicked" THEN "yes" ELSE panicked
  BY DEF EndChunk, inputVars
<1>2. /\ slots \in Seq(Slot) /\ DOMAIN chunk = 1..Len(slots) /\ DOMAIN slots = 1..Len(slots)
      /\ chunk \in [1..Len(slots) -> Ends \cup {"pending", "running", "skipped"}]
      /\ size \in Nat \ {0} /\ tiles \in Calls
      /\ Len(slots) = DivCeil(Len(tiles), size)
      /\ \A d \in 1..Len(slots) :
             /\ Load[d] = Retained(slots[d])
                    + IF chunk[d] \in {"pending", "running"}
                      THEN Operation(size, d) ELSE 0
             /\ Load[d] \in 0..CodecCap /\ Retained(slots[d]) \in Nat
             /\ Operation(size, d) \in 0..CodecCap
  BY <1>1, RunState
<1>3. /\ \A d \in 1..Len(slots) : Accounted(slots, chunk, result, spawnFailed, d)
      /\ DOMAIN result = DOMAIN tiles
      /\ \A j \in DOMAIN tiles : result[j] \in {"none", Verdict(j)}
      /\ spawnFailed \in Nat /\ panicked \in {"no", "yes"}
      /\ (panicked = "yes" <=> Poisoned(slots) # {})
  BY <1>1, RunRecord
<1>4. /\ Cardinality(mine) \in Nat /\ mine \subseteq DOMAIN tiles
      /\ \A j \in mine : j < Min(mine) + Cardinality(mine)
  BY <1>2, ChunkInterval
<1>5. PICK n \in 0..Cardinality(mine) :
        /\ (n = Cardinality(mine)) <=> (end = "ok")
        /\ result' = [j \in DOMAIN result |-> IF j \in mine /\ j < Min(mine) + n
                                              THEN Verdict(j) ELSE result[j]]
  BY DEF EndChunk, Verdict
<1>6. PICK bytes \in 0..Operation(size, c) :
        slots' = [slots EXCEPT ![c] = [ctx |-> @.ctx, pool |-> @.pool + bytes,
                                       poisoned |-> mark]]
  BY DEF EndChunk
<1> HIDE DEF size, mine, mark
<1>7. /\ DOMAIN result' = DOMAIN tiles
      /\ \A j \in DOMAIN tiles : result'[j] \in {Verdict(j), result[j]}
      /\ end = "ok" => \A j \in mine : result'[j] = Verdict(j)
  BY <1>3, <1>4, <1>5
<1>8. \A j \in DOMAIN tiles : result'[j] \in {"none", Verdict(j)}
  BY <1>3, <1>7
<1>9. /\ bytes \in Nat /\ slots[c].pool + bytes <= CodecCap
      /\ Retained(slots[c]) + bytes <= Load[c] /\ Load[c] \in Nat
  <2>1. /\ Load[c] = Retained(slots[c]) + Operation(size, c)
        /\ Load[c] \in 0..CodecCap /\ Operation(size, c) \in 0..CodecCap
    BY <1>1, <1>2
  <2>2. /\ slots[c].pool \in Nat /\ slots[c].ctx \in Nat
        /\ Retained(slots[c]) = slots[c].ctx + slots[c].pool
    BY <1>2, SlotFields
  <2>3. bytes \in Nat /\ bytes <= Operation(size, c)
    BY <2>1, SessionNumbers
  <2> QED
    BY <2>1, <2>2, <2>3, SessionNumbers
<1>10. mark \in {"no", "yes"}
  BY DEF mark
<1>11. /\ slots' \in Seq(Slot) /\ Len(slots') = Len(slots) /\ DOMAIN slots' = DOMAIN slots
       /\ Retained(slots'[c]) = Retained(slots[c]) + bytes /\ slots'[c].poisoned = mark
       /\ \A i \in DOMAIN slots \ {c} : slots'[i] = slots[i]
  <2> DEFINE new == [ctx |-> slots[c].ctx, pool |-> slots[c].pool + bytes,
                     poisoned |-> mark]
  <2>1. slots[c] \in Slot /\ c \in DOMAIN slots
    BY <1>2
  <2>2. /\ slots[c].pool \in Nat /\ slots[c].ctx \in 0..CodecCap
        /\ Retained(slots[c]) = slots[c].ctx + slots[c].pool
    BY <2>1, SlotFields DEF Slot
  <2>3. new \in Slot
    BY <1>9, <1>10, <2>2, SessionNumbers DEF Slot
  <2>4. Retained(new) = Retained(slots[c]) + bytes /\ new.poisoned = mark
    BY <1>9, <2>2, SessionNumbers DEF Retained
  <2>5. slots' = [slots EXCEPT ![c] = new]
    BY <1>6
  <2> HIDE DEF new
  <2>6. /\ slots' \in Seq(Slot) /\ Len(slots') = Len(slots) /\ DOMAIN slots' = DOMAIN slots
        /\ slots'[c] = new /\ \A i \in DOMAIN slots \ {c} : slots'[i] = slots[i]
    BY <1>2, <2>1, <2>3, <2>5, SlotReplaced
  <2> QED
    BY <2>4, <2>6
<1>12. /\ chunk' \in [1..Len(slots) -> Ends \cup {"pending", "running", "skipped"}]
       /\ chunk'[c] = end /\ DOMAIN chunk' = DOMAIN chunk
       /\ \A d \in DOMAIN chunk \ {c} : chunk'[d] = chunk[d]
  BY <1>1, <1>2 DEF Ends
<1>13. \A d \in 1..Len(slots) :
          Retained(slots'[d]) + (IF chunk'[d] \in {"pending", "running"}
                                 THEN Operation(batchPlan.chunk_size, d) ELSE 0)
             <= Load[d]
  <2> SUFFICES ASSUME NEW d \in 1..Len(slots)
               PROVE  Retained(slots'[d]) + (IF chunk'[d] \in {"pending", "running"}
                                 THEN Operation(size, d) ELSE 0)
                         <= Load[d]
    BY DEF size
  <2>1. CASE d = c
    <3>1. Retained(slots'[c]) + 0 <= Load[c] /\ chunk'[c] \notin {"pending", "running"}
      BY <1>2, <1>9, <1>11, <1>12
    <3> QED
      BY <2>1, <3>1
  <2>2. CASE d # c
    <3>1. slots'[d] = slots[d] /\ chunk'[d] = chunk[d]
      BY <1>2, <1>11, <1>12, <2>2
    <3> QED
      BY <1>2, <3>1, SessionNumbers
  <2> QED
    BY <2>1, <2>2
<1>14. slots[c].poisoned = "no"
  BY <1>1, <1>2, <1>3 DEF Accounted
<1>15. panicked' = "yes" <=> Poisoned(slots') # {}
  <2>1. CASE end = "panicked"
    <3>1. panicked' = "yes" /\ slots'[c].poisoned = "yes" /\ c \in DOMAIN slots'
      BY <1>1, <1>2, <1>11, <2>1 DEF mark
    <3> QED
      BY <3>1 DEF Poisoned
  <2>2. CASE end # "panicked"
    <3>1. panicked' = panicked /\ slots'[c].poisoned = "no"
      BY <1>1, <1>11, <2>2 DEF mark
    <3>2. Poisoned(slots') = Poisoned(slots)
      BY <1>11, <1>14, <3>1 DEF Poisoned
    <3> QED
      BY <1>3, <3>1, <3>2
  <2> QED
    BY <2>1, <2>2
<1>16. \A d \in 1..Len(slots) : Accounted(slots', chunk', result', spawnFailed', d)
  <2> SUFFICES ASSUME NEW d \in 1..Len(slots)
               PROVE  Accounted(slots', chunk', result', spawnFailed', d)
    OBVIOUS
  <2>1. CASE d = c
    BY <1>7, <1>12, <2>1 DEF Accounted, mine, size
  <2>2. CASE d # c
    <3>1. slots'[d] = slots[d] /\ chunk'[d] = chunk[d]
      BY <1>2, <1>11, <1>12, <2>2
    <3>2. \A s, e : ChunkOf(s, e) \subseteq DOMAIN tiles
      BY DEF ChunkOf
    <3>3. Accounted(slots, chunk, result, spawnFailed, d)
      BY <1>3
    <3>4. \A e \in DOMAIN chunk : chunk[e] \in {"refused", "panicked"}
             => e \in DOMAIN chunk' /\ chunk'[e] \in {"refused", "panicked"}
      BY <1>1, <1>12
    <3>5. \A j \in DOMAIN tiles : result[j] = Verdict(j) => result'[j] = Verdict(j)
      BY <1>7
    <3> QED
      BY <1>1, <3>1, <3>2, <3>3, <3>4, <3>5 DEF Accounted
  <2> QED
    BY <2>1, <2>2
<1> QED
  BY <1>1, <1>3, <1>7, <1>8, <1>11, <1>12, <1>13, <1>15, <1>16, RunStep
\* When no thread and no chunk failed, every tile was decoded.
LEMMA AllDecoded ==
    ASSUME JpegInv, phase = "run", FailedChunks = {}, spawnFailed = 0,
           \A c \in DOMAIN chunk : chunk[c] \notin {"pending", "running"}
    PROVE  \A j \in DOMAIN tiles : result[j] = Verdict(j)
<1>1. /\ DOMAIN chunk = 1..Len(slots) /\ tiles \in Calls
      /\ chunk \in [1..Len(slots) -> Ends \cup {"pending", "running", "skipped"}]
      /\ batchPlan.chunk_size \in Nat \ {0}
      /\ Len(slots) = DivCeil(Len(tiles), batchPlan.chunk_size)
  BY RunState
<1>2. \A c \in 1..Len(slots) : Accounted(slots, chunk, result, spawnFailed, c)
  BY RunRecord
<1>3. \A c \in 1..Len(slots) : chunk[c] = "ok"
  <2> SUFFICES ASSUME NEW c \in 1..Len(slots) PROVE chunk[c] = "ok"
    OBVIOUS
  <2>1. chunk[c] \in {"ok", "refused", "panicked", "pending", "running", "skipped"}
    BY <1>1 DEF Ends
  <2>2. chunk[c] \notin {"refused", "panicked"}
    BY <1>1 DEF FailedChunks
  <2>3. chunk[c] # "skipped"
    BY <1>2 DEF Accounted, FailedChunks
  <2> QED
    BY <1>1, <2>1, <2>2, <2>3
<1>4. \A c \in 1..Len(slots) : \A j \in ChunkOf(batchPlan.chunk_size, c) :
         result[j] = Verdict(j)
  BY <1>2, <1>3 DEF Accounted
<1>5. Len(tiles) \in Nat /\ DOMAIN tiles = 1..Len(tiles)
  BY <1>1, TilesTyped
<1>6. \A j \in 1..Len(tiles) : \E c \in 1..DivCeil(Len(tiles), batchPlan.chunk_size) :
         /\ (c - 1) * batchPlan.chunk_size < j
         /\ j <= c * batchPlan.chunk_size
  BY <1>1, <1>5, CutCovers
<1>7. \A j \in 1..Len(tiles) : \E c \in 1..Len(slots) :
         j \in ChunkOf(batchPlan.chunk_size, c)
  BY <1>1, <1>5, <1>6 DEF ChunkOf
<1> QED
  BY <1>4, <1>5, <1>7

\* What a batch that was decoded answers.
LEMMA AnswerOfBatch ==
    ASSUME JpegInv, FinishBatch
    PROVE  /\ answer'.what \notin {"missing", "none", "poisoned"}
           /\ answer'.what \in {"ok", "tile", "results"} =>
                 /\ FailedChunks = {} /\ spawnFailed = 0
                 /\ \A j \in DOMAIN tiles : result[j] = Verdict(j)
           /\ answer'.what = "ok" => Errs = {}
           /\ answer'.what = "tile" =>
                 BadHeaders = {} /\ Errs # {} /\ answer'.at = Min(Errs)
<1>1. phase = "run" /\ \A c \in DOMAIN chunk : chunk[c] \notin {"pending", "running"}
  BY DEF FinishBatch
<1>2. FailedChunks = {} /\ spawnFailed = 0 =>
         \A j \in DOMAIN tiles : result[j] = Verdict(j)
  BY <1>1, AllDecoded
<1>3. FailedChunks = {} /\ spawnFailed = 0 => Missing = {}
  <2>1. DOMAIN result = DOMAIN tiles
    BY <1>1, RunRecord
  <2>2. \A j \in DOMAIN tiles : Verdict(j) # "none"
    BY DEF Verdict
  <2> QED
    BY <1>2, <2>1, <2>2 DEF Missing
<1>4. kind = "regular" => BadHeaders = {}
  BY <1>1 DEF JpegInv, HeadersChecked
<1>5. CASE answer' = Outcome("too_large", 0)
  BY <1>5 DEF Outcome
<1>6. CASE answer' = Finished
  <2>1. CASE spawnFailed # 0
    BY <1>6, <2>1 DEF Finished, Outcome
  <2>2. CASE spawnFailed = 0 /\ FailedChunks # {}
    <3>1. FailedChunks \subseteq Nat
      <4>1. DOMAIN chunk = 1..Len(slots)
        BY <1>1, RunState
      <4> QED
        BY <4>1 DEF FailedChunks
    <3>2. Min(FailedChunks) \in FailedChunks
      BY <2>2, <3>1, MinIsLeast
    <3>3. chunk[Min(FailedChunks)] \in {"refused", "panicked"}
      BY <3>2 DEF FailedChunks
    <3>4. answer'.what \in {"unwound", "panicked", "refused"}
      BY <1>6, <2>2, <3>3 DEF Finished, Outcome
    <3> QED
      BY <3>4
  <2>3. CASE spawnFailed = 0 /\ FailedChunks = {}
    <3>1. Missing = {}
      BY <1>3, <2>3
    <3>2. \/ answer' = Outcome("too_large", 0)
          \/ answer' = Outcome(IF kind = "regular" THEN "ok" ELSE "results", 0)
          \/ kind = "regular" /\ Errs # {} /\ answer' = Outcome("tile", Min(Errs))
      BY <1>6, <2>3, <3>1 DEF Finished
    <3>3. answer' = Outcome("ok", 0) => Errs = {}
      BY <1>6, <2>3, <3>1 DEF Finished, Outcome
    <3>4. CASE answer' = Outcome("too_large", 0)
      BY <3>4 DEF Outcome
    <3>5. CASE answer' = Outcome(IF kind = "regular" THEN "ok" ELSE "results", 0)
      BY <1>2, <2>3, <3>3, <3>5 DEF Outcome
    <3>6. CASE kind = "regular" /\ Errs # {} /\ answer' = Outcome("tile", Min(Errs))
      BY <1>2, <1>4, <2>3, <3>6 DEF Outcome
    <3> QED
      BY <3>2, <3>4, <3>5, <3>6
  <2> QED
    BY <2>1, <2>2, <2>3
<1> QED
  BY <1>5, <1>6 DEF FinishBatch, Answer

\* Collecting the results keeps the invariant.
LEMMA FinishKeeps ==
    ASSUME JpegInv, FinishBatch
    PROVE  JpegInv'
<1>1. /\ phase = "run" /\ phase' = "idle"
      /\ UNCHANGED <<kind, tiles, workers, batchPlan, spawnFailed, chunk, result,
                     slots, panicked>>
  BY DEF FinishBatch, Answer, inputVars, runVars
<1>2. /\ slots \in Seq(Slot) /\ RetainedTotal(slots) <= CodecCap
      /\ workers \in 0..Available /\ tiles \in Calls \cup {<<>>}
      /\ DOMAIN result = DOMAIN tiles
      /\ \A j \in DOMAIN tiles : result[j] \in {"none", "ok", "err"}
  BY DEF JpegInv, JpegTypes, CodecWithinCap
<1>3. /\ spawnFailed \in Nat /\ panicked \in {"no", "yes"}
      /\ (panicked = "yes" <=> Poisoned(slots) # {})
  BY <1>1, RunRecord
<1>4. /\ answer'.what \notin {"missing", "none", "poisoned"}
      /\ answer'.what \in {"ok", "tile", "results"} =>
            /\ FailedChunks = {} /\ spawnFailed = 0
            /\ \A j \in DOMAIN tiles : result[j] = Verdict(j)
      /\ answer'.what = "ok" => Errs = {}
      /\ answer'.what = "tile" =>
            BadHeaders = {} /\ Errs # {} /\ answer'.at = Min(Errs)
  BY AnswerOfBatch
<1>5. JpegTypes'
  BY <1>1, <1>2, <1>3 DEF JpegTypes
<1>6. HeadersChecked' /\ Untouched' /\ Decoded'
  BY <1>1 DEF HeadersChecked, Untouched, Decoded
<1>7. CodecWithinCap' /\ PoisonUntilReset'
  BY <1>1, <1>2, <1>3, <1>4 DEF CodecWithinCap, PoisonUntilReset
<1>8. AnswerFaithful'
  <2>1. FailedChunks' = FailedChunks /\ BadHeaders' = BadHeaders
    BY <1>1 DEF FailedChunks, BadHeaders
  <2>2. answer'.what = "ok" => \A j \in DOMAIN result : tiles[j].nature = "good"
    BY <1>2, <1>4 DEF Errs, Verdict
  <2>3. answer'.what = "results" => \A j \in DOMAIN result :
            result[j] = IF tiles[j].nature = "good" THEN "ok" ELSE "err"
    BY <1>2, <1>4 DEF Verdict
  <2>4. answer'.what = "tile" =>
           /\ answer'.at \in DOMAIN tiles /\ tiles[answer'.at].nature # "good"
           /\ \A j \in DOMAIN tiles :
                 j < answer'.at => tiles[j].nature # tiles[answer'.at].nature
    <3> SUFFICES ASSUME answer'.what = "tile"
                 PROVE  /\ answer'.at \in DOMAIN tiles
                        /\ tiles[answer'.at].nature # "good"
                        /\ \A j \in DOMAIN tiles :
                              j < answer'.at => tiles[j].nature = "good"
      OBVIOUS
    <3>1. Errs # {} /\ answer'.at = Min(Errs)
      BY <1>4
    <3>2. \A j \in DOMAIN tiles : j \in Errs <=> tiles[j].nature # "good"
      BY <1>2, <1>4 DEF Errs, Verdict
    <3>3. Errs \subseteq DOMAIN tiles /\ DOMAIN tiles \subseteq Nat
      BY <1>2, TilesTyped DEF Errs
    <3>4. answer'.at \in Errs /\ \A j \in Errs : answer'.at <= j
      BY <3>1, <3>3, MinIsLeast
    <3>5. ASSUME NEW j \in DOMAIN tiles, j < answer'.at
          PROVE  tiles[j].nature = "good"
      <4>1. j \in Nat /\ answer'.at \in Nat
        BY <3>3, <3>4
      <4>2. j \notin Errs
        BY <3>4, <3>5, <4>1
      <4> QED
        BY <3>2, <4>2
    <3> QED
      BY <3>2, <3>3, <3>4, <3>5
  <2> QED
    BY <1>1, <1>4, <2>1, <2>2, <2>3, <2>4 DEF AnswerFaithful
<1> QED
  BY <1>5, <1>6, <1>7, <1>8 DEF JpegInv

\* reset keeps the invariant.
LEMMA ResetKeeps ==
    ASSUME JpegInv, Reset
    PROVE  JpegInv'
<1> DEFINE clean(s) == [[s EXCEPT !.ctx = 0] EXCEPT !.poisoned = "no"]
<1>1. /\ phase' = "idle" /\ panicked' = "no" /\ answer'.what = "none"
      /\ UNCHANGED <<kind, tiles, workers, spawnFailed, chunk, result>>
      /\ slots' = [i \in DOMAIN slots |-> clean(slots[i])]
  BY DEF Reset, inputVars, runVars, Outcome
<1>2. /\ slots \in Seq(Slot) /\ RetainedTotal(slots) <= CodecCap
      /\ workers \in 0..Available /\ tiles \in Calls \cup {<<>>}
      /\ DOMAIN result = DOMAIN tiles /\ spawnFailed \in Nat
      /\ \A j \in DOMAIN tiles : result[j] \in {"none", "ok", "err"}
  BY DEF JpegInv, JpegTypes, CodecWithinCap
<1>3. \A s \in Slot : /\ clean(s) \in Slot /\ clean(s).poisoned = "no"
                      /\ Retained(clean(s)) <= Retained(s)
  <2> SUFFICES ASSUME NEW s \in Slot
               PROVE  /\ clean(s) \in Slot /\ clean(s).poisoned = "no"
                      /\ Retained(clean(s)) <= Retained(s)
    OBVIOUS
  <2>1. [s EXCEPT !.ctx = 0] \in Slot
    BY SessionNumbers DEF Slot
  <2>2. /\ [s EXCEPT !.ctx = 0].ctx = 0
        /\ [s EXCEPT !.ctx = 0].pool = s.pool
    BY DEF Slot
  <2>3. /\ clean(s) \in Slot /\ clean(s).poisoned = "no"
        /\ clean(s).ctx = 0 /\ clean(s).pool = s.pool
    BY <2>1, <2>2 DEF Slot
  <2> HIDE DEF clean
  <2>4. /\ s.ctx \in Nat /\ s.pool \in Nat /\ Retained(s) = s.ctx + s.pool
        /\ Retained(clean(s)) = 0 + s.pool
    BY <2>3, SlotFields
  <2> QED
    BY <2>3, <2>4
<1> HIDE DEF clean
<1>4. /\ slots' = [i \in DOMAIN slots |-> slots'[i]]
      /\ \A i \in DOMAIN slots : /\ slots'[i] \in Slot
                                 /\ Retained(slots'[i]) <= Retained(slots[i])
                                 /\ slots'[i].poisoned = "no"
  <2>1. \A i \in DOMAIN slots : slots[i] \in Slot
    BY <1>2, SlotsAreFunctions
  <2> QED
    BY <1>1, <1>3, <2>1
<1>5. /\ slots' \in Seq(Slot) /\ DOMAIN slots' = DOMAIN slots
      /\ RetainedTotal(slots') <= RetainedTotal(slots)
  BY <1>2, <1>4, SlotsLighter
<1>6. RetainedTotal(slots') <= CodecCap
  <2>1. RetainedTotal(slots') \in Nat /\ RetainedTotal(slots) \in Nat
    BY <1>2, <1>5, SlotsAreFunctions
  <2> QED
    BY <1>2, <1>5, <2>1, SessionNumbers
<1>7. Poisoned(slots') = {}
  BY <1>4, <1>5 DEF Poisoned
<1> QED
  BY <1>1, <1>2, <1>5, <1>6, <1>7, IdleKeeps

\* set_options keeps the invariant.
LEMMA OptionsKeep ==
    ASSUME JpegInv, SetOptions
    PROVE  JpegInv'
<1>1. /\ phase = "idle" /\ phase' = "idle" /\ workers' \in 0..Available
      /\ UNCHANGED <<kind, tiles, batchPlan, spawnFailed, chunk, result, slots,
                     answer, panicked>>
  BY DEF SetOptions, runVars
<1>2. JpegTypes'
  BY <1>1 DEF JpegInv, JpegTypes
<1>3. HeadersChecked' /\ Untouched' /\ Decoded'
  BY <1>1 DEF HeadersChecked, Untouched, Decoded
<1>4. CodecWithinCap' /\ PoisonUntilReset'
  BY <1>1 DEF JpegInv, CodecWithinCap, PoisonUntilReset
<1>5. AnswerFaithful'
  BY <1>1 DEF JpegInv, AnswerFaithful, FailedChunks, BadHeaders
<1> QED
  BY <1>2, <1>3, <1>4, <1>5 DEF JpegInv

\* A step that changes nothing keeps the invariant.
LEMMA JpegStutters ==
    ASSUME JpegInv, UNCHANGED jpegVars
    PROVE  JpegInv'
<1>1. UNCHANGED <<slots, workers, phase, kind, tiles, batchPlan, spawnFailed, chunk,
                  result, answer, panicked>>
  BY DEF jpegVars
<1>2. JpegTypes' /\ HeadersChecked' /\ Untouched'
  BY <1>1 DEF JpegInv, JpegTypes, HeadersChecked, BadHeaders, Untouched
<1>3. \A s, c : /\ ChunkOf(s, c)' = ChunkOf(s, c)
               /\ Operation(s, c)' = Operation(s, c)
  BY <1>1 DEF ChunkOf, Operation
<1>4. Load' = Load /\ Decoding' = Decoding
  BY <1>1, <1>3 DEF Load, Decoding
<1>5. CodecWithinCap' /\ PoisonUntilReset'
  BY <1>1, <1>4 DEF JpegInv, CodecWithinCap, PoisonUntilReset
<1>6. AnswerFaithful'
  BY <1>1 DEF JpegInv, AnswerFaithful, FailedChunks, BadHeaders
<1>7. Decoded'
  BY <1>1, <1>3, <1>4 DEF JpegInv, Decoded, FailedChunks, Verdict
<1> QED
  BY <1>2, <1>5, <1>6, <1>7 DEF JpegInv

\* The invariant of a session holds in every state it reaches, for any calls,
\* caps and numbers of workers.
THEOREM JpegInvariant == JpegSpec => []JpegInv
<1>1. JpegInit => JpegInv
  BY JpegInitially
<1>2. JpegInv /\ [JpegNext]_jpegVars => JpegInv'
  <2> SUFFICES ASSUME JpegInv, [JpegNext]_jpegVars PROVE JpegInv'
    OBVIOUS
  <2>1. ASSUME NEW how, NEW input \in Calls, Begin(how, input) PROVE JpegInv'
    BY <2>1, BeginKeeps
  <2>2. CASE PlanJobs
    BY <2>2, PlanJobsKeeps
  <2>3. CASE PrepareBatch
    BY <2>3, PrepareKeeps
  <2>4. CASE FinishBatch
    BY <2>4, FinishKeeps
  <2>5. CASE Reset
    BY <2>5, ResetKeeps
  <2>6. CASE SetOptions
    BY <2>6, OptionsKeep
  <2>7. ASSUME NEW c \in DOMAIN chunk, StartChunk(c) PROVE JpegInv'
    BY <2>7, StartKeeps
  <2>8. ASSUME NEW c \in DOMAIN chunk, SkipChunk(c) PROVE JpegInv'
    BY <2>8, SkipKeeps
  <2>9. ASSUME NEW c \in DOMAIN chunk, SpawnFails(c) PROVE JpegInv'
    BY <2>9, ThreadFailureKeeps
  <2>10. ASSUME NEW c \in DOMAIN chunk, NEW end \in {"ok", "refused", "panicked"},
                EndChunk(c, end)
         PROVE  JpegInv'
    BY <2>10, EndKeeps
  <2>11. CASE UNCHANGED jpegVars
    BY <2>11, JpegStutters
  <2> QED
    BY <2>1, <2>2, <2>3, <2>4, <2>5, <2>6, <2>7, <2>8, <2>9, <2>10, <2>11 DEF JpegNext
<1> QED
  BY <1>1, <1>2, PTL DEF JpegSpec

\* Codec memory of a JPEG session: whatever earlier batches left in the worker
\* slots, a batch that prepare_batch admits stays within the codec cap, for any
\* number of batches, tiles and workers.
THEOREM SessionWithinCap == JpegSpec => []CodecWithinCap
<1>1. JpegInv => CodecWithinCap
  BY DEF JpegInv
<1> QED
  BY <1>1, JpegInvariant, PTL

\* prepare_job_planning refuses a batch as poisoned exactly from a panic of a
\* chunk to the next reset.
THEOREM SessionPoisoned == JpegSpec => []PoisonUntilReset
<1>1. JpegInv => PoisonUntilReset
  BY DEF JpegInv
<1> QED
  BY <1>1, JpegInvariant, PTL

\* The answer of decode_tiles_into accounts for every tile: no result is
\* missing, a failing tile is named that is the first to fail in its way, and
\* failing threads are not hidden, for any order in which the chunks run.
THEOREM SessionAnswers == JpegSpec => []AnswerFaithful
<1>1. JpegInv => AnswerFaithful
  BY DEF JpegInv
<1> QED
  BY <1>1, JpegInvariant, PTL
=============================================================================
