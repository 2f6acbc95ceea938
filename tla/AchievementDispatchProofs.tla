---------------------- MODULE AchievementDispatchProofs ----------------------
(***************************************************************************)
(* Theorems about AchievementDispatch, for all events, achievements,       *)
(* definitions, replicas and bounds: that it implements                    *)
(* AchievementCounting and the safety of HandOff, that rewards are right   *)
(* and no failure is swallowed, and its types.                             *)
(***************************************************************************)
EXTENDS AchievementDispatch, BullJobsProofs, TLAPS

\* What a worker may have read: a definition that matches its event.
TodoSound(r) ==
    /\ r = [pc |-> "loop", event |-> r.event, failed |-> r.failed, todo |-> r.todo]
    /\ r.event \in Events
    /\ r.failed \in BOOLEAN
    /\ DOMAIN r.todo \subseteq Achievements
    /\ \A a \in DOMAIN r.todo :
         r.todo[a] \in Definitions /\ Matches(r.todo[a], r.event)

WorkersSound ==
    /\ worker = [w \in Workers |-> worker[w]]
    /\ \A w \in Workers : worker[w] = Resting \/ TodoSound(worker[w])

\* What the administration has made of the definitions.
DefinitionsSound ==
    /\ definition \in [Achievements ->
                          Definitions \cup {NoDefinition}
                            \cup {[d EXCEPT !.active = FALSE] : d \in Definitions}]
    /\ edited \subseteq Achievements

EffectsTyped ==
    /\ processed \subseteq Events \X Achievements
    /\ progress \in [Users -> [Achievements -> Progress]]
    /\ paid \in [Users -> Seq(Reward)]

CoreInv == WorkersSound /\ DefinitionsSound /\ EffectsTyped

-----------------------------------------------------------------------------
\* Whatever counts has a positive increment or none, and leaves a progress row.
LEMMA AdvancedTyped ==
    ASSUME NEW p \in Progress, NEW d \in Definitions, NEW e \in Events,
           ShouldProcess(d, e)
    PROVE  /\ Advanced(p, d, e) \in Progress
           /\ p.unlocked => Advanced(p, d, e) = p
           /\ ~p.unlocked =>
                (Advanced(p, d, e).unlocked
                    <=> Advanced(p, d, e).current >= Advanced(p, d, e).target)
<1>1. d \in Definition /\ AmountOf[e] \in Int
  BY AchievementRulesAssumption
<1>2. IncrementBy(d, e) \in Nat
  BY <1>1 DEF IncrementBy, ShouldProcess
<1>3. d.target \in Nat \ {0}
  BY <1>1 DEF Definition
<1>4. p.current + IncrementBy(d, e) \in Nat /\ p.unlocked \in BOOLEAN
  BY <1>2 DEF Progress
<1>5. CASE p.unlocked
  BY <1>5 DEF Advanced
<1>6. CASE ~p.unlocked
  <2> DEFINE c == p.current + IncrementBy(d, e)
  <2>1. Advanced(p, d, e) = [current |-> c, target |-> d.target, unlocked |-> c >= d.target]
    BY <1>6 DEF Advanced
  <2>2. c \in Nat /\ (c >= d.target) \in BOOLEAN
    BY <1>3, <1>4
  <2> DEFINE b == c >= d.target
  <2> HIDE DEF b
  <2>3. b \in BOOLEAN /\ (b <=> c >= d.target)
    BY <2>2 DEF b
  <2>4. Advanced(p, d, e) = [current |-> c, target |-> d.target, unlocked |-> b]
    BY <2>1 DEF b
  <2> HIDE DEF c
  <2>5. Advanced(p, d, e) \in Progress
    BY <2>2, <2>3, <2>4, <1>3 DEF Progress
  <2>6. /\ Advanced(p, d, e).unlocked = b /\ Advanced(p, d, e).current = c
        /\ Advanced(p, d, e).target = d.target
    BY <2>4
  <2> QED
    BY <2>3, <2>5, <2>6, <1>6
<1> QED
  BY <1>5, <1>6

\* A payment adds at most one reward, of the achievement that unlocks.
LEMMA PaidShape ==
    ASSUME NEW s \in Seq(Reward), NEW p \in Progress, NEW a \in Achievements,
           NEW d \in Definitions, NEW e \in Events
    PROVE  /\ Paid(s, p, a, d, e) \in Seq(Reward)
           /\ \/ Paid(s, p, a, d, e) = s
              \/ /\ ~p.unlocked /\ Advanced(p, d, e).unlocked
                 /\ Paid(s, p, a, d, e) = Append(s, [achievement |-> a, points |-> d.reward])
<1>1. d.reward \in Nat
  BY AchievementRulesAssumption DEF Definition
<1>2. CASE ~p.unlocked /\ Advanced(p, d, e).unlocked /\ d.reward > 0
  <2>1. [achievement |-> a, points |-> d.reward] \in Reward
    BY <1>1, <1>2 DEF Reward
  <2> QED
    BY <1>2, <2>1 DEF Paid
<1>3. CASE ~(~p.unlocked /\ Advanced(p, d, e).unlocked /\ d.reward > 0)
  BY <1>3 DEF Paid
<1> QED
  BY <1>2, <1>3

\* A definition that a job finds is one the administration gave, and active.
LEMMA FoundDefinition ==
    ASSUME DefinitionsSound, NEW e \in Events, NEW a \in Defined, Matches(definition[a], e)
    PROVE  definition[a] \in Definitions
<1>1. a \in Achievements /\ definition[a] # NoDefinition
  BY DEF Defined
<1>2. definition[a].active
  BY DEF Matches
<1>3. \A d \in Definitions : [d EXCEPT !.active = FALSE].active = FALSE
  BY AchievementRulesAssumption DEF Definition
<1>4. ASSUME NEW d \in Definitions, definition[a] = [d EXCEPT !.active = FALSE]
      PROVE  FALSE
  <2>1. definition[a].active = FALSE
    BY <1>3, <1>4
  <2> QED
    BY <2>1, <1>2, Zenon
<1> QED
  BY <1>1, <1>4 DEF DefinitionsSound
-----------------------------------------------------------------------------
\* The transaction of a sound worker is a step of AchievementCounting, or none,
\* and keeps the types.
LEMMA CountEventStep ==
    ASSUME EffectsTyped, NEW e \in Events, NEW a \in Achievements, NEW d \in Definitions,
           Matches(d, e), ShouldProcess(d, e), CountEvent(e, a, d)
    PROVE  /\ EffectsTyped'
           /\ Counting!Next \/ UNCHANGED effectVars
<1>1. CASE <<e, a>> \in processed
  BY <1>1 DEF CountEvent, EffectsTyped, effectVars
<1>2. CASE <<e, a>> \notin processed
  <2> DEFINE u == UserOf[e]
  <2>1. u \in Users
    BY AchievementRulesAssumption
  <2>2. /\ processed' = processed \cup {<<e, a>>}
        /\ progress' = [progress EXCEPT ![u][a] = Advanced(@, d, e)]
        /\ paid' = [paid EXCEPT ![u] = Paid(@, progress[u][a], a, d, e)]
    BY <1>2 DEF CountEvent
  <2>3. progress[u][a] \in Progress /\ paid[u] \in Seq(Reward)
    BY <2>1 DEF EffectsTyped
  <2>4. Advanced(progress[u][a], d, e) \in Progress
    BY <2>3, AdvancedTyped
  <2>5. Paid(paid[u], progress[u][a], a, d, e) \in Seq(Reward)
    BY <2>3, PaidShape
  <2>6. EffectsTyped'
    BY <2>1, <2>2, <2>4, <2>5 DEF EffectsTyped
  <2>7. Counting!Count(e, a, d)
    BY <1>2, <2>2 DEF Counting!Count, Matches, Counting!Advanced, Counting!Paid,
         Counting!ShouldProcess, Counting!IncrementBy, Advanced, Paid, ShouldProcess, IncrementBy
  <2> QED
    BY <2>6, <2>7 DEF Counting!Next
<1> QED
  BY <1>1, <1>2

LEMMA CoreInit == Init => CoreInv
<1> SUFFICES ASSUME Init PROVE CoreInv
  OBVIOUS
<1>1. WorkersSound
  BY DEF Init, WorkersSound
<1>2. DefinitionsSound
  BY DispatchAssumption DEF Init, DefinitionsSound
<1>3. NoProgress \in Progress
  BY DEF NoProgress, Progress
<1>4. EffectsTyped
  BY <1>3 DEF Init, EffectsTyped
<1> QED
  BY <1>1, <1>2, <1>4 DEF CoreInv

-----------------------------------------------------------------------------
\* A worker that takes a job reads definitions that match it.
LEMMA TakeJobSound ==
    ASSUME CoreInv, NEW w \in Workers, NEW e \in Events, TakeJob(w, e)
    PROVE  CoreInv'
<1> DEFINE S == {a \in Defined : Matches(definition[a], e)}
           r == [pc |-> "loop", event |-> e, failed |-> FALSE,
                 todo |-> [a \in S |-> definition[a]]]
<1>1. UNCHANGED <<adminVars, effectVars>>
  BY DEF TakeJob
<1>2. DefinitionsSound' /\ EffectsTyped'
  BY <1>1 DEF CoreInv, DefinitionsSound, EffectsTyped, adminVars, effectVars
<1>3. CASE worker' = [worker EXCEPT ![w] = r]
  <2>1. \A a \in S : definition[a] \in Definitions /\ Matches(definition[a], e)
    BY FoundDefinition DEF CoreInv
  <2>2. S \subseteq Achievements
    BY DEF Defined
  <2>3. TodoSound(r)
    BY <2>1, <2>2 DEF TodoSound
  <2> HIDE DEF r
  <2>4. WorkersSound'
    BY <1>3, <2>3 DEF CoreInv, WorkersSound
  <2> QED
    BY <1>2, <2>4 DEF CoreInv
<1>4. CASE UNCHANGED worker
  BY <1>2, <1>4 DEF CoreInv, WorkersSound
<1> QED
  BY <1>3, <1>4 DEF TakeJob

\* An achievement is dealt with: the rest of the loop stays sound.
LEMMA DealtWithSound ==
    ASSUME WorkersSound, NEW w \in Workers, NEW a \in Achievements, NEW ok \in BOOLEAN,
           worker[w] # Resting, DealtWith(w, a, ok)
    PROVE  WorkersSound'
<1>1. TodoSound(worker[w])
  BY DEF WorkersSound
<1> DEFINE old == worker[w]
           todo == [b \in DOMAIN old.todo \ {a} |-> old.todo[b]]
           r == [pc |-> "loop", event |-> old.event, failed |-> old.failed \/ ~ok,
                 todo |-> todo]
<1>2. worker' = [worker EXCEPT ![w] = r]
  BY DEF DealtWith
<1>3. TodoSound(r)
  <2>1. /\ DOMAIN todo = DOMAIN old.todo \ {a}
        /\ \A b \in DOMAIN todo : todo[b] = old.todo[b]
    OBVIOUS
  <2> DEFINE f == old.failed \/ ~ok
  <2>2. f \in BOOLEAN
    OBVIOUS
  <2> HIDE DEF todo, f
  <2>3. r = [pc |-> "loop", event |-> old.event, failed |-> f, todo |-> todo]
    BY DEF f
  <2> HIDE DEF r
  <2>4. /\ r.event = old.event /\ r.todo = todo /\ r.failed = f
        /\ r = [pc |-> "loop", event |-> r.event, failed |-> r.failed, todo |-> r.todo]
    BY <2>3
  <2> QED
    BY <1>1, <2>1, <2>2, <2>4 DEF TodoSound
<1> HIDE DEF r
<1> QED
  BY <1>2, <1>3 DEF WorkersSound
-----------------------------------------------------------------------------
\* What a worker does keeps the invariant and is a step of AchievementCounting.
Counts == Counting!Next \/ UNCHANGED effectVars

\* The loop body, whether the transaction commits or fails.
LEMMA ProcessStep ==
    ASSUME CoreInv, NEW w \in Workers, NEW a \in Achievements,
           ProcessAchievement(w, a) \/ AchievementFails(w, a)
    PROVE  CoreInv' /\ Counts
<1> DEFINE e == worker[w].event
           d == worker[w].todo[a]
<1>1. /\ worker[w].pc = "loop" /\ a \in DOMAIN worker[w].todo
      /\ UNCHANGED adminVars
  BY DEF ProcessAchievement, AchievementFails
<1>2. worker[w] # Resting
  BY <1>1 DEF Resting
<1>3. TodoSound(worker[w])
  BY <1>2 DEF CoreInv, WorkersSound
<1>4. e \in Events /\ d \in Definitions /\ Matches(d, e)
  BY <1>1, <1>3 DEF TodoSound
<1>5. UNCHANGED effectVars \/ (ShouldProcess(d, e) /\ CountEvent(e, a, d))
  BY DEF ProcessAchievement, AchievementFails
<1>6. EffectsTyped' /\ Counts
  <2>1. CASE UNCHANGED effectVars
    BY <2>1 DEF CoreInv, EffectsTyped, effectVars, Counts
  <2>2. CASE ShouldProcess(d, e) /\ CountEvent(e, a, d)
    <3> HIDE DEF e, d
    <3> QED
      BY <1>4, <2>2, CountEventStep DEF CoreInv, Counts
  <2> QED
    BY <1>5, <2>1, <2>2
<1>7. \E ok \in BOOLEAN : DealtWith(w, a, ok)
  BY DEF ProcessAchievement, AchievementFails
<1>8. WorkersSound'
  BY <1>2, <1>7, DealtWithSound DEF CoreInv
<1>9. DefinitionsSound'
  BY <1>1 DEF CoreInv, DefinitionsSound, adminVars
<1> QED
  BY <1>6, <1>8, <1>9 DEF CoreInv

\* The job ends, or its worker does.
LEMMA WorkerRests ==
    ASSUME CoreInv, NEW w \in Workers, FinishJob(w) \/ WorkerStops(w)
    PROVE  CoreInv' /\ UNCHANGED effectVars
<1>1. worker' = [worker EXCEPT ![w] = Resting] /\ UNCHANGED <<adminVars, effectVars>>
  BY DEF FinishJob, WorkerStops
<1>2. WorkersSound'
  <2> DEFINE rest == Resting
  <2>1. worker' = [worker EXCEPT ![w] = rest] /\ rest = Resting
    BY <1>1
  <2> HIDE DEF rest
  <2> QED
    BY <2>1 DEF CoreInv, WorkersSound
<1> QED
  BY <1>1, <1>2 DEF CoreInv, DefinitionsSound, EffectsTyped, adminVars, effectVars

\* An edit gives an achievement a definition, or turns one off that is on.
LEMMA EditStep ==
    ASSUME CoreInv, NEW a \in Achievements,
           \/ DeleteAchievement(a)
           \/ \E d \in Definitions : CreateAchievement(a, d) \/ UpdateAchievement(a, d)
    PROVE  CoreInv' /\ UNCHANGED effectVars
<1> DEFINE Off(d) == [d EXCEPT !.active = FALSE]
           D == Definitions \cup {NoDefinition} \cup {Off(d) : d \in Definitions}
<1>1. \E d \in D : Edit(a, d)
  <2>1. CASE DeleteAchievement(a)
    <3>1. definition[a] \in D /\ definition[a] # NoDefinition /\ definition[a].active
      BY <2>1 DEF DeleteAchievement, Defined, CoreInv, DefinitionsSound
    <3>2. \A d \in Definitions : Off(d).active = FALSE
      BY AchievementRulesAssumption DEF Definition
    <3> HIDE DEF Off
    <3>3. definition[a] \in Definitions
      BY <3>1, <3>2, Zenon
    <3>4. Off(definition[a]) \in D
      BY <3>3
    <3>5. Edit(a, Off(definition[a]))
      BY <2>1 DEF DeleteAchievement, Off
    <3> QED
      BY <3>4, <3>5
  <2>2. CASE \E d \in Definitions : CreateAchievement(a, d) \/ UpdateAchievement(a, d)
    <3> HIDE DEF Off
    <3> QED
      BY <2>2 DEF CreateAchievement, UpdateAchievement
  <2> QED
    BY <2>1, <2>2
<1>2. PICK d \in D : Edit(a, d)
  BY <1>1
<1>3. /\ definition' = [definition EXCEPT ![a] = d]
      /\ edited' = edited \cup {a}
      /\ UNCHANGED <<worker, effectVars>>
  BY <1>2 DEF Edit
<1>4. definition \in [Achievements -> D] /\ edited \subseteq Achievements
  BY DEF CoreInv, DefinitionsSound
<1> HIDE DEF D
<1>5. definition' \in [Achievements -> D] /\ edited' \subseteq Achievements
  BY <1>3, <1>4
<1>6. DefinitionsSound'
  BY <1>5 DEF DefinitionsSound, D
<1> QED
  BY <1>3, <1>6 DEF CoreInv, WorkersSound, EffectsTyped, effectVars
-----------------------------------------------------------------------------
\* Everything else leaves workers, definitions and progress alone.
LEMMA NextStep ==
    ASSUME CoreInv, [Next]_dispatchVars
    PROVE  CoreInv' /\ Counts
<1>1. CASE UNCHANGED <<worker, adminVars, effectVars>>
  BY <1>1 DEF CoreInv, WorkersSound, DefinitionsSound, EffectsTyped, adminVars, effectVars, Counts
<1>2. ASSUME NEW p \in Publishers,
             \/ PublishPendingIntents(p) \/ PublisherStops(p)
             \/ \E e \in Events : \/ DispatchEvent(p, e) \/ RecordDelivery(p, e)
                                   \/ RecordFailure(p, e) \/ TimeOut(p, e)
                                   \/ CannotRecord(p, e)
      PROVE  UNCHANGED <<worker, adminVars, effectVars>>
  BY <1>2 DEF PublishPendingIntents, PublisherStops, DispatchEvent, RecordDelivery,
       RecordFailure, TimeOut, CannotRecord
<1>3. ASSUME NEW e \in Events,
             BecomesDue(e) \/ DelayEnds(e) \/ StallDetected(e) \/ LateEnqueue(e)
      PROVE  UNCHANGED <<worker, adminVars, effectVars>>
  BY <1>3 DEF BecomesDue, DelayEnds, StallDetected, LateEnqueue
<1>4. ASSUME NEW S \in Purchases, SaveDispatchIntents(S)
      PROVE  UNCHANGED <<worker, adminVars, effectVars>>
  BY <1>4 DEF SaveDispatchIntents
<1>5. ASSUME NEW w \in Workers, FinishJob(w) \/ WorkerStops(w)
      PROVE  CoreInv' /\ Counts
  BY <1>5, WorkerRests DEF Counts
<1>6. ASSUME NEW w \in Workers, NEW e \in Events, TakeJob(w, e)
      PROVE  CoreInv' /\ Counts
  BY <1>6, TakeJobSound DEF TakeJob, Counts
<1>7. ASSUME NEW w \in Workers, NEW a \in Achievements,
             ProcessAchievement(w, a) \/ AchievementFails(w, a)
      PROVE  CoreInv' /\ Counts
  BY <1>7, ProcessStep
<1>8. ASSUME NEW a \in Achievements,
             \/ DeleteAchievement(a)
             \/ \E d \in Definitions : CreateAchievement(a, d) \/ UpdateAchievement(a, d)
      PROVE  CoreInv' /\ Counts
  BY <1>8, EditStep DEF Counts
<1>9. CASE UNCHANGED dispatchVars
  BY <1>1, <1>9 DEF dispatchVars
<1> QED
  BY <1>1, <1>2, <1>3, <1>4, <1>5, <1>6, <1>7, <1>8, <1>9 DEF Next, Progresses

\* The types that the exactly-once argument rests on hold in every state: what a
\* worker has read matches its event, and every row has the columns it should.
THEOREM WorkersReadDefinitions == DispatchSpec => []CoreInv
<1>1. CoreInv /\ [Next]_dispatchVars => CoreInv'
  BY NextStep
<1> QED
  BY CoreInit, <1>1, PTL DEF DispatchSpec

\* Whatever the publishers, the queue, the workers and the administration do,
\* AchievementsProcessor.processAchievement counts each event at most once
\* towards each achievement: every step is one of AchievementCounting, or none.
THEOREM EventsCountExactlyOnce == DispatchSpec => CountsExactlyOnce
<1>1. Init => Counting!Init
  BY DEF Init, Counting!Init, NoProgress, Counting!NoProgress
<1>2. CoreInv /\ [Next]_dispatchVars => [Counting!Next]_(Counting!countingVars)
  BY NextStep DEF Counts, effectVars, Counting!countingVars
<1> QED
  BY <1>1, <1>2, WorkersReadDefinitions, PTL DEF DispatchSpec, CountsExactlyOnce, Counting!Spec
-----------------------------------------------------------------------------
\* What RewardsAreRight says of one user: rows g of progress and rewards s.
Rewarded(g, s) ==
    /\ \A i, j \in DOMAIN s : s[i].achievement = s[j].achievement => i = j
    /\ \A i \in DOMAIN s : g[s[i].achievement].unlocked
    /\ \A a \in Achievements : g[a].unlocked <=> g[a].current >= g[a].target

\* One event leaves the progress and the rewards of its user right: a reward is
\* added only for an achievement that was locked, and so had none.
LEMMA CountRewards ==
    ASSUME NEW g \in [Achievements -> Progress], NEW s \in Seq(Reward),
           NEW e \in Events, NEW a \in Achievements, NEW d \in Definitions,
           ShouldProcess(d, e), Rewarded(g, s)
    PROVE  Rewarded([g EXCEPT ![a] = Advanced(@, d, e)], Paid(s, g[a], a, d, e))
<1> DEFINE q == Advanced(g[a], d, e)
           h == [g EXCEPT ![a] = q]
           t == Paid(s, g[a], a, d, e)
           r == [achievement |-> a, points |-> d.reward]
<1> SUFFICES Rewarded(h, t)
  OBVIOUS
<1>1. g[a] \in Progress
  OBVIOUS
<1>2. /\ q \in Progress
      /\ g[a].unlocked => q = g[a]
      /\ ~g[a].unlocked => (q.unlocked <=> q.current >= q.target)
  BY <1>1, AdvancedTyped
<1>3. t = s \/ (~g[a].unlocked /\ q.unlocked /\ t = Append(s, r))
  BY <1>1, PaidShape
<1>4. r.achievement = a
  OBVIOUS
<1> HIDE DEF q, t, r
<1>5. h[a] = q /\ \A b \in Achievements \ {a} : h[b] = g[b]
  OBVIOUS
<1> HIDE DEF h
<1>6. \A b \in Achievements : h[b].unlocked <=> h[b].current >= h[b].target
  <2> SUFFICES ASSUME NEW b \in Achievements
               PROVE  h[b].unlocked <=> h[b].current >= h[b].target
    OBVIOUS
  <2>1. CASE b # a
    BY <2>1, <1>5 DEF Rewarded
  <2>2. CASE b = a /\ g[a].unlocked
    BY <2>2, <1>2, <1>5 DEF Rewarded
  <2>3. CASE b = a /\ ~g[a].unlocked
    BY <2>3, <1>2, <1>5
  <2> QED
    BY <2>1, <2>2, <2>3
<1>7. \A i \in DOMAIN s : s[i].achievement \in Achievements
  <2>1. \A i \in DOMAIN s : s[i] \in Reward
    OBVIOUS
  <2> QED
    BY <2>1 DEF Reward
<1>8. \A b \in Achievements : g[b].unlocked => h[b].unlocked
  BY <1>2, <1>5
<1>9. \A i \in DOMAIN s : h[s[i].achievement].unlocked
  BY <1>7, <1>8 DEF Rewarded
<1>10. CASE t = s
  BY <1>6, <1>9, <1>10 DEF Rewarded
<1>11. CASE ~g[a].unlocked /\ q.unlocked /\ t = Append(s, r)
  <2>1. \A i \in DOMAIN s : s[i].achievement # a
    BY <1>11 DEF Rewarded
  <2>2. /\ DOMAIN t = DOMAIN s \cup {Len(s) + 1}
        /\ Len(s) + 1 \notin DOMAIN s
        /\ \A i \in DOMAIN s : t[i] = s[i]
        /\ t[Len(s) + 1] = r
    BY <1>11
  <2>3. \A i, j \in DOMAIN t : t[i].achievement = t[j].achievement => i = j
    BY <2>1, <2>2, <1>4 DEF Rewarded
  <2>4. h[r.achievement].unlocked
    BY <1>4, <1>5, <1>11
  <2>5. \A i \in DOMAIN t : h[t[i].achievement].unlocked
    BY <2>2, <2>4, <1>9
  <2> QED
    BY <2>3, <2>5, <1>6 DEF Rewarded
<1> QED
  BY <1>3, <1>10, <1>11

\* A step of AchievementCounting keeps rewards right.
LEMMA CountingKeepsRewards ==
    ASSUME EffectsTyped, RewardsAreRight, Counts
    PROVE  RewardsAreRight'
<1> USE DEF RewardsAreRight, Counting!RewardedOnce
<1>1. CASE UNCHANGED effectVars
  BY <1>1 DEF effectVars
<1>2. CASE Counting!Next
  <2>1. PICK e \in Events, a \in Achievements, d \in Definitions : Counting!Count(e, a, d)
    BY <1>2 DEF Counting!Next
  <2> DEFINE u == UserOf[e]
             h == [progress[u] EXCEPT ![a] = Advanced(@, d, e)]
             t == Paid(paid[u], progress[u][a], a, d, e)
  <2>2. u \in Users
    BY AchievementRulesAssumption
  <2>3. progress[u] \in [Achievements -> Progress] /\ paid[u] \in Seq(Reward)
    BY <2>2 DEF EffectsTyped
  <2>4. /\ ShouldProcess(d, e)
        /\ progress' = [progress EXCEPT ![u] = h]
        /\ paid' = [paid EXCEPT ![u] = t]
    BY <2>1, <2>2, <2>3 DEF Counting!Count, Counting!Advanced, Counting!Paid,
       Counting!ShouldProcess, Counting!IncrementBy, Advanced, Paid, ShouldProcess, IncrementBy
  <2>5. Rewarded(progress[u], paid[u])
    BY <2>2 DEF Rewarded
  <2>6. Rewarded(h, t)
    BY <2>3, <2>4, <2>5, CountRewards
  <2> HIDE DEF u, h, t
  <2>7. \A x \in Users : Rewarded(progress'[x], paid'[x])
    <3> SUFFICES ASSUME NEW x \in Users PROVE Rewarded(progress'[x], paid'[x])
      OBVIOUS
    <3>1. CASE x = u
      <4>1. progress'[x] = h /\ paid'[x] = t
        BY <2>2, <2>4, <3>1 DEF EffectsTyped
      <4> QED
        BY <2>6, <4>1
    <3>2. CASE x # u
      <4>1. progress'[x] = progress[x] /\ paid'[x] = paid[x]
        BY <2>4, <3>2 DEF EffectsTyped
      <4>2. Rewarded(progress[x], paid[x])
        BY DEF Rewarded
      <4> QED
        BY <4>1, <4>2
    <3> QED
      BY <3>1, <3>2
  <2> QED
    BY <2>7 DEF Rewarded
<1> QED
  BY <1>1, <1>2 DEF Counts

\* An achievement pays at most one reward, and only once it is unlocked, which
\* it is exactly when its progress has reached the target it was given; lost
\* answers, retries, two workers on one job and edits of targets and rewards
\* (AchievementsProcessor.processAchievement, AdminAchievementsService.update)
\* change nothing about that.
THEOREM RewardsStayRight == DispatchSpec => []RewardsAreRight
<1>1. Init => RewardsAreRight
  <2>1. ~NoProgress.unlocked /\ ~(NoProgress.current >= NoProgress.target)
    BY DEF NoProgress
  <2>2. ASSUME Init, NEW u \in Users
        PROVE  /\ DOMAIN paid[u] = {}
               /\ \A a \in Achievements : progress[u][a] = NoProgress
    BY <2>2 DEF Init
  <2> QED
    BY <2>1, <2>2 DEF RewardsAreRight, Counting!RewardedOnce
<1>2. CoreInv /\ RewardsAreRight /\ [Next]_dispatchVars => RewardsAreRight'
  BY NextStep, CountingKeepsRewards DEF CoreInv
<1> QED
  BY <1>1, <1>2, WorkersReadDefinitions, PTL DEF DispatchSpec
-----------------------------------------------------------------------------
(***************************************************************************)
(* The publishers and the queue.                                           *)
(***************************************************************************)
\* What a publisher sends was saved, what it takes for accepted was accepted,
\* and what may still arrive was sent.
SendSound(p, e) ==
    /\ send[p][e] # "none" => intent[e] # "absent"
    /\ send[p][e] = "accepted" => e \in queued

QueueInv ==
    /\ intent \in [Events -> {"absent", "due", "later", "delivered"}]
    /\ send \in [Publishers -> [Events -> {"none", "sending", "accepted", "failed"}]]
    /\ late \in [Events -> Nat]
    /\ failures \in 0..FailureBound
    /\ queued \subseteq Events
    /\ job \in [Events -> Job]
    /\ \A e \in Events :
         /\ late[e] <= failures
         /\ late[e] > 0 => intent[e] # "absent"
         /\ JobSound(job[e])
         /\ job[e].state # "none" => e \in queued
         /\ intent[e] = "absent" => e \notin queued
         /\ intent[e] = "delivered" => e \in queued
    /\ \A p \in Publishers, e \in Events : SendSound(p, e)

\* A failure uses up some of the bound.
LEMMA FailureCounts ==
    ASSUME QueueInv, Fails \/ UNCHANGED failures
    PROVE  failures' \in 0..FailureBound /\ failures' >= failures
<1>1. failures \in 0..FailureBound /\ FailureBound \in Nat
  BY DispatchAssumption DEF QueueInv
<1>. QED BY <1>1 DEF Fails

LEMMA QueueInit == Init => QueueInv
<1> SUFFICES ASSUME Init PROVE QueueInv
  OBVIOUS
<1>1. FailureBound \in Nat
  BY DispatchAssumption
<1>2. \A e \in Events : job[e] = NoJob /\ JobSound(job[e]) /\ job[e].state = "none"
  BY NoJobSound DEF Init
<1>3. job \in [Events -> Job]
  BY <1>2 DEF Init, JobSound
<1>4. \A p \in Publishers, e \in Events : SendSound(p, e)
  BY DEF Init, SendSound
<1>. QED BY <1>1, <1>2, <1>3, <1>4 DEF Init, QueueInv

\* One job changes, and nothing of the intents.
LEMMA JobChanges ==
    ASSUME QueueInv, NEW e \in Events, NEW k, JobSound(k),
           k.state # "none" => job[e].state # "none",
           job' = [job EXCEPT ![e] = k],
           UNCHANGED intentVars, Fails \/ UNCHANGED failures
    PROVE  QueueInv'
<1>1. failures' \in 0..FailureBound /\ failures' >= failures
  BY FailureCounts
<1>2. k \in Job /\ job \in [Events -> Job]
  BY DEF JobSound, QueueInv
<1>3. job' \in [Events -> Job] /\ \A x \in Events : job'[x] = IF x = e THEN k ELSE job[x]
  BY <1>2
<1>4. \A x \in Events : JobSound(job'[x]) /\ (job'[x].state # "none" => x \in queued)
  BY <1>3 DEF QueueInv
<1>5. \A x \in Events : late[x] <= failures'
  BY <1>1 DEF QueueInv
<1>6. UNCHANGED <<intent, send, late, queued>>
  BY DEF intentVars
<1>7. \A p \in Publishers, x \in Events : SendSound(p, x)'
  BY <1>6 DEF QueueInv, SendSound
<1>. QED BY <1>1, <1>3, <1>4, <1>5, <1>6, <1>7 DEF QueueInv

LEMMA TakeJobQueue ==
    ASSUME QueueInv, NEW w \in Workers, NEW e \in Events, TakeJob(w, e)
    PROVE  QueueInv'
<1>1. JobSound(job[e]) /\ job[e].state = "waiting" /\ UNCHANGED intentVars
  BY DEF QueueInv, TakeJob
<1> DEFINE k == Taken(job[e], w)
<1>2. JobSound(k)
  BY <1>1, TakenSound
<1>3. JobSound(AttemptFailed(k, w))
  BY <1>2, AttemptFailedSound
<1>4. CASE job' = [job EXCEPT ![e] = k] /\ UNCHANGED failures
  BY <1>1, <1>2, <1>4, JobChanges
<1>5. CASE job' = [job EXCEPT ![e] = AttemptFailed(k, w)] /\ Fails
  BY <1>1, <1>3, <1>5, JobChanges
<1>. QED BY <1>4, <1>5 DEF TakeJob

LEMMA FinishJobQueue ==
    ASSUME CoreInv, QueueInv, NEW w \in Workers, FinishJob(w)
    PROVE  QueueInv'
<1> DEFINE e == worker[w].event
           j == job[e]
           k == IF worker[w].failed THEN AttemptFailed(j, w) ELSE Completed(j, w)
<1>1. worker[w] # Resting
  BY DEF FinishJob, Resting
<1>2. e \in Events
  BY <1>1 DEF CoreInv, WorkersSound, TodoSound
<1>3. JobSound(j)
  BY <1>2 DEF QueueInv
<1>4. JobSound(k) /\ (k.state # "none" => j.state # "none")
  BY <1>3, AttemptFailedSound, CompletedSound DEF OwnsJob
<1>5. job' = [job EXCEPT ![e] = k] /\ UNCHANGED <<intentVars, failures>>
  BY DEF FinishJob
<1> HIDE DEF e, k
<1>. QED BY <1>2, <1>4, <1>5, JobChanges

LEMMA DelayEndsQueue ==
    ASSUME QueueInv, NEW e \in Events, DelayEnds(e)
    PROVE  QueueInv'
<1>1. /\ JobSound(job[e]) /\ job[e].state = "delayed"
      /\ job' = [job EXCEPT ![e] = BackoffOver(job[e])] /\ UNCHANGED <<intentVars, failures>>
  BY DEF QueueInv, DelayEnds
<1>2. JobSound(BackoffOver(job[e]))
  BY <1>1, BackoffOverSound
<1>. QED BY <1>1, <1>2, JobChanges

LEMMA StallDetectedQueue ==
    ASSUME QueueInv, NEW e \in Events, StallDetected(e)
    PROVE  QueueInv'
<1>1. /\ JobSound(job[e]) /\ job[e].state = "active"
      /\ job' = [job EXCEPT ![e] = Stalled(job[e])] /\ UNCHANGED intentVars
      /\ Fails \/ UNCHANGED failures
  BY DEF QueueInv, StallDetected
<1>2. JobSound(Stalled(job[e]))
  BY <1>1, StalledSound
<1>. QED BY <1>1, <1>2, JobChanges
-----------------------------------------------------------------------------
\* Redis carries out the add of an event that was saved.
LEMMA EnqueueKeeps ==
    ASSUME QueueInv, NEW e \in Events, intent[e] # "absent", Enqueue(e)
    PROVE  /\ job' \in [Events -> Job] /\ queued' \subseteq Events
           /\ queued' = queued \cup {e}
           /\ \A x \in Events :
                /\ JobSound(job'[x])
                /\ job'[x].state # "none" => x \in queued'
<1>1. JobSound(job[e]) /\ job \in [Events -> Job]
  BY DEF QueueInv
<1>2. JobSound(Added(job[e])) /\ Added(job[e]) \in Job
  BY <1>1, AddedSound DEF JobSound
<1>3. job' = [job EXCEPT ![e] = Added(job[e])] /\ queued' = queued \cup {e}
  BY DEF Enqueue
<1>4. \A x \in Events : job'[x] = IF x = e THEN Added(job[e]) ELSE job[x]
  BY <1>1, <1>3
<1>5. job' \in [Events -> Job]
  BY <1>1, <1>2, <1>3
<1>. QED BY <1>2, <1>3, <1>4, <1>5 DEF QueueInv

LEMMA DispatchEventQueue ==
    ASSUME QueueInv, NEW p \in Publishers, NEW e \in Events, DispatchEvent(p, e)
    PROVE  QueueInv'
<1>1. /\ send[p][e] = "sending" /\ Enqueue(e)
      /\ send' = [send EXCEPT ![p][e] = "accepted"]
      /\ UNCHANGED <<intent, late, failures>>
  BY DEF DispatchEvent, Goto
<1>2. intent[e] # "absent"
  BY <1>1 DEF QueueInv, SendSound
<1>3. /\ job' \in [Events -> Job] /\ queued' \subseteq Events
      /\ queued' = queued \cup {e}
      /\ \A x \in Events : JobSound(job'[x]) /\ (job'[x].state # "none" => x \in queued')
  BY <1>1, <1>2, EnqueueKeeps
<1>4. \A q \in Publishers, x \in Events :
        send'[q][x] = IF q = p /\ x = e THEN "accepted" ELSE send[q][x]
  BY <1>1 DEF QueueInv
<1>5. \A q \in Publishers, x \in Events : SendSound(q, x)'
  BY <1>1, <1>2, <1>3, <1>4 DEF QueueInv, SendSound
<1>6. send' \in [Publishers -> [Events -> {"none", "sending", "accepted", "failed"}]]
  BY <1>1 DEF QueueInv
<1>. QED BY <1>1, <1>2, <1>3, <1>5, <1>6 DEF QueueInv

LEMMA LateEnqueueQueue ==
    ASSUME QueueInv, NEW e \in Events, LateEnqueue(e)
    PROVE  QueueInv'
<1>1. /\ late[e] > 0 /\ late' = [late EXCEPT ![e] = late[e] - 1] /\ Enqueue(e)
      /\ UNCHANGED <<intent, send, failures>>
  BY DEF LateEnqueue
<1>2. intent[e] # "absent" /\ late \in [Events -> Nat] /\ failures \in Nat
  BY <1>1, DispatchAssumption DEF QueueInv
<1>3. /\ job' \in [Events -> Job] /\ queued' \subseteq Events
      /\ queued' = queued \cup {e}
      /\ \A x \in Events : JobSound(job'[x]) /\ (job'[x].state # "none" => x \in queued')
  BY <1>1, <1>2, EnqueueKeeps
<1> DEFINE n == late[e] - 1
<1>4. n \in Nat /\ n <= failures
  BY <1>1, <1>2 DEF QueueInv
<1>5. late' = [late EXCEPT ![e] = n]
  BY <1>1
<1> HIDE DEF n
<1>6. late' \in [Events -> Nat]
      /\ \A x \in Events : late'[x] <= failures /\ (late'[x] > 0 => intent[x] # "absent")
  BY <1>2, <1>4, <1>5 DEF QueueInv
<1>7. \A q \in Publishers, x \in Events : SendSound(q, x)'
  BY <1>1, <1>3 DEF QueueInv, SendSound
<1>. QED BY <1>1, <1>2, <1>3, <1>6, <1>7 DEF QueueInv
-----------------------------------------------------------------------------
\* The rows of the intents change, and neither what is sent nor the jobs.
LEMMA RowsChange ==
    ASSUME QueueInv, UNCHANGED <<late, queued, job, failures>>,
           intent' \in [Events -> {"absent", "due", "later", "delivered"}],
           \A x \in Events : /\ intent[x] # "absent" => intent'[x] # "absent"
                             /\ intent'[x] = "delivered" => x \in queued,
           send' \in [Publishers -> [Events -> {"none", "sending", "accepted", "failed"}]],
           \A p \in Publishers, x \in Events :
              \/ send'[p][x] \in {"none", send[p][x]}
              \/ send'[p][x] \in {"sending", "failed"} /\ intent[x] # "absent"
    PROVE  QueueInv'
<1>1. \A p \in Publishers, x \in Events : SendSound(p, x)'
  BY DEF QueueInv, SendSound
<1>. QED BY <1>1 DEF QueueInv

LEMMA SaveQueue ==
    ASSUME QueueInv, NEW S \in Purchases, SaveDispatchIntents(S)
    PROVE  QueueInv'
<1>1. intent' = [e \in Events |-> IF e \in S /\ intent[e] = "absent" THEN "due" ELSE intent[e]]
      /\ UNCHANGED <<send, late, queued, job, failures>>
  BY DEF SaveDispatchIntents
<1>2. \A x \in Events : intent'[x] \in {"due", intent[x]}
                         /\ (intent'[x] = "delivered" => intent[x] = "delivered")
                         /\ (intent[x] # "absent" => intent'[x] = intent[x])
  BY <1>1
<1>3. intent' \in [Events -> {"absent", "due", "later", "delivered"}]
  BY <1>1, <1>2 DEF QueueInv
<1>4. send' \in [Publishers -> [Events -> {"none", "sending", "accepted", "failed"}]]
  BY <1>1 DEF QueueInv
<1>. QED BY <1>1, <1>2, <1>3, <1>4, RowsChange DEF QueueInv

LEMMA BecomesDueQueue ==
    ASSUME QueueInv, NEW e \in Events, BecomesDue(e)
    PROVE  QueueInv'
<1>1. intent[e] = "later" /\ intent' = [intent EXCEPT ![e] = "due"]
      /\ UNCHANGED <<send, late, queued, job, failures>>
  BY DEF BecomesDue
<1>2. \A x \in Events : intent'[x] = IF x = e THEN "due" ELSE intent[x]
  BY <1>1 DEF QueueInv
<1>3. intent' \in [Events -> {"absent", "due", "later", "delivered"}]
  BY <1>1 DEF QueueInv
<1>4. send' \in [Publishers -> [Events -> {"none", "sending", "accepted", "failed"}]]
  BY <1>1 DEF QueueInv
<1>. QED BY <1>1, <1>2, <1>3, <1>4, RowsChange DEF QueueInv

LEMMA PublishQueue ==
    ASSUME QueueInv, NEW p \in Publishers, PublishPendingIntents(p)
    PROVE  QueueInv'
<1>1. PICK T \in Batches({e \in Events : intent[e] = "due"}) \ {{}} :
         send' = [send EXCEPT ![p] = [e \in Events |-> IF e \in T THEN "sending" ELSE "none"]]
  BY DEF PublishPendingIntents
<1>2. \A x \in T : intent[x] = "due"
  BY DEF Batches
<1>3. \A q \in Publishers, x \in Events :
        send'[q][x] = IF q = p THEN (IF x \in T THEN "sending" ELSE "none") ELSE send[q][x]
  BY <1>1 DEF QueueInv
<1>4. send' \in [Publishers -> [Events -> {"none", "sending", "accepted", "failed"}]]
  BY <1>1 DEF QueueInv
<1>5. UNCHANGED <<intent, late, queued, job, failures>>
  BY DEF PublishPendingIntents
<1>. QED BY <1>2, <1>3, <1>4, <1>5, RowsChange DEF QueueInv

LEMMA RecordQueue ==
    ASSUME QueueInv, NEW p \in Publishers, NEW e \in Events,
           RecordDelivery(p, e) \/ RecordFailure(p, e)
    PROVE  QueueInv'
<1>1. /\ send' = [send EXCEPT ![p][e] = "none"]
      /\ UNCHANGED <<late, queued, job, failures>>
  BY DEF RecordDelivery, RecordFailure, Goto
<1>2. \/ intent' = intent
      \/ intent' = [intent EXCEPT ![e] = "delivered"] /\ send[p][e] = "accepted"
      \/ intent' = [intent EXCEPT ![e] = "later"]
  BY DEF RecordDelivery, RecordFailure
<1>3. /\ intent' \in [Events -> {"absent", "due", "later", "delivered"}]
      /\ \A x \in Events : /\ intent[x] # "absent" => intent'[x] # "absent"
                           /\ intent'[x] = "delivered" => x \in queued
  BY <1>2 DEF QueueInv, SendSound
<1>4. \A q \in Publishers, x \in Events :
        send'[q][x] = IF q = p /\ x = e THEN "none" ELSE send[q][x]
  BY <1>1 DEF QueueInv
<1>5. send' \in [Publishers -> [Events -> {"none", "sending", "accepted", "failed"}]]
  BY <1>1 DEF QueueInv
<1>. QED BY <1>1, <1>3, <1>4, <1>5, RowsChange

\* Something fails for a publisher: what it was sending may still arrive.
LEMMA SendsFail ==
    ASSUME QueueInv, Fails, UNCHANGED <<intent, queued, job>>,
           send' \in [Publishers -> [Events -> {"none", "sending", "accepted", "failed"}]],
           late' \in [Events -> Nat],
           \A p \in Publishers, x \in Events :
              \/ send'[p][x] \in {"none", send[p][x]}
              \/ send'[p][x] = "failed" /\ send[p][x] # "none",
           \A x \in Events :
              \/ late'[x] = late[x]
              \/ late'[x] = late[x] + 1 /\ \E p \in Publishers : send[p][x] = "sending"
    PROVE  QueueInv'
<1>1. failures' \in 0..FailureBound /\ failures' = failures + 1 /\ failures \in Nat
  BY FailureCounts, DispatchAssumption DEF Fails, QueueInv
<1>2. ASSUME NEW x \in Events
      PROVE  late'[x] <= failures' /\ (late'[x] > 0 => intent[x] # "absent")
  <2>1. late[x] \in Nat /\ late[x] <= failures /\ (late[x] > 0 => intent[x] # "absent")
    BY DEF QueueInv
  <2>2. CASE late'[x] = late[x]
    BY <1>1, <2>1, <2>2
  <2>3. CASE late'[x] = late[x] + 1 /\ \E p \in Publishers : send[p][x] = "sending"
    <3>1. intent[x] # "absent"
      BY <2>3 DEF QueueInv, SendSound
    <3>. QED BY <1>1, <2>1, <2>3, <3>1
  <2>. QED BY <2>2, <2>3
<1>3. \A p \in Publishers, x \in Events : SendSound(p, x)'
  BY DEF QueueInv, SendSound
<1>. QED BY <1>1, <1>2, <1>3 DEF QueueInv

LEMMA TimeOutQueue ==
    ASSUME QueueInv, NEW p \in Publishers, NEW e \in Events,
           TimeOut(p, e) \/ CannotRecord(p, e)
    PROVE  QueueInv'
<1>1. Fails /\ send[p][e] # "none" /\ UNCHANGED <<intent, queued, job>>
  BY DEF TimeOut, CannotRecord
<1>2. \E s \in {"none", "failed"} : send' = [send EXCEPT ![p][e] = s]
  BY DEF TimeOut, CannotRecord, Goto
<1>3. \/ late' = late
      \/ late' = [late EXCEPT ![e] = late[e] + 1] /\ send[p][e] = "sending"
  BY DEF TimeOut, CannotRecord
<1>4. PICK s \in {"none", "failed"} : send' = [send EXCEPT ![p][e] = s]
  BY <1>2
<1>5. \A q \in Publishers, x \in Events :
        send'[q][x] = IF q = p /\ x = e THEN s ELSE send[q][x]
  BY <1>4 DEF QueueInv
<1>6. send' \in [Publishers -> [Events -> {"none", "sending", "accepted", "failed"}]]
  BY <1>4 DEF QueueInv
<1>7. late' \in [Events -> Nat]
      /\ \A x \in Events : \/ late'[x] = late[x]
                           \/ late'[x] = late[x] + 1 /\ x = e /\ send[p][e] = "sending"
  <2>1. late \in [Events -> Nat] /\ late[e] + 1 \in Nat
    BY DEF QueueInv
  <2>2. CASE late' = late
    BY <2>1, <2>2
  <2>3. CASE late' = [late EXCEPT ![e] = late[e] + 1] /\ send[p][e] = "sending"
    BY <2>1, <2>3
  <2>. QED BY <1>3, <2>2, <2>3
<1>. QED BY <1>1, <1>5, <1>6, <1>7, SendsFail

LEMMA PublisherStopsQueue ==
    ASSUME QueueInv, NEW p \in Publishers, PublisherStops(p)
    PROVE  QueueInv'
<1>1. PICK S \in SUBSET {e \in Events : send[p][e] = "sending"} :
         late' = [e \in Events |-> IF e \in S THEN late[e] + 1 ELSE late[e]]
  BY DEF PublisherStops
<1>2. Fails /\ send' = [send EXCEPT ![p] = [e \in Events |-> "none"]]
      /\ UNCHANGED <<intent, queued, job>>
  BY DEF PublisherStops
<1>3. \A q \in Publishers, x \in Events :
        send'[q][x] = IF q = p THEN "none" ELSE send[q][x]
  BY <1>2 DEF QueueInv
<1>4. send' \in [Publishers -> [Events -> {"none", "sending", "accepted", "failed"}]]
  BY <1>2 DEF QueueInv
<1>5. \A x \in Events : late[x] \in Nat /\ late[x] + 1 \in Nat
  BY DEF QueueInv
<1>6. late' \in [Events -> Nat]
      /\ \A x \in Events : \/ late'[x] = late[x]
                           \/ late'[x] = late[x] + 1 /\ send[p][x] = "sending"
  BY <1>1, <1>5
<1>. QED BY <1>2, <1>3, <1>4, <1>6, SendsFail
-----------------------------------------------------------------------------
\* Every step keeps the queue sound.
LEMMA NextQueue ==
    ASSUME CoreInv, QueueInv, [Next]_dispatchVars
    PROVE  QueueInv'
<1>1. CASE UNCHANGED <<intentVars, job>> /\ (Fails \/ UNCHANGED failures)
  <2>1. failures' \in 0..FailureBound /\ failures' >= failures /\ failures \in 0..FailureBound
    BY <1>1, FailureCounts DEF QueueInv
  <2>2. \A x \in Events : late[x] <= failures'
    BY <2>1, DispatchAssumption DEF QueueInv
  <2>3. UNCHANGED <<intent, send, late, queued, job>>
    BY <1>1 DEF intentVars
  <2>. QED BY <2>1, <2>2, <2>3 DEF QueueInv, SendSound
<1>2. ASSUME NEW w \in Workers, NEW a \in Achievements,
             ProcessAchievement(w, a) \/ AchievementFails(w, a)
      PROVE  UNCHANGED <<intentVars, job>> /\ (Fails \/ UNCHANGED failures)
  BY <1>2 DEF ProcessAchievement, AchievementFails
<1>3. ASSUME NEW w \in Workers, WorkerStops(w)
      PROVE  UNCHANGED <<intentVars, job>> /\ Fails
  BY <1>3 DEF WorkerStops
<1>4. ASSUME NEW a \in Achievements,
             \/ DeleteAchievement(a)
             \/ \E d \in Definitions : CreateAchievement(a, d) \/ UpdateAchievement(a, d)
      PROVE  UNCHANGED <<intentVars, job, failures>>
  BY <1>4 DEF DeleteAchievement, CreateAchievement, UpdateAchievement, Edit
<1>5. CASE UNCHANGED dispatchVars
  BY <1>1, <1>5 DEF dispatchVars
<1>. QED
  BY <1>1, <1>2, <1>3, <1>4, <1>5, SaveQueue, BecomesDueQueue, PublishQueue,
     DispatchEventQueue, TimeOutQueue, LateEnqueueQueue, RecordQueue, PublisherStopsQueue,
     TakeJobQueue, FinishJobQueue, DelayEndsQueue, StallDetectedQueue DEF Next, Progresses

\* What the publishers and the queue rest on holds in every state: an add that may
\* still arrive was sent by somebody, what is delivered was accepted by Redis, and
\* a job that is not over has an attempt left (AchievementIntentPublisher).
THEOREM QueueInvariance == DispatchSpec => []QueueInv
<1>1. CoreInv /\ QueueInv /\ [Next]_dispatchVars => QueueInv'
  BY NextQueue
<1>. QED BY QueueInit, <1>1, WorkersReadDefinitions, PTL DEF DispatchSpec

\* The variables of AchievementIntentPublisher, AchievementsProcessor, the queue
\* and the administration keep the shapes of DispatchTypeOK; in particular the
\* adds that may still arrive late are never more than what has failed.
THEOREM DispatchTypeCorrectness == DispatchSpec => []DispatchTypeOK
<1>1. CoreInv /\ QueueInv => DispatchTypeOK
  <2> SUFFICES ASSUME CoreInv, QueueInv PROVE DispatchTypeOK
    OBVIOUS
  <2>1. late \in [Events -> 0..FailureBound]
    <3>1. \A x \in Events : late[x] \in 0..FailureBound
      BY DispatchAssumption DEF QueueInv
    <3>. QED BY <3>1 DEF QueueInv
  <2>2. \A w \in Workers : worker[w] # Resting =>
         /\ worker[w].event \in Events /\ worker[w].failed \in BOOLEAN
         /\ DOMAIN worker[w].todo \subseteq Achievements
         /\ \A a \in DOMAIN worker[w].todo : worker[w].todo[a] \in Definitions
    BY DEF CoreInv, WorkersSound, TodoSound
  <2>3. \A a \in Defined :
         \E d \in Definitions : definition[a] \in {d, [d EXCEPT !.active = FALSE]}
    BY DEF CoreInv, DefinitionsSound, Defined
  <2>4. \A u \in Users, a \in Achievements :
         progress[u][a].current \in Nat /\ progress[u][a].target \in Nat \ {0}
    BY DEF CoreInv, EffectsTyped, Progress
  <2>5. \A u \in Users : \A i \in DOMAIN paid[u] : paid[u][i] \in Reward
    <3>1. ASSUME NEW u \in Users, NEW i \in DOMAIN paid[u] PROVE paid[u][i] \in Reward
      <4>1. paid[u] \in Seq(Reward)
        BY DEF CoreInv, EffectsTyped
      <4>. QED BY <4>1
    <3>. QED BY <3>1
  <2>. QED
    BY <2>1, <2>2, <2>3, <2>4, <2>5
    DEF DispatchTypeOK, QueueInv, CoreInv, DefinitionsSound, EffectsTyped
<1>. QED BY <1>1, QueueInvariance, WorkersReadDefinitions, PTL
-----------------------------------------------------------------------------
(***************************************************************************)
(* The hand-over to Redis.                                                 *)
(***************************************************************************)
Saved == {e \in Events : intent[e] # "absent"}
Delivered == {e \in Events : intent[e] = "delivered"}

HandOffStep == [Intents!Next]_(Intents!handOffVars)

\* Neither saved nor delivered changes, and Redis accepts at most one saved event.
LEMMA AcceptOrStutter ==
    ASSUME Saved' = Saved, Delivered' = Delivered,
           \/ queued' = queued
           \/ \E e \in Saved : queued' = queued \cup {e}
    PROVE  HandOffStep
<1>1. CASE queued' = queued
  BY <1>1 DEF HandOffStep, Intents!handOffVars, Saved, Delivered
<1>2. ASSUME NEW e \in Saved, queued' = queued \cup {e}, e \notin queued
      PROVE  HandOffStep
  <2>1. Intents!Accept(e)
    BY <1>2 DEF Intents!Accept, Saved, Delivered
  <2>2. e \in Events
    BY DEF Saved
  <2>. QED BY <2>1, <2>2 DEF HandOffStep, Intents!Next
<1>3. ASSUME NEW e \in Saved, queued' = queued \cup {e}, e \in queued
      PROVE  queued' = queued
  BY <1>3
<1>. QED BY <1>1, <1>2, <1>3

LEMMA SaveIsSave ==
    ASSUME QueueInv, NEW S \in Purchases, SaveDispatchIntents(S)
    PROVE  HandOffStep
<1>1. S \subseteq Events /\ S # {}
  BY DispatchAssumption DEF SaveDispatchIntents
<1>2. intent' = [e \in Events |-> IF e \in S /\ intent[e] = "absent" THEN "due" ELSE intent[e]]
      /\ queued' = queued
  BY DEF SaveDispatchIntents
<1>3. Saved' = Saved \cup S
  BY <1>1, <1>2 DEF Saved
<1>4. Delivered' = Delivered
  BY <1>2 DEF Delivered
<1>5. Intents!Save(S)
  BY <1>1, <1>2, <1>3, <1>4 DEF Intents!Save, Saved, Delivered
<1>6. S \in SUBSET Events
  BY <1>1
<1>. QED BY <1>5, <1>6 DEF HandOffStep, Intents!Next

LEMMA DeliveryIsMarked ==
    ASSUME QueueInv, NEW p \in Publishers, NEW e \in Events, RecordDelivery(p, e)
    PROVE  HandOffStep
<1>1. e \in queued /\ queued' = queued
  BY DEF RecordDelivery, QueueInv, SendSound
<1>2. CASE ~Undelivered(e)
  BY <1>1, <1>2, AcceptOrStutter DEF RecordDelivery, Saved, Delivered
<1>3. CASE Undelivered(e)
  <2>1. intent[e] \in {"due", "later"} /\ intent' = [intent EXCEPT ![e] = "delivered"]
    BY <1>3 DEF RecordDelivery, Undelivered
  <2>2. \A x \in Events : intent'[x] = IF x = e THEN "delivered" ELSE intent[x]
    BY <2>1 DEF QueueInv
  <2>3. Saved' = Saved /\ Delivered' = Delivered \cup {e} /\ e \notin Delivered
    BY <2>1, <2>2 DEF Saved, Delivered
  <2>4. Intents!Mark(e)
    BY <1>1, <2>3 DEF Intents!Mark, Saved, Delivered
  <2>. QED BY <2>4 DEF HandOffStep, Intents!Next
<1>. QED BY <1>2, <1>3

\* An add that Redis carries out.
LEMMA EnqueueIsAccept ==
    ASSUME QueueInv, NEW e \in Events,
           LateEnqueue(e) \/ \E p \in Publishers : DispatchEvent(p, e)
    PROVE  HandOffStep
<1>1. queued' = queued \cup {e} /\ intent' = intent
  BY DEF LateEnqueue, DispatchEvent, Enqueue
<1>2. e \in Saved
  BY DEF LateEnqueue, DispatchEvent, QueueInv, SendSound, Saved
<1>. QED BY <1>1, <1>2, AcceptOrStutter DEF Saved, Delivered

\* An intent that is not delivered is due now or later.
LEMMA NotYetDelivered ==
    ASSUME QueueInv, NEW e \in Events, intent[e] \in {"due", "later"}, queued' = queued,
           NEW s \in {"due", "later"}, intent' = [intent EXCEPT ![e] = s]
    PROVE  HandOffStep
<1>1. \A x \in Events : intent'[x] = IF x = e THEN s ELSE intent[x]
  BY DEF QueueInv
<1>2. Saved' = Saved /\ Delivered' = Delivered
  BY <1>1 DEF Saved, Delivered
<1>. QED BY <1>2, AcceptOrStutter

LEMMA EveryStepHandsOver ==
    ASSUME QueueInv, [Next]_dispatchVars
    PROVE  HandOffStep
<1>1. CASE UNCHANGED <<intent, queued>>
  BY <1>1, AcceptOrStutter DEF Saved, Delivered
<1>2. ASSUME NEW p \in Publishers,
             \/ PublishPendingIntents(p) \/ PublisherStops(p)
             \/ \E e \in Events : TimeOut(p, e) \/ CannotRecord(p, e)
      PROVE  UNCHANGED <<intent, queued>>
  BY <1>2 DEF PublishPendingIntents, PublisherStops, TimeOut, CannotRecord
<1>3. ASSUME NEW w \in Workers,
             \/ FinishJob(w) \/ WorkerStops(w)
             \/ \E e \in Events : TakeJob(w, e)
             \/ \E a \in Achievements : ProcessAchievement(w, a) \/ AchievementFails(w, a)
      PROVE  UNCHANGED <<intent, queued>>
  BY <1>3 DEF FinishJob, WorkerStops, TakeJob, ProcessAchievement, AchievementFails, intentVars
<1>4. ASSUME NEW e \in Events, DelayEnds(e) \/ StallDetected(e)
      PROVE  UNCHANGED <<intent, queued>>
  BY <1>4 DEF DelayEnds, StallDetected, intentVars
<1>5. ASSUME NEW a \in Achievements,
             \/ DeleteAchievement(a)
             \/ \E d \in Definitions : CreateAchievement(a, d) \/ UpdateAchievement(a, d)
      PROVE  UNCHANGED <<intent, queued>>
  BY <1>5 DEF DeleteAchievement, CreateAchievement, UpdateAchievement, Edit, intentVars
<1>6. ASSUME NEW e \in Events, BecomesDue(e)
      PROVE  HandOffStep
  BY <1>6, NotYetDelivered DEF BecomesDue
<1>7. ASSUME NEW p \in Publishers, NEW e \in Events, RecordFailure(p, e)
      PROVE  HandOffStep
  <2>1. CASE Undelivered(e)
    BY <1>7, <2>1, NotYetDelivered DEF RecordFailure, Undelivered
  <2>2. CASE ~Undelivered(e)
    BY <1>1, <1>7, <2>2 DEF RecordFailure
  <2>. QED BY <2>1, <2>2
<1>8. CASE UNCHANGED dispatchVars
  BY <1>1, <1>8 DEF dispatchVars, intentVars
<1>. QED
  BY <1>1, <1>2, <1>3, <1>4, <1>5, <1>6, <1>7, <1>8,
     SaveIsSave, DeliveryIsMarked, EnqueueIsAccept DEF Next, Progresses

\* The publishers implement the safety of a hand-over: an intent is delivered only
\* after Redis accepted its job, no matter which replica records it and which add
\* came late, delivered stays delivered, and Redis gets nothing that no purchase
\* saved (AchievementIntentPublisher, without any claim on the rows).
THEOREM IntentsHandOverSafely == DispatchSpec => Intents!Safety
<1>1. Init => Intents!Init
  BY DEF Init, Intents!Init
<1>2. QueueInv /\ [Next]_dispatchVars => [Intents!Next]_(Intents!handOffVars)
  BY EveryStepHandsOver DEF HandOffStep
<1>. QED BY <1>1, <1>2, QueueInvariance, PTL DEF DispatchSpec, Intents!Safety
-----------------------------------------------------------------------------
(***************************************************************************)
(* No failure is swallowed.                                                *)
(***************************************************************************)
\* What the worker with memory r can say of an achievement that its event wants:
\* it is counted, or still to do under the definition it has, or something failed,
\* which the worker remembers.
StillKnown(r, a) ==
    \/ <<r.event, a>> \in processed
    \/ a \in DOMAIN r.todo /\ r.todo[a] = definition[a]
    \/ r.failed /\ failures > 0

KnowsAll(r) == \A a \in Wanted(r.event) : StillKnown(r, a)

WorkersCover == \A w \in Workers : worker[w] = Resting \/ KnowsAll(worker[w])

\* Without failures an active job is worked on by the one who has its lock.
JobsHeld ==
    failures = 0 =>
        \A e \in Events : job[e].state = "active" => Works(job[e].token, e)

RememberInv == WorkersCover /\ JobsHeld /\ NothingIsForgotten

LEMMA RememberInit == Init => RememberInv
<1> SUFFICES ASSUME Init PROVE RememberInv
  OBVIOUS
<1>1. WorkersCover
  BY DEF Init, WorkersCover
<1>2. JobsHeld
  BY NoJobSound DEF Init, JobsHeld
<1>3. NothingIsForgotten
  BY DEF Init, NothingIsForgotten
<1>. QED BY <1>1, <1>2, <1>3 DEF RememberInv

\* Nothing is counted back, and an achievement that is still wanted was wanted
\* before, under the same definition.
Grows ==
    /\ processed \subseteq processed'
    /\ failures \in Nat /\ failures' \in Nat /\ failures <= failures'
    /\ \A e \in Events : \A a \in Wanted(e)' :
         a \in Wanted(e) /\ definition'[a] = definition[a]

LEMMA WantedKept ==
    ASSUME CoreInv, [Next]_dispatchVars, NEW e \in Events, NEW a \in Wanted(e)'
    PROVE  a \in Wanted(e) /\ definition'[a] = definition[a]
<1>1. CASE UNCHANGED adminVars
  BY <1>1 DEF adminVars, Wanted, Defined
<1>2. ASSUME NEW b \in Achievements, NEW d, Edit(b, d)
      PROVE  a \in Wanted(e) /\ definition'[a] = definition[a]
  <2>1. definition' = [definition EXCEPT ![b] = d] /\ edited' = edited \cup {b}
    BY <1>2 DEF Edit
  <2>2. /\ a \in Achievements /\ a \notin Refused /\ a \notin edited'
        /\ definition'[a] # NoDefinition
        /\ Matches(definition'[a], e) /\ ShouldProcess(definition'[a], e)
    BY DEF Wanted, Defined
  <2>3. a # b /\ a \notin edited /\ definition'[a] = definition[a]
    BY <2>1, <2>2 DEF CoreInv, DefinitionsSound
  <2>. QED BY <2>2, <2>3 DEF Wanted, Defined
<1>3. CASE \E b \in Achievements :
             \/ DeleteAchievement(b)
             \/ \E d \in Definitions : CreateAchievement(b, d) \/ UpdateAchievement(b, d)
  BY <1>2, <1>3 DEF DeleteAchievement, CreateAchievement, UpdateAchievement
<1>4. ASSUME NEW p \in Publishers,
             \/ PublishPendingIntents(p) \/ PublisherStops(p)
             \/ \E x \in Events : \/ DispatchEvent(p, x) \/ RecordDelivery(p, x)
                                   \/ RecordFailure(p, x) \/ TimeOut(p, x)
                                   \/ CannotRecord(p, x)
      PROVE  UNCHANGED adminVars
  BY <1>4 DEF PublishPendingIntents, PublisherStops, DispatchEvent, RecordDelivery,
       RecordFailure, TimeOut, CannotRecord
<1>5. ASSUME NEW x \in Events,
             BecomesDue(x) \/ DelayEnds(x) \/ StallDetected(x) \/ LateEnqueue(x)
      PROVE  UNCHANGED adminVars
  BY <1>5 DEF BecomesDue, DelayEnds, StallDetected, LateEnqueue
<1>6. ASSUME NEW w \in Workers,
             \/ FinishJob(w) \/ WorkerStops(w)
             \/ \E x \in Events : TakeJob(w, x)
             \/ \E b \in Achievements : ProcessAchievement(w, b) \/ AchievementFails(w, b)
      PROVE  UNCHANGED adminVars
  BY <1>6 DEF FinishJob, WorkerStops, TakeJob, ProcessAchievement, AchievementFails
<1>7. ASSUME NEW S \in Purchases, SaveDispatchIntents(S)
      PROVE  UNCHANGED adminVars
  BY <1>7 DEF SaveDispatchIntents
<1>8. CASE UNCHANGED dispatchVars
  BY <1>1, <1>8 DEF dispatchVars
<1> HIDE DEF adminVars
<1>. QED BY <1>1, <1>3, <1>4, <1>5, <1>6, <1>7, <1>8 DEF Next, Progresses

LEMMA FailuresGrow ==
    ASSUME QueueInv, [Next]_dispatchVars
    PROVE  failures \in Nat /\ failures' \in Nat /\ failures <= failures'
<1>1. failures \in Nat
  BY DispatchAssumption DEF QueueInv
<1>2. Fails \/ UNCHANGED failures
  <2>1. ASSUME NEW p \in Publishers,
               \/ PublishPendingIntents(p) \/ PublisherStops(p)
               \/ \E x \in Events : \/ DispatchEvent(p, x) \/ RecordDelivery(p, x)
                                     \/ RecordFailure(p, x) \/ TimeOut(p, x)
                                     \/ CannotRecord(p, x)
        PROVE  Fails \/ UNCHANGED failures
    BY <2>1 DEF PublishPendingIntents, PublisherStops, DispatchEvent, RecordDelivery,
         RecordFailure, TimeOut, CannotRecord
  <2>2. ASSUME NEW x \in Events,
               BecomesDue(x) \/ DelayEnds(x) \/ StallDetected(x) \/ LateEnqueue(x)
        PROVE  Fails \/ UNCHANGED failures
    BY <2>2 DEF BecomesDue, DelayEnds, StallDetected, LateEnqueue
  <2>3. ASSUME NEW w \in Workers,
               \/ FinishJob(w) \/ WorkerStops(w)
               \/ \E x \in Events : TakeJob(w, x)
               \/ \E b \in Achievements : ProcessAchievement(w, b) \/ AchievementFails(w, b)
        PROVE  Fails \/ UNCHANGED failures
    BY <2>3 DEF FinishJob, WorkerStops, TakeJob, ProcessAchievement, AchievementFails
  <2>4. ASSUME NEW S \in Purchases, SaveDispatchIntents(S)
        PROVE  UNCHANGED failures
    BY <2>4 DEF SaveDispatchIntents
  <2>5. ASSUME NEW b \in Achievements,
               \/ DeleteAchievement(b)
               \/ \E d \in Definitions : CreateAchievement(b, d) \/ UpdateAchievement(b, d)
        PROVE  UNCHANGED failures
    BY <2>5 DEF DeleteAchievement, CreateAchievement, UpdateAchievement, Edit
  <2>6. CASE UNCHANGED dispatchVars
    BY <2>6 DEF dispatchVars
  <2> HIDE DEF Fails
  <2>. QED BY <2>1, <2>2, <2>3, <2>4, <2>5, <2>6 DEF Next, Progresses
<1>. QED BY <1>1, <1>2 DEF Fails

LEMMA EveryStepGrows ==
    ASSUME CoreInv, QueueInv, [Next]_dispatchVars
    PROVE  Grows
<1>1. processed \subseteq processed'
  <2>1. Counts
    BY NextStep
  <2>. QED BY <2>1 DEF Counts, effectVars, Counting!Next, Counting!Count
<1>. QED BY <1>1, WantedKept, FailuresGrow DEF Grows
-----------------------------------------------------------------------------
\* What a worker knew and has not lost, it still knows.
LEMMA KnownKept ==
    ASSUME Grows, NEW r, r.event \in Events, KnowsAll(r)
    PROVE  KnowsAll(r)'
<1> DEFINE e == r.event
<1>1. \A a \in Wanted(e)' : a \in Wanted(e) /\ definition'[a] = definition[a]
  BY DEF Grows
<1>2. ASSUME NEW a \in Wanted(e)'
      PROVE  StillKnown(r, a)'
  <2>1. StillKnown(r, a)
    BY <1>1, <1>2 DEF KnowsAll
  <2>. QED BY <1>1, <2>1 DEF Grows, StillKnown
<1>. QED BY <1>2 DEF KnowsAll

\* One worker takes up r, which knows all that its event wants, or rests.
LEMMA CoverChanges ==
    ASSUME CoreInv, WorkersCover, Grows, NEW w \in Workers, NEW r,
           worker' = [worker EXCEPT ![w] = r],
           r = Resting \/ KnowsAll(r)'
    PROVE  WorkersCover'
<1>1. ASSUME NEW v \in Workers
      PROVE  \E q : q = worker'[v] /\ (q = Resting \/ KnowsAll(q)')
  <2>1. worker'[v] = IF v = w THEN r ELSE worker[v]
    BY DEF CoreInv, WorkersSound
  <2>2. CASE v = w
    BY <2>1, <2>2
  <2>3. CASE v # w
    <3>1. PICK q : q = worker[v]
      OBVIOUS
    <3>2. CASE q = Resting
      BY <2>1, <2>3, <3>1, <3>2
    <3>3. CASE q # Resting
      <4>1. q.event \in Events /\ KnowsAll(q)
        BY <3>1, <3>3 DEF CoreInv, WorkersSound, TodoSound, WorkersCover
      <4>2. KnowsAll(q)'
        BY <4>1, KnownKept
      <4>. QED BY <2>1, <2>3, <3>1, <4>2
    <3>. QED BY <3>2, <3>3
  <2>. QED BY <2>2, <2>3
<1>2. ASSUME NEW v \in Workers
      PROVE  worker'[v] = Resting \/ KnowsAll(worker[v])'
  BY <1>1, <1>2 DEF KnowsAll, StillKnown, Wanted, Defined
<1>. QED BY <1>2 DEF WorkersCover

\* No worker does anything.
LEMMA CoverKept ==
    ASSUME CoreInv, WorkersCover, Grows, UNCHANGED worker
    PROVE  WorkersCover'
<1>1. ASSUME NEW v \in Workers
      PROVE  WorkersCover'
  <2>1. PICK r : r = worker[v]
    OBVIOUS
  <2>2. worker' = [worker EXCEPT ![v] = r]
    BY <2>1 DEF CoreInv, WorkersSound
  <2>3. r = Resting \/ KnowsAll(r)'
    BY <2>1, KnownKept DEF CoreInv, WorkersSound, TodoSound, WorkersCover
  <2>. QED BY <2>2, <2>3, CoverChanges
<1>. QED BY <1>1 DEF WorkersCover

\* Whoever takes a job reads all the definitions that its event wants.
LEMMA TakeJobCovers ==
    ASSUME CoreInv, WorkersCover, Grows, NEW w \in Workers, NEW e \in Events, TakeJob(w, e)
    PROVE  WorkersCover'
<1> DEFINE S == {a \in Defined : Matches(definition[a], e)}
           r == [pc |-> "loop", event |-> e, failed |-> FALSE,
                 todo |-> [a \in S |-> definition[a]]]
<1>1. CASE worker' = [worker EXCEPT ![w] = r]
  <2>1. r.event = e /\ r.todo = [a \in S |-> definition[a]]
    OBVIOUS
  <2>2. \A a \in Wanted(e) : a \in S
    BY DEF Wanted
  <2>3. \A a \in Wanted(e)' : a \in S /\ definition'[a] = definition[a]
    BY <2>2 DEF Grows
  <2>4. \A a \in Wanted(e)' : a \in DOMAIN r.todo /\ r.todo[a] = definition'[a]
    BY <2>1, <2>3
  <2>5. PICK q : q = r
    OBVIOUS
  <2> HIDE DEF r
  <2>6. q.event = e /\ \A a \in Wanted(e)' : a \in DOMAIN q.todo /\ q.todo[a] = definition'[a]
    BY <2>1, <2>4, <2>5
  <2>7. \A a \in Wanted(e)' : StillKnown(q, a)'
    BY <2>6 DEF StillKnown
  <2>8. KnowsAll(q)'
    BY <2>6, <2>7 DEF KnowsAll
  <2>9. worker' = [worker EXCEPT ![w] = q]
    BY <1>1, <2>5
  <2>. QED BY <2>8, <2>9, CoverChanges
<1>2. CASE UNCHANGED worker
  BY <1>2, CoverKept
<1>. QED BY <1>1, <1>2 DEF TakeJob

LEMMA RestCovers ==
    ASSUME CoreInv, WorkersCover, Grows, NEW w \in Workers, FinishJob(w) \/ WorkerStops(w)
    PROVE  WorkersCover'
  BY CoverChanges DEF FinishJob, WorkerStops

\* The loop body: the achievement is counted, or its failure remembered, unless it
\* is one that nothing is promised about.
LEMMA LoopCovers ==
    ASSUME CoreInv, WorkersCover, Grows, NEW w \in Workers, NEW a \in Achievements,
           ProcessAchievement(w, a) \/ AchievementFails(w, a)
    PROVE  WorkersCover'
<1>1. PICK old : old = worker[w]
  OBVIOUS
<1> DEFINE e == old.event
           d == old.todo[a]
<1>2. worker[w].pc = "loop" /\ a \in DOMAIN old.todo
  BY <1>1 DEF ProcessAchievement, AchievementFails
<1>3. old # Resting
  BY <1>1, <1>2 DEF Resting
<1>4. TodoSound(old) /\ KnowsAll(old)
  BY <1>1, <1>3 DEF CoreInv, WorkersSound, WorkersCover
<1>5. e \in Events
  BY <1>4 DEF TodoSound
<1>6. PICK ok \in BOOLEAN :
        /\ DealtWith(w, a, ok)
        /\ ok => ProcessAchievement(w, a)
        /\ ~ok => AchievementFails(w, a)
  BY DEF ProcessAchievement, AchievementFails
<1> DEFINE todo == [b \in DOMAIN old.todo \ {a} |-> old.todo[b]]
           f == old.failed \/ ~ok
           r == [pc |-> "loop", event |-> e, failed |-> f, todo |-> todo]
<1>7. worker' = [worker EXCEPT ![w] = r]
  BY <1>1, <1>6 DEF DealtWith
<1>8. KnowsAll(old)'
  BY <1>4, <1>5, KnownKept
<1>9. ASSUME a \in Wanted(e)
      PROVE  <<e, a>> \in processed' \/ d # definition[a] \/ (~ok /\ failures' > 0)
  <2>1. a \notin Refused /\ Commits(e, a, d)
    BY <1>9 DEF Wanted, Commits
  <2>2. CASE d # definition[a]
    BY <2>2
  <2>3. CASE d = definition[a]
    <3>1. ShouldProcess(d, e)
      BY <1>9, <2>3 DEF Wanted
    <3>2. CASE ok
      <4>1. CountEvent(e, a, d)
        BY <1>1, <1>6, <3>1, <3>2 DEF ProcessAchievement
      <4>. QED BY <4>1 DEF CountEvent, effectVars
    <3>3. CASE ~ok
      <4>1. Fails
        BY <1>1, <1>6, <2>1, <3>3 DEF AchievementFails
      <4>2. failures' > 0
        BY <4>1 DEF Fails, Grows
      <4>. QED BY <3>3, <4>2
    <3>. QED BY <3>2, <3>3
  <2>. QED BY <2>2, <2>3
<1>10. /\ DOMAIN todo = DOMAIN old.todo \ {a}
       /\ \A b \in DOMAIN todo : todo[b] = old.todo[b]
  OBVIOUS
<1> HIDE DEF todo, f
<1>11. r.event = e /\ r.failed = f /\ r.todo = todo
  OBVIOUS
<1> HIDE DEF r
<1>12. ASSUME NEW b \in Wanted(e)'
       PROVE  StillKnown(r, b)'
  <2>1. b \in Wanted(e) /\ definition'[b] = definition[b] /\ processed \subseteq processed'
    BY <1>5, <1>12 DEF Grows
  <2>2. StillKnown(old, b)'
    BY <1>8, <1>12 DEF KnowsAll
  <2>3. CASE <<e, b>> \in processed'
    BY <1>11, <2>3 DEF StillKnown
  <2>4. CASE old.failed /\ failures' > 0
    BY <1>11, <2>4 DEF StillKnown, f
  <2>5. CASE b \in DOMAIN old.todo /\ old.todo[b] = definition'[b]
    <3>1. CASE b # a
      BY <1>10, <1>11, <2>5, <3>1 DEF StillKnown
    <3>2. CASE b = a
      BY <1>9, <1>11, <2>1, <2>5, <3>2 DEF StillKnown, f
    <3>. QED BY <3>1, <3>2
  <2>. QED BY <2>2, <2>3, <2>4, <2>5 DEF StillKnown
<1>13. KnowsAll(r)'
  BY <1>11, <1>12 DEF KnowsAll
<1>. QED BY <1>7, <1>13, CoverChanges
-----------------------------------------------------------------------------
\* The jobs and the workers change together: an active job still has its worker.
LEMMA HeldKept ==
    ASSUME CoreInv, JobsHeld, Grows, UNCHANGED worker,
           \A e \in Events : job'[e] = job[e] \/ job'[e].state # "active"
    PROVE  JobsHeld'
  BY DEF JobsHeld, Works, Grows

\* One worker, with one job or after a failure, does something else.
LEMMA HeldChanges ==
    ASSUME CoreInv, JobsHeld, Grows, NEW w \in Workers, NEW r,
           worker' = [worker EXCEPT ![w] = r],
           failures' = 0 => \A e \in Events :
              \/ job'[e].state # "active"
              \/ job'[e] = job[e] /\ job[e].token # w
              \/ job'[e].token = w /\ r # Resting /\ r.event = e
    PROVE  JobsHeld'
<1> SUFFICES ASSUME failures' = 0, NEW e \in Events, job'[e].state = "active"
             PROVE  Works(job[e].token, e)'
  BY DEF JobsHeld
<1>1. failures = 0
  BY DEF Grows
<1>2. worker = [v \in Workers |-> worker[v]]
  BY DEF CoreInv, WorkersSound
<1>3. CASE job'[e] = job[e] /\ job[e].token # w
  <2>1. Works(job[e].token, e)
    BY <1>1, <1>3 DEF JobsHeld
  <2>2. worker'[job[e].token] = worker[job[e].token]
    BY <1>2, <1>3
  <2>. QED BY <1>3, <2>1, <2>2 DEF Works
<1>4. CASE job'[e].token = w /\ r # Resting /\ r.event = e
  <2>1. worker'[w] = r
    BY <1>2
  <2>. QED BY <1>4, <2>1 DEF Works
<1>. QED BY <1>3, <1>4

LEMMA TakeJobHolds ==
    ASSUME CoreInv, QueueInv, JobsHeld, Grows,
           NEW w \in Workers, NEW e \in Events, TakeJob(w, e)
    PROVE  JobsHeld'
<1> DEFINE S == {a \in Defined : Matches(definition[a], e)}
           r == [pc |-> "loop", event |-> e, failed |-> FALSE,
                 todo |-> [a \in S |-> definition[a]]]
<1>1. worker[w] = Resting /\ JobSound(job[e]) /\ job[e].state = "waiting"
      /\ job \in [Events -> Job]
  BY DEF TakeJob, QueueInv
<1>2. CASE job' = [job EXCEPT ![e] = Taken(job[e], w)] /\ worker' = [worker EXCEPT ![w] = r]
  <2>1. PICK q : q = r
    OBVIOUS
  <2>2. q # Resting /\ q.event = e
    BY <2>1 DEF Resting
  <2>3. worker' = [worker EXCEPT ![w] = q]
    BY <1>2, <2>1
  <2>4. job'[e].token = w /\ \A x \in Events \ {e} : job'[x] = job[x]
    BY <1>1, <1>2, TakenSound
  <2>5. failures' = 0 => \A x \in Events : job[x].state = "active" => job[x].token # w
    BY <1>1 DEF JobsHeld, Works, Grows
  <2>6. failures' = 0 => \A x \in Events :
           \/ job'[x].state # "active"
           \/ job'[x] = job[x] /\ job[x].token # w
           \/ job'[x].token = w /\ q # Resting /\ q.event = x
    BY <2>2, <2>4, <2>5
  <2>. QED BY <2>3, <2>6, HeldChanges
<1>3. CASE job' = [job EXCEPT ![e] = AttemptFailed(Taken(job[e], w), w)] /\ Fails
  <2>1. failures' # 0
    BY <1>3 DEF Fails, Grows
  <2>. QED BY <2>1 DEF JobsHeld
<1>. QED BY <1>2, <1>3 DEF TakeJob

LEMMA FinishJobHolds ==
    ASSUME CoreInv, QueueInv, JobsHeld, Grows, NEW w \in Workers, FinishJob(w)
    PROVE  JobsHeld'
<1> DEFINE e == worker[w].event
           j == job[e]
           k == IF worker[w].failed THEN AttemptFailed(j, w) ELSE Completed(j, w)
<1>1. worker[w] # Resting
  BY DEF FinishJob, Resting
<1>2. e \in Events /\ JobSound(j)
  BY <1>1 DEF CoreInv, WorkersSound, TodoSound, QueueInv
<1>3. IF OwnsJob(j, w) THEN k.state # "active" ELSE k = j
  BY <1>2, AttemptFailedSound, CompletedSound
<1>4. job' = [job EXCEPT ![e] = k] /\ worker' = [worker EXCEPT ![w] = Resting]
  BY DEF FinishJob
<1> HIDE DEF k
<1>5. \A x \in Events : job'[x] = IF x = e THEN k ELSE job[x]
  BY <1>4 DEF QueueInv
<1>6. ASSUME failures' = 0, NEW x \in Events
      PROVE  job'[x].state # "active" \/ (job'[x] = job[x] /\ job[x].token # w)
  <2>1. CASE x = e
    BY <1>3, <1>5, <2>1 DEF OwnsJob
  <2>2. CASE x # e
    <3>1. job[x].state = "active" => job[x].token # w
      BY <1>6, <2>2 DEF JobsHeld, Works, Grows
    <3>. QED BY <1>5, <2>2, <3>1
  <2>. QED BY <2>1, <2>2
<1>. QED BY <1>4, <1>6, HeldChanges

LEMMA LoopHolds ==
    ASSUME CoreInv, JobsHeld, Grows, NEW w \in Workers, NEW a \in Achievements,
           ProcessAchievement(w, a) \/ AchievementFails(w, a)
    PROVE  JobsHeld'
<1>1. PICK ok \in BOOLEAN : DealtWith(w, a, ok)
  BY DEF ProcessAchievement, AchievementFails
<1>2. job' = job /\ worker[w].pc = "loop"
  BY DEF ProcessAchievement, AchievementFails
<1>3. worker = [v \in Workers |-> worker[v]]
  BY DEF CoreInv, WorkersSound
<1>4. worker'[w].pc = "loop" /\ worker'[w].event = worker[w].event
      /\ \A v \in Workers \ {w} : worker'[v] = worker[v]
  BY <1>1, <1>3 DEF DealtWith
<1>5. worker'[w] # Resting /\ worker[w] # Resting
  BY <1>2, <1>4 DEF Resting
<1>6. \A v, e : Works(v, e) => Works(v, e)'
  <2> SUFFICES ASSUME NEW v, NEW e, Works(v, e) PROVE Works(v, e)'
    OBVIOUS
  <2>1. CASE v = w
    BY <1>4, <1>5, <2>1 DEF Works
  <2>2. CASE v # w
    <3>1. worker'[v] = worker[v]
      BY <1>1, <1>3, <2>2 DEF DealtWith
    <3>. QED BY <3>1 DEF Works
  <2>. QED BY <2>1, <2>2
<1>. QED BY <1>2, <1>6 DEF JobsHeld, Grows
-----------------------------------------------------------------------------
\* Is the job of e over, with nobody to blame?
Ended(e) == job[e].state = "none" \/ (job[e].state = "failed" /\ failures = 0)

LEMMA CountedKept ==
    ASSUME Grows, NEW e \in Events, Counted(e)
    PROVE  Counted(e)'
  BY DEF Grows, Counted

\* No job ends but by being finished: each is as it was, or goes on, or fails
\* for a failure that has been noticed.
LEMMA ForgottenKept ==
    ASSUME QueueInv, NothingIsForgotten, Grows,
           \A e \in Events :
              \/ job'[e] = job[e] /\ (e \in queued' => e \in queued)
              \/ job'[e].state \in {"waiting", "active", "delayed"}
              \/ job'[e].state = "failed" /\ failures' > 0,
           queued' \subseteq Events
    PROVE  NothingIsForgotten'
<1> SUFFICES ASSUME NEW e \in Events, e \in queued', Ended(e)'
             PROVE  Counted(e)'
  BY DEF NothingIsForgotten, Ended
<1>1. job'[e] = job[e] /\ e \in queued
  BY DEF Ended, Grows
<1>2. Ended(e)
  BY <1>1 DEF Ended, Grows
<1>3. Counted(e)
  BY <1>1, <1>2 DEF NothingIsForgotten, Ended
<1>. QED BY <1>3, CountedKept

\* A worker that has nothing left to do and saw no failure has counted everything;
\* one that saw a failure nobody noticed has counted all that is wanted.
LEMMA FinishJobForgets ==
    ASSUME CoreInv, QueueInv, RememberInv, Grows, NEW w \in Workers, FinishJob(w)
    PROVE  NothingIsForgotten'
<1>1. PICK r : r = worker[w]
  OBVIOUS
<1> DEFINE e == r.event
           j == job[e]
           k == IF r.failed THEN AttemptFailed(j, w) ELSE Completed(j, w)
<1>2. r # Resting /\ DOMAIN r.todo = {}
  BY <1>1 DEF FinishJob, Resting
<1>3. e \in Events /\ JobSound(j) /\ KnowsAll(r)
  BY <1>1, <1>2 DEF CoreInv, WorkersSound, TodoSound, QueueInv, RememberInv, WorkersCover
<1>4. /\ JobSound(k)
      /\ IF OwnsJob(j, w)
         THEN k.state \in (IF r.failed THEN {"failed", "delayed"} ELSE {"none"})
         ELSE k = j
  BY <1>3, AttemptFailedSound, CompletedSound
<1>5. job' = [job EXCEPT ![e] = k] /\ queued' = queued /\ failures' = failures
  BY <1>1 DEF FinishJob, intentVars
<1> HIDE DEF k
<1>6. \A x \in Events : job'[x] = IF x = e THEN k ELSE job[x]
  BY <1>5 DEF QueueInv
<1> SUFFICES ASSUME NEW x \in Events, x \in queued, Ended(x)'
             PROVE  Counted(x)'
  BY <1>5 DEF NothingIsForgotten, Ended, QueueInv
<1>7. CASE job'[x] = job[x]
  <2>1. Ended(x)
    BY <1>5, <1>7 DEF Ended
  <2>. QED BY <2>1, CountedKept DEF RememberInv, NothingIsForgotten, Ended
<1>8. CASE job'[x] # job[x]
  <2>1. x = e /\ OwnsJob(j, w)
    BY <1>4, <1>6, <1>8
  <2>2. ~r.failed \/ failures = 0
    BY <1>4, <1>5, <1>6, <2>1 DEF Ended
  <2>3. ~(failures > 0) \/ ~r.failed
    BY <2>2
  <2>4. \A a \in Wanted(e) : <<e, a>> \in processed
    BY <1>2, <1>3, <2>3 DEF KnowsAll, StillKnown
  <2>. QED BY <2>1, <2>4, CountedKept DEF Counted
<1>. QED BY <1>7, <1>8

LEMMA EnqueueForgets ==
    ASSUME QueueInv, NothingIsForgotten, Grows, NEW e \in Events, Enqueue(e)
    PROVE  NothingIsForgotten'
<1>1. queued' = queued \cup {e} /\ job' = [job EXCEPT ![e] = Added(job[e])]
      /\ JobSound(job[e]) /\ job \in [Events -> Job] /\ queued \subseteq Events
  BY DEF Enqueue, QueueInv
<1>2. job'[e] = Added(job[e]) /\ \A x \in Events \ {e} : job'[x] = job[x]
  BY <1>1
<1>3. CASE job[e].state = "none"
  <2>1. job'[e].state = "waiting"
    BY <1>1, <1>2, <1>3, AddedSound
  <2>. QED BY <1>1, <1>2, <2>1, ForgottenKept
<1>4. CASE job[e].state # "none"
  <2>1. job'[e] = job[e] /\ e \in queued
    BY <1>1, <1>2, <1>4, AddedSound DEF QueueInv
  <2>. QED BY <1>1, <1>2, <2>1, ForgottenKept
<1>. QED BY <1>3, <1>4

LEMMA TakeJobForgets ==
    ASSUME QueueInv, NothingIsForgotten, Grows,
           NEW w \in Workers, NEW e \in Events, TakeJob(w, e)
    PROVE  NothingIsForgotten'
<1>1. /\ JobSound(job[e]) /\ job[e].state = "waiting" /\ queued' = queued
      /\ job \in [Events -> Job] /\ queued \subseteq Events
  BY DEF TakeJob, QueueInv, intentVars
<1> DEFINE k == Taken(job[e], w)
<1>2. JobSound(k) /\ k.state = "active"
  BY <1>1, TakenSound
<1>3. CASE job' = [job EXCEPT ![e] = k]
  <2>1. job'[e].state = "active" /\ \A x \in Events \ {e} : job'[x] = job[x]
    BY <1>1, <1>2, <1>3
  <2>. QED BY <1>1, <2>1, ForgottenKept
<1>4. CASE job' = [job EXCEPT ![e] = AttemptFailed(k, w)] /\ Fails
  <2>1. AttemptFailed(k, w).state \in {"failed", "delayed"}
    BY <1>1, <1>2, AttemptFailedSound, TakenSound DEF OwnsJob
  <2>2. failures' > 0
    BY <1>4 DEF Fails, Grows
  <2>3. job'[e].state \in {"failed", "delayed"} /\ \A x \in Events \ {e} : job'[x] = job[x]
    BY <1>1, <1>4, <2>1
  <2>. QED BY <1>1, <2>2, <2>3, ForgottenKept
<1>. QED BY <1>3, <1>4 DEF TakeJob

\* A backoff ends, or a lock: without failures no lock does.
LEMMA WaitForgets ==
    ASSUME QueueInv, NothingIsForgotten, JobsHeld, Grows,
           NEW e \in Events, DelayEnds(e) \/ StallDetected(e)
    PROVE  NothingIsForgotten'
<1>1. /\ JobSound(job[e]) /\ queued' = queued
      /\ job \in [Events -> Job] /\ queued \subseteq Events
  BY DEF QueueInv, DelayEnds, StallDetected, intentVars
<1>2. CASE DelayEnds(e)
  <2>1. job[e].state = "delayed" /\ job' = [job EXCEPT ![e] = BackoffOver(job[e])]
    BY <1>2 DEF DelayEnds
  <2>2. job'[e].state = "waiting" /\ \A x \in Events \ {e} : job'[x] = job[x]
    BY <1>1, <2>1, BackoffOverSound
  <2>. QED BY <1>1, <2>2, ForgottenKept
<1>3. CASE StallDetected(e)
  <2>1. job[e].state = "active" /\ job' = [job EXCEPT ![e] = Stalled(job[e])]
    BY <1>3 DEF StallDetected
  <2>2. job'[e].state \in {"failed", "waiting"} /\ \A x \in Events \ {e} : job'[x] = job[x]
    BY <1>1, <2>1, StalledSound
  <2>3. failures' > 0
    <3>1. CASE Works(job[e].token, e)
      BY <1>3, <3>1 DEF StallDetected, Fails, Grows
    <3>2. CASE ~Works(job[e].token, e)
      BY <2>1, <3>2 DEF JobsHeld, Grows
    <3>. QED BY <3>1, <3>2
  <2>. QED BY <1>1, <2>2, <2>3, ForgottenKept
<1>. QED BY <1>2, <1>3
-----------------------------------------------------------------------------
\* Every step remembers what is still to be counted.
LEMMA NextRemembers ==
    ASSUME CoreInv, QueueInv, RememberInv, [Next]_dispatchVars
    PROVE  RememberInv'
<1>1. Grows /\ WorkersCover /\ JobsHeld /\ NothingIsForgotten
  BY EveryStepGrows DEF RememberInv
<1>2. CASE UNCHANGED <<job, worker, queued>>
  <2>1. NothingIsForgotten'
    BY <1>1, <1>2, ForgottenKept DEF QueueInv
  <2>. QED BY <1>1, <1>2, <2>1, CoverKept, HeldKept DEF RememberInv
<1>3. ASSUME NEW p \in Publishers,
             \/ PublishPendingIntents(p) \/ PublisherStops(p)
             \/ \E e \in Events : \/ RecordDelivery(p, e) \/ RecordFailure(p, e)
                                   \/ TimeOut(p, e) \/ CannotRecord(p, e)
      PROVE  UNCHANGED <<job, worker, queued>>
  BY <1>3 DEF PublishPendingIntents, PublisherStops, RecordDelivery,
       RecordFailure, TimeOut, CannotRecord
<1>4. ASSUME NEW S \in Purchases, SaveDispatchIntents(S)
      PROVE  UNCHANGED <<job, worker, queued>>
  BY <1>4 DEF SaveDispatchIntents
<1>5. ASSUME NEW e \in Events, BecomesDue(e)
      PROVE  UNCHANGED <<job, worker, queued>>
  BY <1>5 DEF BecomesDue
<1>6. ASSUME NEW b \in Achievements,
             \/ DeleteAchievement(b)
             \/ \E d \in Definitions : CreateAchievement(b, d) \/ UpdateAchievement(b, d)
      PROVE  UNCHANGED <<job, worker, queued>>
  BY <1>6 DEF DeleteAchievement, CreateAchievement, UpdateAchievement, Edit, intentVars
<1>7. ASSUME NEW e \in Events,
             LateEnqueue(e) \/ \E p \in Publishers : DispatchEvent(p, e)
      PROVE  RememberInv'
  <2>1. Enqueue(e) /\ UNCHANGED worker
    BY <1>7 DEF LateEnqueue, DispatchEvent
  <2>2. \A x \in Events : job'[x] = job[x] \/ job'[x].state # "active"
    <3>1. JobSound(job[e]) /\ job \in [Events -> Job]
      BY DEF QueueInv
    <3>2. Added(job[e]) = job[e] \/ Added(job[e]).state = "waiting"
      BY <3>1, AddedSound
    <3>. QED BY <2>1, <3>1, <3>2 DEF Enqueue
  <2>. QED BY <1>1, <2>1, <2>2, EnqueueForgets, CoverKept, HeldKept DEF RememberInv
<1>8. ASSUME NEW e \in Events, DelayEnds(e) \/ StallDetected(e)
      PROVE  RememberInv'
  <2>1. UNCHANGED worker
    BY <1>8 DEF DelayEnds, StallDetected
  <2>2. \A x \in Events : job'[x] = job[x] \/ job'[x].state # "active"
    <3>1. JobSound(job[e]) /\ job \in [Events -> Job]
      BY DEF QueueInv
    <3>2. PICK k : job' = [job EXCEPT ![e] = k] /\ k.state # "active"
      BY <1>8, <3>1, BackoffOverSound, StalledSound DEF DelayEnds, StallDetected
    <3>. QED BY <3>1, <3>2
  <2>. QED BY <1>1, <1>8, <2>1, <2>2, WaitForgets, CoverKept, HeldKept DEF RememberInv
<1>9. ASSUME NEW w \in Workers, NEW e \in Events, TakeJob(w, e)
      PROVE  RememberInv'
  BY <1>1, <1>9, TakeJobCovers, TakeJobHolds, TakeJobForgets DEF RememberInv
<1>10. ASSUME NEW w \in Workers, FinishJob(w)
       PROVE  RememberInv'
  BY <1>1, <1>10, RestCovers, FinishJobHolds, FinishJobForgets DEF RememberInv
<1>11. ASSUME NEW w \in Workers, WorkerStops(w)
       PROVE  RememberInv'
  <2>1. failures' # 0 /\ job' = job /\ queued' = queued
    BY <1>1, <1>11 DEF WorkerStops, Fails, Grows, intentVars
  <2>2. NothingIsForgotten'
    BY <1>1, <2>1, ForgottenKept DEF QueueInv
  <2>. QED BY <1>1, <1>11, <2>1, <2>2, RestCovers DEF RememberInv, JobsHeld
<1>12. ASSUME NEW w \in Workers, NEW a \in Achievements,
              ProcessAchievement(w, a) \/ AchievementFails(w, a)
       PROVE  RememberInv'
  <2>1. job' = job /\ queued' = queued
    BY <1>12 DEF ProcessAchievement, AchievementFails, intentVars
  <2>2. NothingIsForgotten'
    BY <1>1, <2>1, ForgottenKept DEF QueueInv
  <2>. QED BY <1>1, <1>12, <2>2, LoopCovers, LoopHolds DEF RememberInv
<1>13. CASE UNCHANGED dispatchVars
  BY <1>2, <1>13 DEF dispatchVars, intentVars
<1>. QED
  BY <1>2, <1>3, <1>4, <1>5, <1>6, <1>7, <1>8, <1>9, <1>10, <1>11, <1>12, <1>13
  DEF Next, Progresses

\* No failure is swallowed (AchievementsProcessor.process): a job that BullMQ has
\* forgotten has counted its event towards every achievement that still wants it,
\* and one that ends as failed, because some achievement always fails, towards all
\* the others; lost locks, two workers on one job and late adds included.
THEOREM NoFailureIsSwallowed == DispatchSpec => []NothingIsForgotten
<1>1. CoreInv /\ QueueInv /\ RememberInv /\ [Next]_dispatchVars => RememberInv'
  BY NextRemembers
<1>2. RememberInv => NothingIsForgotten
  BY DEF RememberInv
<1>. QED
  BY RememberInit, <1>1, <1>2, WorkersReadDefinitions, QueueInvariance, PTL DEF DispatchSpec
=============================================================================
