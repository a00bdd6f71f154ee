--------------------------- MODULE PrivSpoolProofs ---------------------------
(***************************************************************************)
(* What the privileged spool guarantees for every set of requests and any  *)
(* number of failures, proved of the specification SpoolSpec of PrivSpool. *)
(* The invariant Held says which file name belongs to which place of the   *)
(* client and of the service: it is what makes a claimed request           *)
(* recognisable to the next run, whatever happened to the last.            *)
(*                                                                         *)
(* The last section carries this over to the commands that use the spool   *)
(* (module GpsCommand).                                                    *)
(***************************************************************************)
EXTENDS GpsCommand, TLAPS

USE RequestAssumption, FaultAssumption, BurstAssumption

(* Of each request: what its file's name says about what was done with it. *)
FileHeld ==
    \A r \in Requests :
        /\ file[r] = "none" => thread[r] \in {"idle", "refused"}
        /\ thread[r] = "idle" => file[r] = "none"
        /\ thread[r] = "writing" => file[r] = "tmp"
        /\ file[r] \in {"json", "work"} => thread[r] = "queued"
        /\ thread[r] # "queued" => performed[r] = 0
        /\ file[r] = "tmp" => thread[r] # "queued"
        /\ file[r] = "json" /\ r \notin unclaimed => performed[r] = 0

(* Of the service: what it holds and what it has listed. *)
ServiceHeld ==
    /\ run \in {"act", "etc", "watch", "remove"} =>
        /\ cur \in Requests
        /\ file[cur] = "work" \/ (file[cur] = "json" /\ cur \in unclaimed)
        /\ cur \notin todo
    /\ run = "act" /\ cur \notin unclaimed => performed[cur] = 0
    /\ run = "stale" => \A r \in todo : file[r] = "work"
    /\ run \notin {"off", "stale"} => \A r \in todo : file[r] = "json"

Held == FileHeld /\ ServiceHeld /\ AtMostOnce

SpoolInv == SpoolTypeOK /\ Held

USE DEF Places, Threads, Confs, Final, Named

-----------------------------------------------------------------------------
(***************************************************************************)
(* Every reachable state is well typed.                                    *)
(***************************************************************************)
LEMMA TypeInit == SpoolInit => SpoolTypeOK
<1> SUFFICES ASSUME SpoolInit PROVE SpoolTypeOK
  OBVIOUS
<1>1. faults \in 0 .. MaxFaults /\ starts \in 0 .. StartBurst
  BY DEF SpoolInit
<1>2. run \in Places /\ todo \subseteq Requests /\ unclaimed \subseteq Requests /\ cur \in Requests \cup {None}
  BY DEF SpoolInit
<1>3. thread \in [Requests -> Threads] /\ file \in [Requests -> {"none", "tmp", "json", "work", "gone"}]
  BY DEF SpoolInit
<1>4. performed \in [Requests -> Nat] /\ conf \in [Confs -> {"off", "nogps", "on"}]
  BY DEF SpoolInit
<1>5. sms \in {"none", "pending"} \cup Final /\ seen \subseteq Final \cup {"gone"} /\ report \in {"none", "error", "unknown", "done", "pending"} \cup Final
  BY DEF SpoolInit
<1>6. listed \in BOOLEAN /\ rebooting \in BOOLEAN /\ watching \in BOOLEAN
  BY DEF SpoolInit
<1>7. QED
  BY <1>1, <1>2, <1>3, <1>4, <1>5, <1>6 DEF SpoolTypeOK

(* The Boolean variables apart, for the provers' sake. *)
Flags == rebooting \in BOOLEAN /\ listed \in BOOLEAN /\ watching \in BOOLEAN
Values ==
    /\ thread \in [Requests -> Threads]
    /\ file \in [Requests -> {"none", "tmp", "json", "work", "gone"}]
    /\ run \in Places /\ todo \subseteq Requests /\ cur \in Requests \cup {None}
    /\ performed \in [Requests -> Nat] /\ unclaimed \subseteq Requests
    /\ conf \in [Confs -> {"off", "nogps", "on"}]
    /\ sms \in {"none", "pending"} \cup Final
    /\ seen \subseteq Final \cup {"gone"}
    /\ report \in {"none", "error", "unknown", "done", "pending"} \cup Final
    /\ faults \in 0 .. MaxFaults /\ starts \in 0 .. StartBurst

LEMMA FlagsStep == Flags /\ [SpoolNext]_spoolVars => Flags'
BY DEF Flags, SpoolNext, spoolVars, Mkstemp, Rename, QueueFails, ClientsDie, Trigger,
  ServiceStep, List, BadFile, DoReboot, DoSendsms, DoLocation, DoLocationEtc, Report,
  Remove, Exit, RemoveStale, Claim, OfonoStep, OfonoSettles, OfonoRemoves, Signal, Poll,
  Kill, Restart, OthersWriteConf, ForgetSms, smsVars, StartLimitHit, IntervalPasses,
  serviceVars, unitVars

LEMMA ValuesStep == Values /\ [SpoolNext]_spoolVars => Values'
<1> SUFFICES ASSUME Values, [SpoolNext]_spoolVars PROVE Values'
  OBVIOUS
<1> USE DEF Values, Fault, clientVars, serviceVars, unitVars, smsVars, historyVars
<1>1. ASSUME NEW R \in SUBSET Writing, ClientsDie(R) PROVE Values'
  BY <1>1 DEF ClientsDie
<1>2. ASSUME NEW r \in Requests, Mkstemp(r) PROVE Values'
  BY <1>2 DEF Mkstemp
<1>3. ASSUME NEW r \in Requests, Rename(r) PROVE Values'
  BY <1>3 DEF Rename
<1>4. ASSUME NEW r \in Requests, QueueFails(r) PROVE Values'
  BY <1>4 DEF QueueFails
<1>5. ASSUME NEW r \in Requests, RemoveStale(r) PROVE Values'
  BY <1>5 DEF RemoveStale
<1>6. ASSUME NEW r \in Requests, Claim(r) PROVE Values'
  BY <1>6 DEF Claim
<1>7. CASE Trigger
  BY <1>7 DEF Trigger
<1>8. CASE List
  BY <1>8 DEF List
<1>9. CASE BadFile
  BY <1>9 DEF BadFile
<1>10. CASE Exit
  BY <1>10 DEF Exit
<1>11. CASE Report
  BY <1>11 DEF Report
<1>12. CASE DoReboot
  <2>1. cur \in Requests
    BY <1>12 DEF DoReboot, Switches
  <2>2. performed' \in [Requests -> Nat]
    BY <1>12, <2>1 DEF DoReboot, Perform
  <2>3. QED
    BY <1>12, <2>2 DEF DoReboot
<1>13. CASE DoSendsms
  <2>1. cur \in Requests
    BY <1>13 DEF DoSendsms, Switches
  <2>2. performed' \in [Requests -> Nat]
    BY <1>13, <2>1 DEF DoSendsms, Perform
  <2>3. QED
    BY <1>13, <2>2 DEF DoSendsms
<1>14. CASE DoLocation
  <2>1. cur \in Requests
    BY <1>14 DEF DoLocation, Switches
  <2>2. performed' \in [Requests -> Nat]
    BY <1>14, <2>1 DEF DoLocation, Perform
  <2>3. QED
    BY <1>14, <2>2 DEF DoLocation, WriteConf
<1>15. CASE DoLocationEtc
  BY <1>15 DEF DoLocationEtc, WriteConf
<1>16. CASE Remove
  BY <1>16 DEF Remove, ForgetSms
<1>17. CASE Kill
  BY <1>17 DEF Kill, ForgetSms
<1>18. CASE OfonoSettles
  BY <1>18 DEF OfonoSettles
<1>19. CASE OfonoRemoves
  BY <1>19 DEF OfonoRemoves
<1>20. CASE Signal
  BY <1>20 DEF Signal
<1>21. CASE Poll
  BY <1>21 DEF Poll
<1>22. CASE Restart
  BY <1>22 DEF Restart, ForgetSms
<1>23. CASE OthersWriteConf
  BY <1>23 DEF OthersWriteConf
<1>24. CASE UNCHANGED spoolVars
  BY <1>24 DEF spoolVars
<1>25. CASE StartLimitHit \/ IntervalPasses
  <2>1. starts' \in 0 .. StartBurst
    BY <1>25, BurstAssumption DEF StartLimitHit, IntervalPasses
  <2>2. UNCHANGED <<thread, file, run, todo, cur, performed, unclaimed, conf, sms, seen, report, faults>>
    BY <1>25 DEF StartLimitHit, IntervalPasses
  <2>3. QED
    BY <2>1, <2>2
<1>26. QED
  BY <1>25, <1>1, <1>2, <1>3, <1>4, <1>5, <1>6, <1>7, <1>8, <1>9, <1>10, <1>11, <1>12, <1>13, <1>14, <1>15, <1>16, <1>17, <1>18, <1>19, <1>20, <1>21, <1>22, <1>23, <1>24
  DEF SpoolNext, ServiceStep, OfonoStep

LEMMA TypeSplit == SpoolTypeOK <=> Flags /\ Values
BY DEF SpoolTypeOK, Flags, Values

LEMMA TypeStep == SpoolTypeOK /\ [SpoolNext]_spoolVars => SpoolTypeOK'
<1>1. SpoolTypeOK' <=> Flags' /\ Values'
  BY DEF SpoolTypeOK, Flags, Values
<1>2. QED
  BY <1>1, TypeSplit, FlagsStep, ValuesStep

THEOREM TypeCorrect == SpoolSpec => []SpoolTypeOK
BY TypeInit, TypeStep, PTL DEF SpoolSpec

-----------------------------------------------------------------------------
(* File names, places and history keep belonging together. *)
LEMMA HeldStep == Values /\ Held /\ [SpoolNext]_spoolVars => Held'
<1> SUFFICES ASSUME Values, Held, [SpoolNext]_spoolVars PROVE Held'
  OBVIOUS
<1> USE DEF Held, FileHeld, ServiceHeld, AtMostOnce, Values, clientVars, serviceVars, unitVars, historyVars
<1>1. ASSUME NEW R \in SUBSET Writing, ClientsDie(R) PROVE Held'
  BY <1>1 DEF ClientsDie, Writing
<1>2. ASSUME NEW r \in Requests, Mkstemp(r) PROVE Held'
  BY <1>2 DEF Mkstemp
<1>3. ASSUME NEW r \in Requests, Rename(r) PROVE Held'
  BY <1>3 DEF Rename
<1>4. ASSUME NEW r \in Requests, QueueFails(r) PROVE Held'
  BY <1>4 DEF QueueFails
<1>5. ASSUME NEW r \in Requests, RemoveStale(r) PROVE Held'
  BY <1>5 DEF RemoveStale
<1>6. ASSUME NEW r \in Requests, Claim(r) PROVE Held'
  BY <1>6 DEF Claim
<1>7. CASE Trigger
  BY <1>7 DEF Trigger
<1>8. CASE List
  BY <1>8 DEF List
<1>9. CASE BadFile
  BY <1>9 DEF BadFile
<1>10. CASE Exit
  BY <1>10 DEF Exit
<1>11. CASE Report
  BY <1>11 DEF Report
<1>12. CASE DoReboot
  BY <1>12 DEF DoReboot, Perform
<1>13. CASE DoSendsms
  BY <1>13 DEF DoSendsms, Perform
<1>14. CASE DoLocation
  BY <1>14 DEF DoLocation, Perform, Switches
<1>15. CASE DoLocationEtc
  BY <1>15 DEF DoLocationEtc
<1>16. CASE Remove
  BY <1>16 DEF Remove, ForgetSms
<1>17. CASE Kill
  BY <1>17 DEF Kill, ForgetSms
<1>18. CASE OfonoSettles
  BY <1>18 DEF OfonoSettles
<1>19. CASE OfonoRemoves
  BY <1>19 DEF OfonoRemoves
<1>20. CASE Signal
  BY <1>20 DEF Signal
<1>21. CASE Poll
  BY <1>21 DEF Poll
<1>22. CASE Restart
  BY <1>22 DEF Restart, ForgetSms
<1>23. CASE OthersWriteConf
  BY <1>23 DEF OthersWriteConf
<1>24. CASE UNCHANGED spoolVars
  BY <1>24 DEF spoolVars
<1>25. CASE StartLimitHit \/ IntervalPasses
  BY <1>25 DEF StartLimitHit, IntervalPasses
<1>26. QED
  BY <1>25, <1>1, <1>2, <1>3, <1>4, <1>5, <1>6, <1>7, <1>8, <1>9, <1>10, <1>11, <1>12, <1>13, <1>14, <1>15, <1>16, <1>17, <1>18, <1>19, <1>20, <1>21, <1>22, <1>23, <1>24
  DEF SpoolNext, ServiceStep, OfonoStep

LEMMA HeldInit == SpoolInit => Held
BY DEF SpoolInit, Held, FileHeld, ServiceHeld, AtMostOnce

LEMMA Invariance == SpoolSpec => [](SpoolTypeOK /\ Held)
<1>1. SpoolTypeOK /\ Held /\ [SpoolNext]_spoolVars => (SpoolTypeOK /\ Held)'
  BY TypeSplit, TypeStep, HeldStep
<1>2. QED
  BY TypeInit, HeldInit, <1>1, PTL DEF SpoolSpec

(***************************************************************************)
(* Whatever is killed and whenever, a request that could be claimed is     *)
(* carried out at most once.                                               *)
(***************************************************************************)
THEOREM OnceEach == SpoolSpec => []AtMostOnce
<1>1. Held => AtMostOnce
  BY DEF Held
<1>2. QED
  BY Invariance, <1>1, PTL

-----------------------------------------------------------------------------
(* While the service waits for ofono it has reported nothing yet, and the   *)
(* states it has seen of the message are the one state ofono gave it.       *)
ReportHeld ==
    /\ ReportIsTrue
    /\ run = "watch" => report \notin Final /\ seen \cap Final \subseteq {sms}

LEMMA ReportStep ==
  ASSUME ReportHeld, [SpoolNext]_spoolVars
  PROVE  ReportHeld'
<1>1. ASSUME UNCHANGED smsVars, run' # "watch" \/ run' = run PROVE ReportHeld'
  BY <1>1 DEF ReportHeld, ReportIsTrue, smsVars
<1>2. ASSUME ForgetSms, run' # "watch" PROVE ReportHeld'
  BY <1>2 DEF ReportHeld, ReportIsTrue, ForgetSms
<1>3. CASE DoSendsms
  <2>1. CASE report' \in {"error", "unknown"} /\ run' = "remove"
    BY <2>1 DEF ReportHeld, ReportIsTrue
  <2>2. CASE report' = "none" /\ seen' = {}
    BY <2>2 DEF ReportHeld, ReportIsTrue
  <2>3. QED
    BY <1>3, <2>1, <2>2 DEF DoSendsms
<1>4. CASE OfonoSettles
  <2>1. /\ run = "watch" /\ sms = "pending" /\ report' = report /\ seen' = seen
        /\ report \notin Final
    BY <1>4 DEF OfonoSettles, ReportHeld
  <2>2. seen \cap Final = {}
    BY <2>1 DEF ReportHeld
  <2>3. QED
    BY <2>1, <2>2 DEF ReportHeld, ReportIsTrue
<1>5. CASE OfonoRemoves
  BY <1>5 DEF OfonoRemoves, ReportHeld, ReportIsTrue, serviceVars
<1>6. CASE Signal \/ Poll
  <2>1. seen' \subseteq seen \cup {sms, "gone"} /\ UNCHANGED <<run, sms, report>>
    BY <1>6 DEF Signal, Poll, serviceVars
  <2>2. QED
    BY <2>1 DEF ReportHeld, ReportIsTrue
<1>7. CASE Report
  <2>1. run = "watch" /\ run' = "remove" /\ sms' = sms
    BY <1>7 DEF Report
  <2>2. CASE seen \cap Final # {}
    <3>1. report' = CHOOSE s \in Final : s \in seen
      BY <1>7, <2>2 DEF Report
    <3>2. (CHOOSE s \in Final : s \in seen) \in seen \cap Final
      BY <2>2
    <3>3. report' = sms
      BY <2>1, <3>1, <3>2 DEF ReportHeld
    <3>4. QED
      BY <2>1, <3>3 DEF ReportHeld, ReportIsTrue
  <2>3. CASE seen \cap Final = {}
    BY <1>7, <2>1, <2>3 DEF Report, ReportHeld, ReportIsTrue
  <2>4. QED
    BY <2>2, <2>3
<1>8. CASE Remove \/ Kill \/ Restart
  BY <1>2, <1>8 DEF Remove, Kill, Restart
<1>9. CASE List \/ BadFile \/ DoReboot \/ DoLocation \/ DoLocationEtc \/ Exit \/ Trigger
           \/ StartLimitHit \/ IntervalPasses \/ OthersWriteConf \/ UNCHANGED spoolVars
  BY <1>1, <1>9 DEF StartLimitHit, IntervalPasses, List, BadFile, DoReboot, DoLocation, DoLocationEtc, Exit, Trigger,
     OthersWriteConf, spoolVars, smsVars, serviceVars
<1>10. CASE \/ \E r \in Requests : Mkstemp(r) \/ Rename(r) \/ QueueFails(r) \/ RemoveStale(r) \/ Claim(r)
            \/ \E R \in SUBSET Writing : ClientsDie(R)
  BY <1>1, <1>10 DEF Mkstemp, Rename, QueueFails, RemoveStale, Claim, ClientsDie, serviceVars
<1>11. QED
  BY <1>3, <1>4, <1>5, <1>6, <1>7, <1>8, <1>9, <1>10 DEF SpoolNext, ServiceStep, OfonoStep

(* A message is reported as sent, or as failed, only when that is the state *)
(* ofono gave it: signals may be missing, and a message that ofono has      *)
(* dropped from its list before it was looked at is neither                 *)
(* (sms_sender._StateWatcher.wait).                                         *)
THEOREM ReportsAreTrue == SpoolSpec => []ReportIsTrue
<1>1. SpoolInit => ReportHeld
  BY DEF SpoolInit, ReportHeld, ReportIsTrue
<1>2. ReportHeld => ReportIsTrue
  BY DEF ReportHeld
<1>3. QED
  BY <1>1, <1>2, ReportStep, PTL DEF SpoolSpec

-----------------------------------------------------------------------------
(* How a step of the spool looks to PrivSpoolOnce. *)
Worse(r) ==
    \/ FateOf(r)' = FateOf(r)
    \/ FateOf(r) = "new" /\ FateOf(r)' = "refused"
    \/ FateOf(r) = "queued" /\ FateOf(r)' = "dropped"

LEMMA FateRange == \A r \in Requests : FateOf(r) \in Once!Fates /\ FateOf(r)' \in Once!Fates
BY DEF FateOf, Once!Fates

LEMMA FailStep ==
  ASSUME performed' = performed, unclaimed' = unclaimed, \A r \in Requests : Worse(r)
  PROVE  Once!Next
<1>1. Once!Fail
  BY FateRange DEF Once!Fail, Worse
<1>2. QED
  BY <1>1 DEF Once!Next

LEMMA ServeStep ==
  ASSUME Values, Held, run = "act", Perform, cur' = cur,
         file' = file, thread' = thread, unclaimed' = unclaimed
  PROVE  Once!Next
<1>1. cur \in Requests /\ performed[cur] \in Nat
  BY DEF Held, ServiceHeld, Values
<1>2. file[cur] \in {"work", "json"} /\ (cur \notin unclaimed => performed[cur] = 0)
  BY DEF Held, ServiceHeld
<1>3. performed' = [performed EXCEPT ![cur] = @ + 1]
  BY DEF Perform
<1>4. FateOf(cur) = "queued" \/ (FateOf(cur) = "served" /\ cur \in unclaimed)
  BY <1>1, <1>2 DEF FateOf
<1>5. performed'[cur] > 0
  BY <1>1, <1>3 DEF Values
<1>6. FateOf(cur)' = "served"
  BY <1>5, <1>1 DEF FateOf
<1>7. \A r \in Requests \ {cur} : FateOf(r)' = FateOf(r)
  BY <1>3 DEF FateOf, Values
<1>8. [r \in Requests |-> FateOf(r)]' = [[r \in Requests |-> FateOf(r)] EXCEPT ![cur] = "served"]
  BY <1>1, <1>6, <1>7
<1>9. Once!Serve(cur)
  BY <1>1, <1>3, <1>4, <1>8 DEF Once!Serve
<1>10. QED
  BY <1>1, <1>9 DEF Once!Next

(***************************************************************************)
(* The spool implements PrivSpoolOnce: every file operation, failure and   *)
(* kill is an acceptance, a doubt, a service or a failure of some request. *)
(***************************************************************************)
THEOREM Refinement == SpoolSpec => ImplementsOnce
<1>1. SpoolInit => Once!Init
  BY DEF SpoolInit, Once!Init, FateOf
<1>2. Values /\ Held /\ [SpoolNext]_spoolVars => [Once!Next]_(Once!onceVars)
  <2> SUFFICES ASSUME Values, Held, [SpoolNext]_spoolVars
               PROVE  Once!Next
    OBVIOUS
  <2> USE DEF Held, FileHeld, Values, clientVars, serviceVars, unitVars, historyVars
  <2>1. ASSUME NEW r \in Requests, Rename(r) PROVE Once!Next
    <3>1. FateOf(r) = "new" /\ FateOf(r)' = "queued"
      BY <2>1 DEF Rename, FateOf
    <3>2. \A q \in Requests \ {r} : FateOf(q)' = FateOf(q)
      BY <2>1 DEF Rename, FateOf
    <3>3. [q \in Requests |-> FateOf(q)]' = [[q \in Requests |-> FateOf(q)] EXCEPT ![r] = "queued"]
      BY <3>1, <3>2
    <3>4. Once!Accept(r)
      BY <2>1, <3>1, <3>3 DEF Rename, Once!Accept
    <3>5. QED
      BY <3>4 DEF Once!Next
  <2>2. ASSUME NEW r \in Requests, Claim(r) PROVE Once!Next
    <3>1. file[r] = "json"
      BY <2>2 DEF Claim, ServiceHeld
    <3>2. \A q \in Requests : FateOf(q)' = FateOf(q)
      BY <2>2, <3>1 DEF Claim, FateOf
    <3>3. CASE unclaimed' = unclaimed
      BY <2>2, <3>2, <3>3, FailStep DEF Claim, Worse
    <3>4. CASE unclaimed' = unclaimed \cup {r}
      <4>1. FateOf(r) \in {"queued", "served"}
        BY <3>1 DEF FateOf
      <4>2. Once!Doubt(r)
        BY <2>2, <3>2, <3>4, <4>1 DEF Claim, Once!Doubt
      <4>3. QED
        BY <4>2 DEF Once!Next
    <3>5. QED
      BY <2>2, <3>3, <3>4 DEF Claim
  <2>3. CASE DoReboot
    BY <2>3, ServeStep DEF DoReboot
  <2>4. CASE DoSendsms
    <3>1. CASE Perform
      BY <2>4, <3>1, ServeStep DEF DoSendsms
    <3>2. CASE performed' = performed
      <4>1. \A q \in Requests : Worse(q)
        BY <2>4, <3>2 DEF DoSendsms, FateOf, Worse
      <4>2. QED
        BY <2>4, <3>2, <4>1, FailStep DEF DoSendsms
    <3>3. QED
      BY <2>4, <3>1, <3>2 DEF DoSendsms
  <2>5. CASE DoLocation
    BY <2>5, ServeStep DEF DoLocation
  <2>6. ASSUME NEW R \in SUBSET Writing, ClientsDie(R) PROVE Once!Next
    <3>1. \A q \in Requests : Worse(q)
      BY <2>6 DEF ClientsDie, Writing, FateOf, Worse
    <3>2. QED
      BY <2>6, <3>1, FailStep DEF ClientsDie
  <2>7. ASSUME NEW r \in Requests, Mkstemp(r) PROVE Once!Next
    <3>1. \A q \in Requests : Worse(q)
      BY <2>7 DEF Mkstemp, FateOf, Worse
    <3>2. QED
      BY <2>7, <3>1, FailStep DEF Mkstemp
  <2>8. ASSUME NEW r \in Requests, QueueFails(r) PROVE Once!Next
    <3>1. \A q \in Requests : Worse(q)
      BY <2>8 DEF QueueFails, FateOf, Worse
    <3>2. QED
      BY <2>8, <3>1, FailStep DEF QueueFails
  <2>9. ASSUME NEW r \in Requests, RemoveStale(r) PROVE Once!Next
    <3>1. \A q \in Requests : Worse(q)
      BY <2>9 DEF RemoveStale, ServiceHeld, FateOf, Worse
    <3>2. QED
      BY <2>9, <3>1, FailStep DEF RemoveStale
  <2>10. CASE Trigger
    <3>1. \A q \in Requests : Worse(q)
      BY <2>10 DEF Trigger, FateOf, Worse
    <3>2. QED
      BY <2>10, <3>1, FailStep DEF Trigger
  <2>11. CASE List
    <3>1. \A q \in Requests : Worse(q)
      BY <2>11 DEF List, FateOf, Worse
    <3>2. QED
      BY <2>11, <3>1, FailStep DEF List
  <2>12. CASE BadFile
    <3>1. \A q \in Requests : Worse(q)
      BY <2>12 DEF BadFile, FateOf, Worse
    <3>2. QED
      BY <2>12, <3>1, FailStep DEF BadFile
  <2>13. CASE Exit
    <3>1. \A q \in Requests : Worse(q)
      BY <2>13 DEF Exit, FateOf, Worse
    <3>2. QED
      BY <2>13, <3>1, FailStep DEF Exit
  <2>14. CASE Report
    <3>1. \A q \in Requests : Worse(q)
      BY <2>14 DEF Report, FateOf, Worse
    <3>2. QED
      BY <2>14, <3>1, FailStep DEF Report
  <2>15. CASE DoLocationEtc
    <3>1. \A q \in Requests : Worse(q)
      BY <2>15 DEF DoLocationEtc, FateOf, Worse
    <3>2. QED
      BY <2>15, <3>1, FailStep DEF DoLocationEtc
  <2>16. CASE Remove
    <3>1. \A q \in Requests : Worse(q)
      BY <2>16 DEF Remove, ServiceHeld, FateOf, Worse
    <3>2. QED
      BY <2>16, <3>1, FailStep DEF Remove
  <2>17. CASE Kill
    <3>1. \A q \in Requests : Worse(q)
      BY <2>17 DEF Kill, FateOf, Worse
    <3>2. QED
      BY <2>17, <3>1, FailStep DEF Kill
  <2>18. CASE OfonoSettles
    <3>1. \A q \in Requests : Worse(q)
      BY <2>18 DEF OfonoSettles, FateOf, Worse
    <3>2. QED
      BY <2>18, <3>1, FailStep DEF OfonoSettles
  <2>19. CASE OfonoRemoves
    <3>1. \A q \in Requests : Worse(q)
      BY <2>19 DEF OfonoRemoves, FateOf, Worse
    <3>2. QED
      BY <2>19, <3>1, FailStep DEF OfonoRemoves
  <2>20. CASE Signal
    <3>1. \A q \in Requests : Worse(q)
      BY <2>20 DEF Signal, FateOf, Worse
    <3>2. QED
      BY <2>20, <3>1, FailStep DEF Signal
  <2>21. CASE Poll
    <3>1. \A q \in Requests : Worse(q)
      BY <2>21 DEF Poll, FateOf, Worse
    <3>2. QED
      BY <2>21, <3>1, FailStep DEF Poll
  <2>22. CASE Restart
    <3>1. \A q \in Requests : Worse(q)
      BY <2>22 DEF Restart, FateOf, Worse
    <3>2. QED
      BY <2>22, <3>1, FailStep DEF Restart
  <2>23. CASE OthersWriteConf
    <3>1. \A q \in Requests : Worse(q)
      BY <2>23 DEF OthersWriteConf, FateOf, Worse
    <3>2. QED
      BY <2>23, <3>1, FailStep DEF OthersWriteConf
  <2>24. CASE UNCHANGED spoolVars
    <3>1. \A q \in Requests : Worse(q)
      BY <2>24 DEF spoolVars, FateOf, Worse
    <3>2. QED
      BY <2>24, <3>1, FailStep DEF spoolVars
  <2>25. CASE StartLimitHit \/ IntervalPasses
    <3>1. \A q \in Requests : Worse(q)
      BY <2>25 DEF StartLimitHit, IntervalPasses, FateOf, Worse
    <3>2. QED
      BY <2>25, <3>1, FailStep DEF StartLimitHit, IntervalPasses
  <2>26. QED
    BY <2>25, <2>1, <2>2, <2>3, <2>4, <2>5, <2>6, <2>7, <2>8, <2>9, <2>10, <2>11, <2>12, <2>13, <2>14, <2>15, <2>16, <2>17, <2>18, <2>19, <2>20, <2>21, <2>22, <2>23, <2>24
    DEF SpoolNext, ServiceStep, OfonoStep
<1>3. QED
  BY <1>1, <1>2, Invariance, TypeSplit, PTL DEF SpoolSpec, ImplementsOnce, Once!Spec

-----------------------------------------------------------------------------
(***************************************************************************)
(* The commands: each request is queued by the one command it belongs to,  *)
(* so that a step of the daemon is a step of one of the spool's clients.   *)
(***************************************************************************)
USE CmdAssumption, UseAssumption

(* Which command the worker has in hand, by its place. *)
JobHeld ==
    /\ queue \in Seq(Cmds)
    /\ pc \in {"free", "check", "switch", "spool", "fix", "last", "answer", "wipe", "reboot"}
    /\ pc \in {"check", "switch", "spool", "fix", "last", "answer"} => job \in Cmds \ Wipes
    /\ pc \in {"wipe", "reboot"} => job \in Wipes

LEMMA RequestsOfCommands ==
    /\ Wish \in Requests
    /\ \A c \in Cmds \ Wipes : LocationOf(c) \in Requests /\ ReplyTo(c) \in Requests
    /\ \A c \in Wipes : RebootFor(c) \in Requests
BY DEF Switches

LEMMA QueueStepUses ==
    ASSUME NEW r \in Requests, QueueStep(r)
    PROVE  SpoolNext
BY DEF QueueStep, SpoolNext

(* The switch of the location, by whomever it is operated. *)
LEMMA ConfWriteUses ==
    ASSUME conf' \in [Confs -> {"off", "nogps", "on"}], UNCHANGED spoolButConf
    PROVE  SpoolNext
BY DEF SpoolNext, OthersWriteConf, spoolButConf, clientVars, serviceVars, smsVars, historyVars

LEMMA DirectWriteUses ==
    ASSUME conf \in [Confs -> {"off", "nogps", "on"}], DirectWrite, UNCHANGED spoolButConf
    PROVE  SpoolNext
<1>1. conf' \in [Confs -> {"off", "nogps", "on"}]
  BY DEF DirectWrite
<1>2. QED
  BY <1>1, ConfWriteUses

LEMMA StepUses == SpoolTypeOK /\ JobHeld /\ [Next]_vars => [SpoolNext]_spoolVars
<1> SUFFICES ASSUME SpoolTypeOK, JobHeld, [Next]_vars
             PROVE  [SpoolNext]_spoolVars
  OBVIOUS
<1>1. conf \in [Confs -> {"off", "nogps", "on"}]
  BY DEF SpoolTypeOK
<1>2. CASE UNCHANGED vars
  BY <1>2 DEF vars
<1>3. ASSUME NEW c \in Cmds, Submit(c)
      PROVE  UNCHANGED spoolVars
  BY <1>3 DEF Submit
<1>4. CASE ConsumeWish
  <2>1. CASE DirectWrite
    BY <1>1, <1>4, <2>1, DirectWriteUses DEF ConsumeWish
  <2>2. CASE UNCHANGED conf
    BY <1>1, <1>4, <2>2, ConfWriteUses DEF ConsumeWish
  <2>3. QED
    BY <1>4, <2>1, <2>2 DEF ConsumeWish
<1>5. CASE SpoolWish
  BY <1>5, RequestsOfCommands, QueueStepUses DEF SpoolWish
<1>6. CASE Take \/ Check \/ Fix \/ Last \/ Wipe
  BY <1>6 DEF Take, Check, Fix, Last, Wipe
<1>7. CASE Switch
  BY <1>1, <1>7, DirectWriteUses DEF Switch
<1>8. CASE SpoolSwitch
  <2>1. LocationOf(job) \in Requests /\ QueueStep(LocationOf(job))
    BY <1>8, RequestsOfCommands DEF SpoolSwitch, JobHeld
  <2>2. QED
    BY <2>1, QueueStepUses
<1>9. CASE Reply
  <2>1. ReplyTo(job) \in Requests /\ QueueStep(ReplyTo(job))
    BY <1>9, RequestsOfCommands DEF Reply, JobHeld
  <2>2. QED
    BY <2>1, QueueStepUses
<1>10. CASE AskReboot
  <2>1. RebootFor(job) \in Requests /\ QueueStep(RebootFor(job))
    BY <1>10, RequestsOfCommands DEF AskReboot, JobHeld
  <2>2. QED
    BY <2>1, QueueStepUses
<1>11. CASE Serve \/ Outside
  BY <1>11 DEF Serve, Outside, SpoolNext
<1>12. CASE UserSwitches
  <2>1. conf' \in [Confs -> {"off", "nogps", "on"}]
    BY <1>1, <1>12 DEF UserSwitches
  <2>2. QED
    BY <1>12, <2>1, ConfWriteUses DEF UserSwitches
<1>13. CASE DaemonDies
  BY <1>13 DEF DaemonDies, SpoolNext
<1>14. CASE DeviceRestarts
  BY <1>14 DEF DeviceRestarts, SpoolNext
<1>15. QED
  BY <1>2, <1>3, <1>4, <1>5, <1>6, <1>7, <1>8, <1>9, <1>10, <1>11, <1>12, <1>13, <1>14
  DEF Next, LoopStep, WorkerStep

LEMMA JobHeldStep == JobHeld /\ [Next]_vars => JobHeld'
<1> SUFFICES ASSUME JobHeld, [Next]_vars
             PROVE  JobHeld'
  OBVIOUS
<1> USE DEF JobHeld, Goto, Ends
<1>1. CASE UNCHANGED vars
  BY <1>1 DEF vars, cmdVars, workerVars
<1>2. ASSUME NEW c \in Cmds, Submit(c)
      PROVE  JobHeld'
  BY <1>2 DEF Submit
<1>3. CASE LoopStep
  BY <1>3 DEF LoopStep, ConsumeWish, SpoolWish, workerVars
<1>4. CASE Take
  <2>1. Head(queue) \in Cmds /\ Tail(queue) \in Seq(Cmds)
    BY <1>4 DEF Take
  <2>2. CASE job' = Head(queue) /\ pc' = IF Head(queue) \in Wipes THEN "wipe" ELSE "check"
    BY <1>4, <2>1, <2>2 DEF Take
  <2>3. CASE UNCHANGED <<job, pc>>
    BY <1>4, <2>1, <2>3 DEF Take
  <2>4. QED
    BY <1>4, <2>2, <2>3 DEF Take
<1>5. CASE Check \/ Switch \/ SpoolSwitch \/ Fix
  BY <1>5 DEF Check, Switch, SpoolSwitch, Fix
<1>6. CASE Last \/ Reply
  BY <1>6 DEF Last, Reply
<1>7. CASE Wipe \/ AskReboot
  BY <1>7 DEF Wipe, AskReboot
<1>8. CASE Serve \/ Outside
  BY <1>8 DEF Serve, Outside, cmdVars, workerVars
<1>9. CASE UserSwitches
  BY <1>9 DEF UserSwitches, workerVars
<1>10. CASE DaemonDies \/ DeviceRestarts
  <2>1. queue' = <<>> /\ pc' = "free"
    BY <1>10 DEF DaemonDies, DeviceRestarts, DaemonGone
  <2>2. QED
    BY <2>1
<1>11. QED
  BY <1>1, <1>2, <1>3, <1>4, <1>5, <1>6, <1>7, <1>8, <1>9, <1>10 DEF Next, WorkerStep

(* daemon_cmd.py and the app's wish get at the spool by priv_client.queue   *)
(* alone, so that what is proved of the spool with any clients holds with   *)
(* these.                                                                   *)
LEMMA SpecUsesSpool == Spec => SpoolSpec
<1> DEFINE IInv == SpoolTypeOK /\ JobHeld
<1>1. Init => IInv /\ SpoolInit
  BY TypeInit DEF Init, JobHeld
<1>2. IInv /\ [Next]_vars => IInv'
  BY StepUses, TypeStep, JobHeldStep
<1>3. IInv /\ [Next]_vars => [SpoolNext]_spoolVars
  BY StepUses
<1> HIDE DEF IInv
<1>4. QED
  BY <1>1, <1>2, <1>3, PTL DEF Spec, SpoolSpec

(***************************************************************************)
(* So a reply, a reboot or a switch that a command or the app has queued   *)
(* is carried out once or dropped, and one that was refused never is,      *)
(* through all deaths of the daemon, of the service and of the device,     *)
(* unless it could not be claimed (priv_service.main).                     *)
(***************************************************************************)
THEOREM CommandsAreServedOnce == Spec => ImplementsOnce
BY SpecUsesSpool, Refinement, PTL

(* And what the log says of a reply that a command sent is true.            *)
THEOREM RepliesAreReportedTrue == Spec => []ReportIsTrue
BY SpecUsesSpool, ReportsAreTrue, PTL
=============================================================================
