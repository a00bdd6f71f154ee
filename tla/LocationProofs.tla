--------------------------- MODULE LocationProofs ---------------------------
(***************************************************************************)
(* Proofs about Location, for any threads of the app and any bounds.       *)
(***************************************************************************)
EXTENDS Location, TLAPS

USE BoundsAssumption, ThreadsAssumption

-----------------------------------------------------------------------------
(* Who changes what: every step is of one of the three processes, of their  *)
(* environment, or leaves the variables of a process alone.                 *)

GpsActs == GpsStep \/ GpsDies \/ GpsStarts
CmdActs == CmdStep \/ CmdDies \/ CmdStarts
WishActs == ConsumeClear \/ PublishLatest \/ CmdDies \/ WishAges \/ \E t \in Threads : Wish(t)

LEMMA GpsFrame ==
  ASSUME [Next]_vars, ~GpsActs
  PROVE  UNCHANGED gpsVars
<1>1. CASE CmdStep
  BY <1>1 DEF CmdStep, ConsumeRead, ConsumeClear, PublishLatest, CommandSend, gpsVars
<1>2. CASE QmlStep \/ ClientStep
  BY <1>2 DEF QmlStep, GpsFixRequested, Finish, QmlFixResult, ClientStep, Connected,
     Restart, FlushPendingLocation, FlushedArrives, gpsVars
<1>3. CASE Environment
  BY <1>3 DEF Environment, GpsActs, CmdDies, CmdStarts, WishAges, AppCloses, AppOpens,
     NetworkLost, NetworkBack, gpsVars
<1>4. ASSUME NEW t \in Threads, ThreadStep(t)
      PROVE  UNCHANGED gpsVars
  BY <1>4 DEF ThreadStep, RequestFix, FixedPosition, FixArrived, NoFix, Store, Publish,
     PublishFails, ForceReconnect, ReconnectFails, Published, KeepPending, Wish, gpsVars
<1>5. CASE UNCHANGED vars
  BY <1>5 DEF vars, gpsVars
<1>6. QED
  BY <1>1, <1>2, <1>3, <1>4, <1>5 DEF Next, GpsActs

-----------------------------------------------------------------------------
(* Types, one part of the state at a time.                                  *)

LEMMA WorldTypesStep ==
  ASSUME TypeOK, [Next]_vars
  PROVE  WorldTypes'
<1>1. CASE CommandSend
  BY <1>1 DEF CommandSend, WorldTypes, TypeOK, Confirmed, Unconfirmed,
     CmdTypes
<1>2. CASE ConsumeRead \/ ConsumeClear \/ PublishLatest
  BY <1>2 DEF ConsumeRead, ConsumeClear, PublishLatest, WorldTypes, TypeOK,
     worldVars
<1>3. CASE TickFix
  BY <1>3 DEF TickFix, WorldTypes, TypeOK, Obtain, MaybeFix
<1>4. CASE TickStore
  BY <1>4 DEF TickStore, WorldTypes, TypeOK, StoreFix, GpsTypes
<1>5. CASE TickDelivered
  BY <1>5 DEF TickDelivered, WorldTypes, TypeOK, Confirmed, GpsTypes
<1>6. CASE TickUndelivered
  BY <1>6 DEF TickUndelivered, WorldTypes, TypeOK, Unconfirmed, GpsTypes
<1>7. CASE TickNoFix
  BY <1>7 DEF TickNoFix, WorldTypes, TypeOK, worldVars
<1>8. CASE Finish
  <2>1. CASE Obtain
    BY <2>1 DEF WorldTypes, TypeOK, Obtain, MaybeFix
  <2>2. CASE UNCHANGED worldVars
    BY <2>2 DEF WorldTypes, TypeOK, worldVars
  <2>3. QED
    BY <1>8, <2>1, <2>2 DEF Finish
<1>9. CASE GpsFixRequested \/ QmlFixResult
  BY <1>9 DEF GpsFixRequested, QmlFixResult, WorldTypes, TypeOK, worldVars
<1>10. CASE FlushedArrives
  BY <1>10 DEF FlushedArrives, WorldTypes, TypeOK, ClientTypes
<1>11. CASE Connected \/ Restart \/ FlushPendingLocation
  BY <1>11 DEF Connected, Restart, FlushPendingLocation, WorldTypes, TypeOK,
     worldVars
<1>12. CASE GpsDies \/ GpsStarts \/ CmdDies \/ CmdStarts
          \/ WishAges \/ AppCloses \/ AppOpens \/ NetworkLost \/ NetworkBack
  BY <1>12 DEF GpsDies, GpsStarts, CmdDies, CmdStarts, WishAges, AppCloses,
     AppOpens, NetworkLost, NetworkBack, WorldTypes, TypeOK, worldVars
<1>13. ASSUME NEW t \in Threads, ThreadStep(t)
      PROVE  WorldTypes'
  <2>1. CASE FixedPosition(t)
    BY <2>1 DEF FixedPosition, WorldTypes, TypeOK, Obtain, MaybeFix
  <2>2. CASE Store(t)
    BY <2>2 DEF Store, WorldTypes, TypeOK, StoreFix, ThreadTypes
  <2>3. CASE Publish(t)
    BY <2>3 DEF Publish, WorldTypes, TypeOK, Confirmed, ThreadTypes
  <2>4. CASE PublishFails(t)
    BY <2>4 DEF PublishFails, WorldTypes, TypeOK, Unconfirmed, ThreadTypes
  <2>5. CASE RequestFix(t) \/ FixArrived(t) \/ NoFix(t) \/ ForceReconnect(t)
            \/ ReconnectFails(t) \/ Published(t) \/ KeepPending(t) \/ Wish(t)
    BY <2>5 DEF RequestFix, FixArrived, NoFix, ForceReconnect, ReconnectFails,
       Published, KeepPending, Wish, WorldTypes, TypeOK, worldVars
  <2>6. QED
    BY <1>13, <2>1, <2>2, <2>3, <2>4, <2>5 DEF ThreadStep
<1>14. CASE UNCHANGED vars
  BY <1>14 DEF vars, worldVars, WorldTypes, TypeOK
<1>15. QED
  BY <1>1, <1>2, <1>3, <1>4, <1>5, <1>6, <1>7, <1>8, <1>9, <1>10, <1>11,
     <1>12, <1>13, <1>14 DEF Next, GpsStep, CmdStep, QmlStep, ClientStep,
     Environment

LEMMA NetTypesStep ==
  ASSUME TypeOK, [Next]_vars
  PROVE  NetTypes'
<1>1. CASE CommandSend
  BY <1>1 DEF CommandSend, NetTypes, TypeOK, Confirmed, Unconfirmed, netVars
<1>2. CASE ConsumeRead \/ ConsumeClear \/ PublishLatest
  BY <1>2 DEF ConsumeRead, ConsumeClear, PublishLatest, NetTypes, TypeOK,
     netVars
<1>3. CASE TickDelivered
  BY <1>3 DEF TickDelivered, NetTypes, TypeOK, Confirmed, netVars
<1>4. CASE TickUndelivered
  BY <1>4 DEF TickUndelivered, NetTypes, TypeOK, Unconfirmed
<1>5. CASE TickFix \/ TickNoFix \/ TickStore
  BY <1>5 DEF TickFix, TickNoFix, TickStore, Obtain, StoreFix, NetTypes,
     TypeOK, netVars
<1>6. CASE GpsFixRequested \/ Finish \/ QmlFixResult
  BY <1>6 DEF GpsFixRequested, Finish, QmlFixResult, Obtain, NetTypes, TypeOK,
     netVars
<1>7. CASE Restart
  BY <1>7 DEF Restart, NetTypes, TypeOK
<1>8. CASE Connected \/ FlushPendingLocation \/ FlushedArrives
  BY <1>8 DEF Connected, FlushPendingLocation, FlushedArrives, NetTypes,
     TypeOK, netVars
<1>9. CASE GpsDies
  BY <1>9 DEF GpsDies, NetTypes, TypeOK
<1>10. CASE CmdDies
  BY <1>10 DEF CmdDies, NetTypes, TypeOK
<1>11. CASE AppCloses
  BY <1>11 DEF AppCloses, NetTypes, TypeOK
<1>12. CASE NetworkLost
  BY <1>12 DEF NetworkLost, NetTypes, TypeOK
<1>13. CASE NetworkBack
  BY <1>13 DEF NetworkBack, NetTypes, TypeOK
<1>14. CASE GpsStarts \/ CmdStarts \/ WishAges \/ AppOpens
  BY <1>14 DEF GpsStarts, CmdStarts, WishAges, AppOpens, NetTypes, TypeOK,
     netVars
<1>15. ASSUME NEW t \in Threads, ThreadStep(t)
      PROVE  NetTypes'
  <2>1. CASE Publish(t)
    BY <2>1 DEF Publish, NetTypes, TypeOK, Confirmed, netVars
  <2>2. CASE PublishFails(t)
    BY <2>2 DEF PublishFails, NetTypes, TypeOK, Unconfirmed
  <2>3. CASE RequestFix(t) \/ FixedPosition(t) \/ FixArrived(t) \/ NoFix(t)
            \/ Store(t) \/ ForceReconnect(t) \/ ReconnectFails(t) \/ Published(t)
            \/ KeepPending(t) \/ Wish(t)
    BY <2>3 DEF RequestFix, FixedPosition, FixArrived, NoFix, Store,
       ForceReconnect, ReconnectFails, Published, KeepPending, Wish,
       NetTypes, TypeOK, netVars
  <2>4. QED
    BY <1>15, <2>1, <2>2, <2>3 DEF ThreadStep
<1>16. CASE UNCHANGED vars
  BY <1>16 DEF vars, netVars, NetTypes, TypeOK
<1>17. QED
  BY <1>1, <1>2, <1>3, <1>4, <1>5, <1>6, <1>7, <1>8, <1>9, <1>10, <1>11,
     <1>12, <1>13, <1>14, <1>15, <1>16 DEF Next, GpsStep, CmdStep, QmlStep,
     ClientStep, Environment

LEMMA GpsTypesStep ==
  ASSUME TypeOK, [Next]_vars
  PROVE  GpsTypes'
<1>1. CASE ConsumeRead \/ ConsumeClear \/ PublishLatest \/ CommandSend
  BY <1>1 DEF ConsumeRead, ConsumeClear, PublishLatest, CommandSend, GpsTypes,
     TypeOK, gpsVars
<1>2. CASE TickFix
  BY <1>2 DEF TickFix, GpsTypes, TypeOK, Obtain, WorldTypes, MaybeFix
<1>3. CASE TickNoFix
  BY <1>3 DEF TickNoFix, GpsTypes, TypeOK
<1>4. CASE TickStore
  BY <1>4 DEF TickStore, GpsTypes, TypeOK, MaybeFix, None
<1>5. CASE TickDelivered
  BY <1>5 DEF TickDelivered, GpsTypes, TypeOK, MaybeFix, None
<1>6. CASE TickUndelivered
  BY <1>6 DEF TickUndelivered, GpsTypes, TypeOK, MaybeFix, None
<1>7. CASE GpsFixRequested \/ Finish \/ QmlFixResult
  BY <1>7 DEF GpsFixRequested, Finish, QmlFixResult, GpsTypes, TypeOK, gpsVars
<1>8. CASE Connected \/ Restart \/ FlushPendingLocation \/ FlushedArrives
  BY <1>8 DEF Connected, Restart, FlushPendingLocation, FlushedArrives,
     GpsTypes, TypeOK, gpsVars
<1>9. CASE GpsDies
  <2>1. gps' = "down" /\ gpsFix' = 0 /\ gpsPending' = 0 /\ gpsTaken' = 0
    BY <1>9 DEF GpsDies, None
  <2>2. gpsOwed' \in BOOLEAN
    BY <1>9, Zenon DEF GpsDies
  <2>3. QED
    BY <2>1, <2>2 DEF GpsTypes, MaybeFix
<1>10. CASE GpsStarts
  BY <1>10 DEF GpsStarts, GpsTypes, TypeOK
<1>11. CASE CmdDies \/ CmdStarts \/ WishAges \/ AppCloses
          \/ AppOpens \/ NetworkLost \/ NetworkBack
  BY <1>11 DEF CmdDies, CmdStarts, WishAges, AppCloses, AppOpens, NetworkLost,
     NetworkBack, GpsTypes, TypeOK, gpsVars
<1>12. ASSUME NEW t \in Threads, ThreadStep(t)
      PROVE  GpsTypes'
  <2>1. CASE RequestFix(t) \/ FixedPosition(t) \/ FixArrived(t) \/ NoFix(t)
            \/ Store(t) \/ Publish(t) \/ PublishFails(t) \/ ForceReconnect(t)
            \/ ReconnectFails(t) \/ Published(t) \/ KeepPending(t) \/ Wish(t)
    BY <2>1 DEF RequestFix, FixedPosition, FixArrived, NoFix, Store, Publish,
       PublishFails, ForceReconnect, ReconnectFails, Published, KeepPending,
       Wish, GpsTypes, TypeOK, gpsVars
  <2>2. QED
    BY <1>12, <2>1 DEF ThreadStep
<1>13. CASE UNCHANGED vars
  BY <1>13 DEF vars, gpsVars, GpsTypes, TypeOK
<1>14. QED
  BY <1>1, <1>2, <1>3, <1>4, <1>5, <1>6, <1>7, <1>8, <1>9, <1>10, <1>11,
     <1>12, <1>13 DEF Next, GpsStep, CmdStep, QmlStep, ClientStep,
     Environment

LEMMA CmdTypesStep ==
  ASSUME TypeOK, [Next]_vars
  PROVE  CmdTypes'
<1>1. CASE ConsumeRead
  BY <1>1 DEF ConsumeRead, CmdTypes, TypeOK, WishTypes
<1>2. CASE ConsumeClear
  BY <1>2 DEF ConsumeClear, CmdTypes, TypeOK
<1>3. CASE PublishLatest
  BY <1>3 DEF PublishLatest, CmdTypes, TypeOK, WorldTypes
<1>4. CASE CommandSend
  BY <1>4 DEF CommandSend, CmdTypes, TypeOK, Sending, MaybeFix, None
<1>5. CASE TickFix \/ TickNoFix \/ TickStore \/ TickDelivered
          \/ TickUndelivered
  BY <1>5 DEF TickFix, TickNoFix, TickStore, TickDelivered, TickUndelivered,
     CmdTypes, TypeOK, cmdVars
<1>6. CASE GpsFixRequested \/ Finish \/ QmlFixResult
  BY <1>6 DEF GpsFixRequested, Finish, QmlFixResult, CmdTypes, TypeOK, cmdVars
<1>7. CASE Connected \/ Restart \/ FlushPendingLocation \/ FlushedArrives
  BY <1>7 DEF Connected, Restart, FlushPendingLocation, FlushedArrives,
     CmdTypes, TypeOK, cmdVars
<1>8. CASE CmdDies
  BY <1>8 DEF CmdDies, CmdTypes, TypeOK, MaybeFix, None
<1>9. CASE CmdStarts
  BY <1>9 DEF CmdStarts, CmdTypes, TypeOK
<1>10. CASE GpsDies \/ GpsStarts \/ WishAges \/ AppCloses
          \/ AppOpens \/ NetworkLost \/ NetworkBack
  BY <1>10 DEF GpsDies, GpsStarts, WishAges, AppCloses, AppOpens, NetworkLost,
     NetworkBack, CmdTypes, TypeOK, cmdVars
<1>11. ASSUME NEW t \in Threads, ThreadStep(t)
      PROVE  CmdTypes'
  <2>1. CASE RequestFix(t) \/ FixedPosition(t) \/ FixArrived(t) \/ NoFix(t)
            \/ Store(t) \/ Publish(t) \/ PublishFails(t) \/ ForceReconnect(t)
            \/ ReconnectFails(t) \/ Published(t) \/ KeepPending(t) \/ Wish(t)
    BY <2>1 DEF RequestFix, FixedPosition, FixArrived, NoFix, Store, Publish,
       PublishFails, ForceReconnect, ReconnectFails, Published, KeepPending,
       Wish, CmdTypes, TypeOK, cmdVars
  <2>2. QED
    BY <1>11, <2>1 DEF ThreadStep
<1>12. CASE UNCHANGED vars
  BY <1>12 DEF vars, cmdVars, CmdTypes, TypeOK
<1>13. QED
  BY <1>1, <1>2, <1>3, <1>4, <1>5, <1>6, <1>7, <1>8, <1>9, <1>10, <1>11, <1>12
     DEF Next, GpsStep, CmdStep, QmlStep, ClientStep, Environment

LEMMA WishTypesStep ==
  ASSUME TypeOK, [Next]_vars
  PROVE  WishTypes'
<1>1. CASE ConsumeClear
  BY <1>1 DEF ConsumeClear, WishTypes, TypeOK
<1>2. CASE PublishLatest
  BY <1>2 DEF PublishLatest, WishTypes, TypeOK
<1>3. CASE ConsumeRead \/ CommandSend
  BY <1>3 DEF ConsumeRead, CommandSend, WishTypes, TypeOK, wishVars
<1>4. CASE TickFix \/ TickNoFix \/ TickStore \/ TickDelivered
          \/ TickUndelivered
  BY <1>4 DEF TickFix, TickNoFix, TickStore, TickDelivered, TickUndelivered,
     WishTypes, TypeOK, wishVars
<1>5. CASE GpsFixRequested \/ Finish \/ QmlFixResult
  BY <1>5 DEF GpsFixRequested, Finish, QmlFixResult, WishTypes, TypeOK,
     wishVars
<1>6. CASE Connected \/ Restart \/ FlushPendingLocation \/ FlushedArrives
  BY <1>6 DEF Connected, Restart, FlushPendingLocation, FlushedArrives,
     WishTypes, TypeOK, wishVars
<1>7. CASE CmdDies
  BY <1>7 DEF CmdDies, WishTypes, TypeOK
<1>8. CASE WishAges
  BY <1>8 DEF WishAges, WishTypes, TypeOK
<1>9. CASE GpsDies \/ GpsStarts \/ CmdStarts \/ AppCloses
          \/ AppOpens \/ NetworkLost \/ NetworkBack
  BY <1>9 DEF GpsDies, GpsStarts, CmdStarts, AppCloses, AppOpens, NetworkLost,
     NetworkBack, WishTypes, TypeOK, wishVars
<1>10. ASSUME NEW t \in Threads, ThreadStep(t)
      PROVE  WishTypes'
  <2>1. CASE Wish(t)
    BY <2>1 DEF Wish, WishTypes, TypeOK, wishVars
  <2>2. CASE RequestFix(t) \/ FixedPosition(t) \/ FixArrived(t) \/ NoFix(t)
            \/ Store(t) \/ Publish(t) \/ PublishFails(t) \/ ForceReconnect(t)
            \/ ReconnectFails(t) \/ Published(t) \/ KeepPending(t)
    BY <2>2 DEF RequestFix, FixedPosition, FixArrived, NoFix, Store, Publish,
       PublishFails, ForceReconnect, ReconnectFails, Published, KeepPending,
       WishTypes, TypeOK, wishVars
  <2>3. QED
    BY <1>10, <2>1, <2>2 DEF ThreadStep
<1>11. CASE UNCHANGED vars
  BY <1>11 DEF vars, wishVars, WishTypes, TypeOK
<1>12. QED
  BY <1>1, <1>2, <1>3, <1>4, <1>5, <1>6, <1>7, <1>8, <1>9, <1>10, <1>11 DEF
     Next, GpsStep, CmdStep, QmlStep, ClientStep, Environment

LEMMA ThreadTypesStep ==
  ASSUME TypeOK, [Next]_vars
  PROVE  ThreadTypes'
<1>1. CASE ConsumeRead \/ ConsumeClear \/ PublishLatest \/ CommandSend
  BY <1>1 DEF ConsumeRead, ConsumeClear, PublishLatest, CommandSend,
     ThreadTypes, TypeOK, threadVars
<1>2. CASE TickFix \/ TickNoFix \/ TickStore \/ TickDelivered
          \/ TickUndelivered
  BY <1>2 DEF TickFix, TickNoFix, TickStore, TickDelivered, TickUndelivered,
     ThreadTypes, TypeOK, threadVars
<1>3. CASE GpsFixRequested \/ Finish \/ QmlFixResult
  BY <1>3 DEF GpsFixRequested, Finish, QmlFixResult, ThreadTypes, TypeOK,
     threadVars
<1>4. CASE Connected \/ Restart \/ FlushPendingLocation \/ FlushedArrives
  BY <1>4 DEF Connected, Restart, FlushPendingLocation, FlushedArrives,
     ThreadTypes, TypeOK, threadVars
<1>5. CASE AppCloses
  BY <1>5 DEF AppCloses, ThreadTypes, TypeOK, MaybeFix, None
<1>6. CASE AppOpens
  BY <1>6 DEF AppOpens, ThreadTypes, TypeOK, NoThread
<1>7. CASE GpsDies \/ GpsStarts \/ CmdDies \/ CmdStarts
          \/ WishAges \/ NetworkLost \/ NetworkBack
  BY <1>7 DEF GpsDies, GpsStarts, CmdDies, CmdStarts, WishAges, NetworkLost,
     NetworkBack, ThreadTypes, TypeOK, threadVars
<1>8. ASSUME NEW t \in Threads, ThreadStep(t)
      PROVE  ThreadTypes'
  <2>1. CASE RequestFix(t)
    BY <2>1 DEF RequestFix, ThreadTypes, TypeOK, WorldTypes, QmlTypes
  <2>2. CASE FixedPosition(t)
    BY <2>2 DEF FixedPosition, ThreadTypes, TypeOK, Obtain, WorldTypes, MaybeFix
  <2>3. CASE FixArrived(t)
    BY <2>3 DEF FixArrived, ThreadTypes, TypeOK, QmlTypes, Answers, NoAnswer,
       None
  <2>4. CASE NoFix(t)
    BY <2>4 DEF NoFix, ThreadTypes, TypeOK, Release, MaybeFix, None, NoThread
  <2>5. CASE Store(t)
    BY <2>5 DEF Store, ThreadTypes, TypeOK
  <2>6. CASE Publish(t)
    BY <2>6 DEF Publish, ThreadTypes, TypeOK
  <2>7. CASE PublishFails(t)
    BY <2>7 DEF PublishFails, ThreadTypes, TypeOK
  <2>8. CASE ForceReconnect(t)
    BY <2>8 DEF ForceReconnect, ThreadTypes, TypeOK
  <2>9. CASE ReconnectFails(t)
    BY <2>9 DEF ReconnectFails, ThreadTypes, TypeOK
  <2>10. CASE Published(t)
    BY <2>10 DEF Published, ThreadTypes, TypeOK, Release, MaybeFix, None,
       NoThread
  <2>11. CASE KeepPending(t)
    BY <2>11 DEF KeepPending, ThreadTypes, TypeOK
  <2>12. CASE Wish(t)
    BY <2>12 DEF Wish, ThreadTypes, TypeOK, Release, MaybeFix, None, NoThread
  <2>13. QED
    BY <1>8, <2>1, <2>2, <2>3, <2>4, <2>5, <2>6, <2>7, <2>8, <2>9, <2>10, <2>11, <2>12 DEF ThreadStep
<1>9. CASE UNCHANGED vars
  BY <1>9 DEF vars, threadVars, ThreadTypes, TypeOK
<1>10. QED
  BY <1>1, <1>2, <1>3, <1>4, <1>5, <1>6, <1>7, <1>8, <1>9 DEF Next, GpsStep,
     CmdStep, QmlStep, ClientStep, Environment

LEMMA QmlTypesStep ==
  ASSUME TypeOK, [Next]_vars
  PROVE  QmlTypes'
<1>1. CASE ConsumeRead \/ ConsumeClear \/ PublishLatest \/ CommandSend
  BY <1>1 DEF ConsumeRead, ConsumeClear, PublishLatest, CommandSend, QmlTypes,
     TypeOK, qmlVars
<1>2. CASE TickFix \/ TickNoFix \/ TickStore \/ TickDelivered
          \/ TickUndelivered
  BY <1>2 DEF TickFix, TickNoFix, TickStore, TickDelivered, TickUndelivered,
     QmlTypes, TypeOK, qmlVars
<1>3. CASE GpsFixRequested
  BY <1>3 DEF GpsFixRequested, QmlTypes, TypeOK
<1>4. CASE Finish
  <2>1. qmlSeq \in 1 .. MaxRequests
    BY <1>4 DEF Finish, QmlTypes, TypeOK
  <2>2. fixes' \in MaybeFix /\ None \in MaybeFix
    BY WorldTypesStep DEF WorldTypes, MaybeFix, None
  <2>3. [seq |-> qmlSeq, fix |-> fixes'] \in Answers /\ [seq |-> qmlSeq, fix |-> None] \in Answers
    BY <2>1, <2>2 DEF Answers
  <2>4. answers' \in Seq(Answers)
    <3> DEFINE a == [seq |-> qmlSeq, fix |-> fixes']
               b == [seq |-> qmlSeq, fix |-> None]
    <3>1. answers' = Append(answers, a) \/ answers' = Append(answers, b)
      BY <1>4 DEF Finish
    <3>2. a \in Answers /\ b \in Answers /\ answers \in Seq(Answers)
      BY <2>3 DEF TypeOK, QmlTypes
    <3> HIDE DEF a, b
    <3>3. QED
      BY <3>1, <3>2
  <2>5. fixing' = FALSE /\ fixing' \in BOOLEAN
    BY <1>4, Zenon DEF Finish
  <2>6. QED
    BY <1>4, <2>4, <2>5 DEF Finish, QmlTypes, TypeOK
<1>5. CASE QmlFixResult
  BY <1>5 DEF QmlFixResult, QmlTypes, TypeOK
<1>6. CASE Connected \/ Restart \/ FlushPendingLocation \/ FlushedArrives
  BY <1>6 DEF Connected, Restart, FlushPendingLocation, FlushedArrives,
     QmlTypes, TypeOK, qmlVars
<1>7. CASE AppCloses
  <2>1. event' \in BOOLEAN /\ fixing' = FALSE /\ fixing' \in BOOLEAN
    BY <1>7, Zenon DEF AppCloses
  <2>2. seq' = 0 /\ qmlSeq' = 0 /\ result' = NoAnswer /\ asked' = <<>> /\ answers' = <<>>
    BY <1>7 DEF AppCloses
  <2>3. QED
    BY <2>1, <2>2 DEF QmlTypes
<1>8. CASE GpsDies \/ GpsStarts \/ CmdDies \/ CmdStarts
          \/ WishAges \/ AppOpens \/ NetworkLost \/ NetworkBack
  BY <1>8 DEF GpsDies, GpsStarts, CmdDies, CmdStarts, WishAges, AppOpens,
     NetworkLost, NetworkBack, QmlTypes, TypeOK, qmlVars
<1>9. ASSUME NEW t \in Threads, ThreadStep(t)
      PROVE  QmlTypes'
  <2>1. CASE RequestFix(t)
    <3>1. seq' \in 1 .. MaxRequests /\ asked' = Append(asked, seq')
      BY <2>1 DEF RequestFix, QmlTypes, TypeOK
    <3>2. asked' \in Seq(1 .. MaxRequests)
      BY <3>1 DEF QmlTypes, TypeOK
    <3>3. event' \in BOOLEAN
      BY <2>1, Zenon DEF RequestFix
    <3>4. result' = NoAnswer /\ UNCHANGED <<qmlSeq, fixing, answers>>
      BY <2>1 DEF RequestFix
    <3>5. QED
      BY <3>1, <3>2, <3>3, <3>4 DEF QmlTypes, TypeOK
  <2>2. CASE FixedPosition(t) \/ FixArrived(t) \/ NoFix(t) \/ Store(t)
            \/ Publish(t) \/ PublishFails(t) \/ ForceReconnect(t) \/ ReconnectFails(t)
            \/ Published(t) \/ KeepPending(t) \/ Wish(t)
    BY <2>2 DEF FixedPosition, FixArrived, NoFix, Store, Publish, PublishFails,
       ForceReconnect, ReconnectFails, Published, KeepPending, Wish,
       QmlTypes, TypeOK, qmlVars
  <2>3. QED
    BY <1>9, <2>1, <2>2 DEF ThreadStep
<1>10. CASE UNCHANGED vars
  BY <1>10 DEF vars, qmlVars, QmlTypes, TypeOK
<1>11. QED
  BY <1>1, <1>2, <1>3, <1>4, <1>5, <1>6, <1>7, <1>8, <1>9, <1>10 DEF Next,
     GpsStep, CmdStep, QmlStep, ClientStep, Environment

LEMMA ClientTypesStep ==
  ASSUME TypeOK, [Next]_vars
  PROVE  ClientTypes'
<1>1. CASE ConsumeRead \/ ConsumeClear \/ PublishLatest \/ CommandSend
  BY <1>1 DEF ConsumeRead, ConsumeClear, PublishLatest, CommandSend,
     ClientTypes, TypeOK, clientVars
<1>2. CASE TickFix \/ TickNoFix \/ TickStore \/ TickDelivered
          \/ TickUndelivered
  BY <1>2 DEF TickFix, TickNoFix, TickStore, TickDelivered, TickUndelivered,
     ClientTypes, TypeOK, clientVars
<1>3. CASE GpsFixRequested \/ Finish \/ QmlFixResult
  BY <1>3 DEF GpsFixRequested, Finish, QmlFixResult, ClientTypes, TypeOK,
     clientVars
<1>4. CASE Connected
  BY <1>4 DEF Connected, ClientTypes, TypeOK
<1>5. CASE Restart
  <2>1. connected' \in BOOLEAN
    BY <1>5, Zenon DEF Restart
  <2>2. outgoing' = 0 /\ UNCHANGED <<onConnected, pending, owed>>
    BY <1>5 DEF Restart, None
  <2>3. QED
    BY <2>1, <2>2 DEF ClientTypes, TypeOK, MaybeFix
<1>6. CASE FlushPendingLocation
  <2>1. onConnected' \in BOOLEAN
    BY <1>6, Zenon DEF FlushPendingLocation
  <2>2. /\ outgoing' \in {outgoing, pending} /\ pending' \in {0, pending}
        /\ owed' \in {0, owed} /\ UNCHANGED connected
    BY <1>6 DEF FlushPendingLocation, None
  <2>3. QED
    BY <2>1, <2>2 DEF ClientTypes, TypeOK, MaybeFix
<1>7. CASE FlushedArrives
  BY <1>7 DEF FlushedArrives, ClientTypes, TypeOK, MaybeFix, None
<1>8. CASE AppCloses
  <2>1. connected' \in BOOLEAN /\ onConnected' \in BOOLEAN
    BY <1>8, Zenon DEF AppCloses
  <2>2. pending' = 0 /\ outgoing' = 0 /\ owed' = 0
    BY <1>8 DEF AppCloses, None
  <2>3. QED
    BY <2>1, <2>2 DEF ClientTypes, MaybeFix
<1>9. CASE NetworkLost
  BY <1>9 DEF NetworkLost, ClientTypes, TypeOK
<1>10. CASE GpsDies \/ GpsStarts \/ CmdDies \/ CmdStarts
          \/ WishAges \/ AppOpens \/ NetworkBack
  BY <1>10 DEF GpsDies, GpsStarts, CmdDies, CmdStarts, WishAges, AppOpens,
     NetworkBack, ClientTypes, TypeOK, clientVars
<1>11. ASSUME NEW t \in Threads, ThreadStep(t)
      PROVE  ClientTypes'
  <2>1. CASE Store(t)
    BY <2>1 DEF Store, ClientTypes, TypeOK, ThreadTypes
  <2>2. CASE Publish(t)
    BY <2>2 DEF Publish, ClientTypes, TypeOK, MaybeFix, None
  <2>3. CASE ForceReconnect(t)
    BY <2>3 DEF ForceReconnect, ClientTypes, TypeOK, MaybeFix, None
  <2>4. CASE ReconnectFails(t)
    BY <2>4 DEF ReconnectFails, ClientTypes, TypeOK, MaybeFix, None
  <2>5. CASE Published(t)
    BY <2>5 DEF Published, ClientTypes, TypeOK, MaybeFix, None
  <2>6. CASE KeepPending(t)
    BY <2>6 DEF KeepPending, ClientTypes, TypeOK, ThreadTypes
  <2>7. CASE RequestFix(t) \/ FixedPosition(t) \/ FixArrived(t) \/ NoFix(t)
            \/ PublishFails(t) \/ Wish(t)
    BY <2>7 DEF RequestFix, FixedPosition, FixArrived, NoFix, PublishFails,
       Wish, ClientTypes, TypeOK, clientVars
  <2>8. QED
    BY <1>11, <2>1, <2>2, <2>3, <2>4, <2>5, <2>6, <2>7 DEF ThreadStep
<1>12. CASE UNCHANGED vars
  BY <1>12 DEF vars, clientVars, ClientTypes, TypeOK
<1>13. QED
  BY <1>1, <1>2, <1>3, <1>4, <1>5, <1>6, <1>7, <1>8, <1>9, <1>10, <1>11, <1>12
     DEF Next, GpsStep, CmdStep, QmlStep, ClientStep, Environment

(* Every reachable state is well typed. *)
THEOREM TypeCorrect == Spec => []TypeOK
<1>1. Init => TypeOK
  <2>1. Init => WorldTypes /\ NetTypes
    BY DEF Init, WorldTypes, NetTypes, MaybeFix, None
  <2>2. Init => gpsOwed \in BOOLEAN /\ wanted \in BOOLEAN /\ event \in BOOLEAN
                /\ fixing \in BOOLEAN /\ connected \in BOOLEAN /\ onConnected \in BOOLEAN
    BY Zenon DEF Init
  <2>3. Init => GpsTypes /\ CmdTypes /\ WishTypes
    BY <2>2 DEF Init, GpsTypes, CmdTypes, WishTypes, MaybeFix, None
  <2>4. Init => ThreadTypes
    BY DEF Init, ThreadTypes, MaybeFix, None, NoThread
  <2>5. Init => ~fixing
    BY Zenon DEF Init
  <2>6. Init => QmlTypes
    BY <2>2, <2>5 DEF Init, QmlTypes
  <2>7. Init => ClientTypes
    BY <2>2 DEF Init, ClientTypes, MaybeFix, None
  <2>8. QED
    BY <2>1, <2>3, <2>4, <2>6, <2>7 DEF TypeOK
<1>2. TypeOK /\ [Next]_vars => TypeOK'
  BY WorldTypesStep, NetTypesStep, GpsTypesStep, CmdTypesStep, WishTypesStep,
     ThreadTypesStep, QmlTypesStep, ClientTypesStep DEF TypeOK
<1>3. QED
  BY <1>1, <1>2, PTL DEF Spec

-----------------------------------------------------------------------------
(* The GPS daemon: what is in its hands is the newest it has taken, and so  *)
(* is what is pending, except between taking a new one and storing it.      *)

HoldsNewest ==
  /\ gps \in {"store"} \cup Sending => gpsFix = gpsTaken
  /\ gps # "store" /\ gpsPending # None => gpsPending = gpsTaken

LEMMA HoldsNewestStep ==
  ASSUME HoldsNewest, [Next]_vars
  PROVE  HoldsNewest'
<1>1. CASE TickFix
  BY <1>1 DEF TickFix, HoldsNewest, Sending
<1>2. CASE TickNoFix
  BY <1>2 DEF TickNoFix, HoldsNewest, Sending
<1>3. CASE TickStore
  BY <1>3 DEF TickStore, HoldsNewest, Sending, None
<1>4. CASE TickDelivered
  BY <1>4 DEF TickDelivered, HoldsNewest, Sending
<1>5. CASE TickUndelivered
  BY <1>5 DEF TickUndelivered, HoldsNewest, Sending
<1>6. CASE GpsDies \/ GpsStarts
  BY <1>6 DEF GpsDies, GpsStarts, HoldsNewest, Sending
<1>7. CASE ~GpsActs
  BY <1>7, GpsFrame DEF gpsVars, HoldsNewest, Sending
<1>8. QED
  BY <1>1, <1>2, <1>3, <1>4, <1>5, <1>6, <1>7 DEF GpsActs, GpsStep

(* The GPS daemon never publishes a position when it has taken a newer one  *)
(* (_publish_new, _flush_pending).                                          *)
THEOREM NewestGoesOut == Spec => []NewestFirst
<1>1. Init => HoldsNewest
  BY DEF Init, HoldsNewest, Sending
<1>2. HoldsNewest /\ [Next]_vars => HoldsNewest'
  BY HoldsNewestStep
<1>3. HoldsNewest => NewestFirst
  BY DEF HoldsNewest, NewestFirst
<1>4. QED
  BY <1>1, <1>2, <1>3, PTL DEF Spec

-----------------------------------------------------------------------------
(* A wish for a publication.                                                *)

LEMMA WishFrame ==
  ASSUME [Next]_vars, ~WishActs, ~CmdActs
  PROVE  UNCHANGED <<wishVars, loop, jobs>>
<1>1. CASE GpsStep
  BY <1>1 DEF GpsStep, TickFix, TickNoFix, TickStore, TickDelivered, TickUndelivered,
     wishVars, cmdVars
<1>2. CASE QmlStep \/ ClientStep
  BY <1>2 DEF QmlStep, GpsFixRequested, Finish, QmlFixResult, ClientStep, Connected,
     Restart, FlushPendingLocation, FlushedArrives, wishVars, cmdVars
<1>3. CASE Environment
  BY <1>3 DEF Environment, CmdActs, WishActs, GpsDies, GpsStarts, AppCloses, AppOpens,
     NetworkLost, NetworkBack, wishVars, cmdVars
<1>4. ASSUME NEW t \in Threads, ThreadStep(t)
      PROVE  UNCHANGED <<wishVars, loop, jobs>>
  BY <1>4 DEF ThreadStep, WishActs, RequestFix, FixedPosition, FixArrived, NoFix, Store,
     Publish, PublishFails, ForceReconnect, ReconnectFails, Published, KeepPending,
     wishVars, cmdVars
<1>5. CASE UNCHANGED vars
  BY <1>5 DEF vars, wishVars, cmdVars
<1>6. QED
  BY <1>1, <1>2, <1>3, <1>4, <1>5 DEF Next, CmdActs

(* A wish for a publication is lost between the app, the main loop and the  *)
(* worker only when it is written while a stale one is being consumed       *)
(* (consume_location_publish_request, _process_publish_requests).           *)
THEOREM WishesAreKept == Spec => OnlyStaleWipes
<1> DEFINE Lost == loop = "stale" /\ request = "fresh" /\ loop' = "idle"
<1>1. ASSUME TypeOK, WishIsKept, [Next]_vars
      PROVE  WishIsKept' \/ Lost
  <2>1. CASE ConsumeRead
    BY <1>1, <2>1 DEF ConsumeRead, WishIsKept, wishVars
  <2>2. CASE ConsumeClear
    <3>1. UNCHANGED wanted /\ loop' = "idle" /\ loop \in {"fresh", "stale"}
      BY <2>2 DEF ConsumeClear
    <3>2. CASE loop = "fresh"
      <4>1. jobs' > 0
        BY <2>2, <3>2, <1>1 DEF ConsumeClear, TypeOK, CmdTypes
      <4>2. QED
        BY <4>1 DEF WishIsKept
    <3>3. CASE loop = "stale" /\ request # "fresh"
      <4>1. jobs' = jobs
        BY <2>2, <3>3 DEF ConsumeClear
      <4>2. QED
        BY <1>1, <3>1, <3>3, <4>1 DEF WishIsKept
    <3>4. QED
      BY <3>1, <3>2, <3>3
  <2>3. CASE PublishLatest
    BY <1>1, <2>3 DEF PublishLatest, WishIsKept
  <2>4. CASE CommandSend
    BY <1>1, <2>4 DEF CommandSend, WishIsKept, wishVars
  <2>5. CASE CmdDies \/ CmdStarts
    BY <1>1, <2>5 DEF CmdDies, CmdStarts, WishIsKept, wishVars
  <2>6. CASE WishAges
    BY <1>1, <2>6 DEF WishAges, WishIsKept
  <2>7. ASSUME NEW t \in Threads, Wish(t)
        PROVE  WishIsKept'
    BY <1>1, <2>7 DEF Wish, WishIsKept, wishVars, cmdVars
  <2>8. CASE ~WishActs /\ ~CmdActs
    BY <1>1, <2>8, WishFrame DEF WishIsKept, wishVars
  <2>9. QED
    BY <2>1, <2>2, <2>3, <2>4, <2>5, <2>6, <2>7, <2>8 DEF WishActs, CmdActs, CmdStep
<1>2. TypeOK /\ [Next]_vars => [WishIsKept => WishIsKept' \/ Lost]_vars
  BY <1>1
<1>3. QED
  BY <1>2, TypeCorrect, PTL DEF Spec, OnlyStaleWipes

-----------------------------------------------------------------------------
(* The app: one thread at a time has the lock.                              *)

AppActs == QmlStep \/ ClientStep \/ AppCloses \/ AppOpens \/ \E t \in Threads : ThreadStep(t)

LEMMA AppFrame ==
  ASSUME TypeOK, [Next]_vars, ~AppActs
  PROVE  UNCHANGED <<threadVars, qmlVars, pending, owed>> /\ fixes' >= fixes
<1>1. CASE GpsStep
  BY <1>1 DEF GpsStep, TickFix, TickNoFix, TickStore, TickDelivered, TickUndelivered,
     Obtain, StoreFix, Confirmed, Unconfirmed, clientVars, worldVars, TypeOK, WorldTypes, MaybeFix
<1>2. CASE CmdStep
  BY <1>2 DEF CmdStep, ConsumeRead, ConsumeClear, PublishLatest, CommandSend,
     Confirmed, Unconfirmed, clientVars, worldVars, TypeOK, WorldTypes, MaybeFix
<1>3. CASE Environment
  BY <1>3 DEF Environment, AppActs, GpsDies, GpsStarts, CmdDies, CmdStarts, WishAges,
     NetworkLost, NetworkBack, clientVars, worldVars, TypeOK, WorldTypes, MaybeFix
<1>4. CASE UNCHANGED vars
  BY <1>4 DEF vars, clientVars, worldVars, TypeOK, WorldTypes, MaybeFix
<1>5. QED
  BY <1>1, <1>2, <1>3, <1>4 DEF Next, AppActs

OneThread == \A t \in Threads : pc[t] # "idle" => lock = t

LEMMA OneThreadStep ==
  ASSUME TypeOK, OneThread, [Next]_vars
  PROVE  OneThread'
<1>1. CASE QmlStep \/ ClientStep
  BY <1>1 DEF QmlStep, GpsFixRequested, Finish, QmlFixResult, ClientStep, Connected,
     Restart, FlushPendingLocation, FlushedArrives, OneThread, threadVars
<1>2. CASE AppCloses
  BY <1>2 DEF AppCloses, OneThread
<1>3. CASE AppOpens
  BY <1>3 DEF AppOpens, OneThread, InApp
<1>4. ASSUME NEW t \in Threads, ThreadStep(t)
      PROVE  OneThread'
  <2>1. CASE RequestFix(t) \/ FixedPosition(t)
    BY <2>1 DEF RequestFix, FixedPosition, OneThread, NoThread, TypeOK, ThreadTypes
  <2>2. CASE NoFix(t) \/ Published(t) \/ Wish(t)
    BY <2>2 DEF NoFix, Published, Wish, Release, OneThread, TypeOK, ThreadTypes
  <2>3. CASE \/ FixArrived(t) \/ Store(t) \/ Publish(t) \/ PublishFails(t)
             \/ ForceReconnect(t) \/ ReconnectFails(t) \/ KeepPending(t)
    BY <2>3 DEF FixArrived, Store, Publish, PublishFails, ForceReconnect, ReconnectFails,
       KeepPending, OneThread, TypeOK, ThreadTypes, Sending
  <2>4. QED
    BY <1>4, <2>1, <2>2, <2>3 DEF ThreadStep
<1>5. CASE ~AppActs
  BY <1>5, AppFrame DEF OneThread, threadVars
<1>6. QED
  BY <1>1, <1>2, <1>3, <1>4, <1>5 DEF AppActs

LEMMA OneThreadAlways == Spec => [](TypeOK /\ OneThread)
<1>1. Init => OneThread
  BY DEF Init, OneThread
<1>2. TypeOK /\ OneThread /\ [Next]_vars => OneThread'
  BY OneThreadStep
<1>3. QED
  BY <1>1, <1>2, TypeCorrect, PTL DEF Spec

-----------------------------------------------------------------------------
(* The answers of QML.  None of them, nor the one that has arrived, is      *)
(* numbered beyond the last request; and a position under the number a      *)
(* thread waits for was taken after that thread asked.                      *)

Numbered ==
  /\ qmlSeq <= seq /\ result.seq <= seq
  /\ \A i \in 1 .. Len(asked) : asked[i] <= seq
  /\ \A i \in 1 .. Len(answers) : answers[i].seq <= seq

(* The answer a can be taken by a thread that waits for it. *)
IsOfNow(a, t) == a.seq = mine[t] /\ a.fix # None => a.fix > since[t]

Waiting ==
  \A t \in Threads : pc[t] = "wait" =>
    /\ mine[t] = seq /\ seq > 0 /\ since[t] <= fixes
    /\ IsOfNow(result, t)
    /\ \A i \in 1 .. Len(answers) : IsOfNow(answers[i], t)

AskInv == Numbered /\ Waiting /\ FixAnswersRequest

LEMMA GpsFixRequestedStep ==
  ASSUME TypeOK, AskInv, GpsFixRequested
  PROVE  AskInv'
<1>1. qmlSeq' \in {asked[i] : i \in 1 .. Len(asked)}
  BY DEF GpsFixRequested, TypeOK, QmlTypes
<1>2. \A i \in 1 .. Len(asked') : i + 1 \in 1 .. Len(asked) /\ asked'[i] = asked[i + 1]
  BY DEF GpsFixRequested, TypeOK, QmlTypes
<1>3. UNCHANGED <<fixes, threadVars, seq, result, answers>>
  BY DEF GpsFixRequested, worldVars
<1>4. Numbered'
  BY <1>1, <1>2, <1>3 DEF AskInv, Numbered
<1>5. QED
  BY <1>3, <1>4 DEF AskInv, Waiting, IsOfNow, FixAnswersRequest, threadVars

LEMMA FinishStep ==
  ASSUME TypeOK, AskInv, Finish
  PROVE  AskInv'
<1> DEFINE a == [seq |-> qmlSeq, fix |-> fixes']
           b == [seq |-> qmlSeq, fix |-> None]
<1>1. /\ \/ answers' = Append(answers, a) /\ fixes' = fixes + 1
         \/ answers' = Append(answers, b) /\ fixes' = fixes
      /\ UNCHANGED <<threadVars, seq, result, asked, qmlSeq>>
  <2>1. UNCHANGED <<threadVars, seq, result, asked, qmlSeq>>
    BY DEF Finish
  <2>2. \/ Obtain /\ answers' = Append(answers, a)
        \/ answers' = Append(answers, b) /\ UNCHANGED worldVars
    BY DEF Finish
  <2> HIDE DEF a, b
  <2>3. QED
    BY <2>1, <2>2 DEF Obtain, worldVars
<1>2. /\ a.seq = qmlSeq /\ b.seq = qmlSeq /\ b.fix = None /\ a.fix = fixes'
      /\ fixes \in Nat /\ seq \in Nat /\ qmlSeq \in Nat /\ \A t \in Threads : since[t] \in Nat
  BY DEF TypeOK, WorldTypes, QmlTypes, ThreadTypes, MaybeFix
<1> HIDE DEF a, b
<1>3. \A i \in 1 .. Len(answers') :
        \/ i \in 1 .. Len(answers) /\ answers'[i] = answers[i]
        \/ answers'[i] = a /\ fixes' = fixes + 1
        \/ answers'[i] = b
  <2>1. answers' = Append(answers, a) \/ answers' = Append(answers, b)
    BY <1>1
  <2>2. answers \in Seq(Answers)
    BY DEF TypeOK, QmlTypes
  <2>3. Len(answers') = Len(answers) + 1 /\ answers'[Len(answers) + 1] \in {a, b}
        /\ \A i \in 1 .. Len(answers) : answers'[i] = answers[i]
    BY <2>1, <2>2
  <2>4. answers'[Len(answers) + 1] = b \/ (answers'[Len(answers) + 1] = a /\ fixes' = fixes + 1)
    BY <1>1, <2>2
  <2>5. QED
    BY <2>2, <2>3, <2>4
<1>4. Numbered'
  BY <1>1, <1>2, <1>3 DEF AskInv, Numbered
<1>5. ASSUME NEW t \in Threads, pc[t] = "wait"
      PROVE  \A i \in 1 .. Len(answers') : IsOfNow(answers'[i], t)
  <2>1. since[t] <= fixes /\ \A i \in 1 .. Len(answers) : IsOfNow(answers[i], t)
    BY <1>5 DEF AskInv, Waiting
  <2>2. IsOfNow(b, t) /\ (fixes' = fixes + 1 => IsOfNow(a, t))
    BY <1>2, <2>1 DEF IsOfNow
  <2>3. QED
    BY <1>3, <2>1, <2>2
<1>6. fixes' >= fixes
  BY <1>1, <1>2
<1>7. Waiting'
  BY <1>1, <1>2, <1>5, <1>6 DEF AskInv, Waiting, IsOfNow, threadVars
<1>8. QED
  BY <1>1, <1>4, <1>7 DEF AskInv, FixAnswersRequest, threadVars

LEMMA QmlFixResultStep ==
  ASSUME TypeOK, AskInv, QmlFixResult
  PROVE  AskInv'
<1>1. /\ 1 \in 1 .. Len(answers) /\ result' = answers[1]
      /\ \A i \in 1 .. Len(answers') : i + 1 \in 1 .. Len(answers) /\ answers'[i] = answers[i + 1]
  BY DEF QmlFixResult, TypeOK, QmlTypes
<1>2. UNCHANGED <<fixes, threadVars, seq, asked, qmlSeq>>
  BY DEF QmlFixResult, worldVars
<1>3. Numbered'
  BY <1>1, <1>2 DEF AskInv, Numbered
<1>4. QED
  BY <1>1, <1>2, <1>3 DEF AskInv, Waiting, IsOfNow, FixAnswersRequest, threadVars

LEMMA RequestFixStep ==
  ASSUME TypeOK, OneThread, AskInv, NEW t \in Threads, RequestFix(t)
  PROVE  AskInv'
<1>1. \A u \in Threads : pc[u] = "idle"
  BY DEF RequestFix, OneThread, NoThread
<1>2. /\ seq' = seq + 1 /\ seq \in Nat /\ qmlSeq \in Nat /\ result' = NoAnswer
      /\ UNCHANGED <<fixes, qmlSeq, fix, answers>>
      /\ mine'[t] = seq' /\ since'[t] = fixes /\ fixes \in Nat /\ pc'[t] = "wait"
      /\ \A u \in Threads \ {t} : pc'[u] = "idle"
  BY <1>1 DEF RequestFix, TypeOK, QmlTypes, ThreadTypes, WorldTypes, MaybeFix, worldVars
<1>3. \A i \in 1 .. Len(asked') :
        \/ asked'[i] = seq'
        \/ i \in 1 .. Len(asked) /\ asked'[i] = asked[i]
  <2>1. asked' = Append(asked, seq') /\ asked \in Seq(1 .. MaxRequests) /\ seq' \in 1 .. MaxRequests
    BY DEF RequestFix, TypeOK, QmlTypes
  <2>2. QED
    BY <2>1
<1>4. /\ \A i \in 1 .. Len(asked) : asked[i] \in Nat
      /\ \A i \in 1 .. Len(answers) : answers[i].seq \in Nat
  <2>1. \A i \in 1 .. Len(asked) : asked[i] \in 1 .. MaxRequests
    BY DEF TypeOK, QmlTypes
  <2>2. \A i \in 1 .. Len(answers) : answers[i] \in Answers
    BY DEF TypeOK, QmlTypes
  <2>3. QED
    BY <2>1, <2>2 DEF Answers
<1>5. Numbered'
  BY <1>2, <1>3, <1>4 DEF AskInv, Numbered, NoAnswer
<1>6. Waiting'
  BY <1>2, <1>4 DEF AskInv, Numbered, Waiting, IsOfNow, NoAnswer, None
<1>7. FixAnswersRequest'
  BY <1>2 DEF FixAnswersRequest
<1>8. QED
  BY <1>5, <1>6, <1>7 DEF AskInv

LEMMA AskInvStep ==
  ASSUME TypeOK, OneThread, AskInv, [Next]_vars
  PROVE  AskInv'
<1>1. CASE QmlStep
  BY <1>1, GpsFixRequestedStep, FinishStep, QmlFixResultStep DEF QmlStep
<1>2. CASE ClientStep \/ AppOpens
  BY <1>2 DEF ClientStep, Connected, Restart, FlushPendingLocation, FlushedArrives, AppOpens,
     AskInv, Numbered, Waiting, IsOfNow, FixAnswersRequest, threadVars, qmlVars, worldVars
<1>3. CASE AppCloses
  BY <1>3 DEF AppCloses, AskInv, Numbered, Waiting, FixAnswersRequest, NoAnswer
<1>4. ASSUME NEW t \in Threads, ThreadStep(t)
      PROVE  AskInv'
  <2>1. CASE RequestFix(t)
    BY <2>1, RequestFixStep
  <2>2. CASE FixedPosition(t)
    <3>1. \A u \in Threads : pc[u] = "idle"
      BY <2>2 DEF FixedPosition, OneThread, NoThread
    <3>2. /\ \A u \in Threads : pc'[u] # "wait" /\ (pc'[u] = "store" => u = t)
          /\ fix'[t] > since'[t] /\ UNCHANGED qmlVars
      BY <2>2, <3>1 DEF FixedPosition, Obtain, TypeOK, ThreadTypes, WorldTypes, MaybeFix
    <3>3. QED
      BY <3>2 DEF AskInv, Numbered, Waiting, FixAnswersRequest, qmlVars
  <2>3. CASE FixArrived(t)
    <3>1. fix'[t] > since'[t] /\ UNCHANGED <<fixes, qmlVars, mine, since>>
      BY <2>3 DEF FixArrived, AskInv, Waiting, IsOfNow, TypeOK, ThreadTypes, worldVars
    <3>2. \A u \in Threads : /\ pc'[u] = "wait" => pc[u] = "wait"
                             /\ pc'[u] = "store" => u = t \/ (pc[u] = "store" /\ fix'[u] = fix[u])
      <4>1. pc'[t] = "store" /\ \A u \in Threads \ {t} : pc'[u] = pc[u] /\ fix'[u] = fix[u]
        BY <2>3 DEF FixArrived, TypeOK, ThreadTypes
      <4>2. QED
        BY <4>1
    <3>3. QED
      BY <3>1, <3>2 DEF AskInv, Numbered, Waiting, IsOfNow, FixAnswersRequest, qmlVars
  <2>4. CASE \/ NoFix(t) \/ Store(t) \/ Publish(t) \/ PublishFails(t) \/ ForceReconnect(t)
             \/ ReconnectFails(t) \/ Published(t) \/ KeepPending(t) \/ Wish(t)
    <3>1. /\ UNCHANGED <<fixes, qmlVars>>
          /\ \A u \in Threads : /\ pc'[u] \in {"wait", "store"} => pc'[u] = pc[u]
                                /\ pc'[u] = pc[u] => mine'[u] = mine[u] /\ since'[u] = since[u]
                                                     /\ fix'[u] = fix[u]
      BY <2>4 DEF NoFix, Store, Publish, PublishFails, ForceReconnect, ReconnectFails,
         Published, KeepPending, Wish, Release, StoreFix, Confirmed, Unconfirmed, Sending,
         TypeOK, ThreadTypes, worldVars
    <3>2. QED
      BY <3>1 DEF AskInv, Numbered, Waiting, IsOfNow, FixAnswersRequest, qmlVars
  <2>5. QED
    BY <1>4, <2>1, <2>2, <2>3, <2>4 DEF ThreadStep
<1>5. CASE ~AppActs
  <2>1. UNCHANGED <<threadVars, qmlVars>> /\ fixes' >= fixes
    BY <1>5, AppFrame
  <2>2. fixes \in Nat /\ fixes' \in Nat /\ \A t \in Threads : since[t] \in Nat
    BY WorldTypesStep DEF TypeOK, WorldTypes, ThreadTypes, MaybeFix
  <2>3. QED
    BY <2>1, <2>2 DEF AskInv, Numbered, Waiting, IsOfNow, FixAnswersRequest, threadVars, qmlVars
<1>6. QED
  BY <1>1, <1>2, <1>3, <1>4, <1>5 DEF AppActs

(* No thread of the app stores a position that was taken before it asked    *)
(* for one (_qml_fix, qml_fix_result, GpsSource.qml).                       *)
THEOREM FixesAnswerTheirRequest == Spec => []FixAnswersRequest
<1>1. Init => AskInv
  BY DEF Init, AskInv, Numbered, Waiting, FixAnswersRequest, NoAnswer
<1>2. TypeOK /\ OneThread /\ AskInv /\ [Next]_vars => AskInv'
  BY AskInvStep
<1>3. AskInv => FixAnswersRequest
  BY DEF AskInv
<1>4. QED
  BY <1>1, <1>2, <1>3, OneThreadAlways, PTL DEF Spec

-----------------------------------------------------------------------------
(* What the app owes.                                                       *)

Unsettled == Sending \cup {"reconnect", "unsent"}

(* What is owed besides is what the thread with the lock has in its hands.  *)
OwedInv ==
  /\ AppForgetsNothing
  /\ \A t \in Threads : /\ pc[t] \in Unsettled => owed \in {None, fix[t]}
                        /\ pc[t] = "sent" => owed = None

LEMMA OwedInvStep ==
  ASSUME TypeOK, OneThread, OwedInv, [Next]_vars
  PROVE  OwedInv'
<1>1. CASE QmlStep
  BY <1>1 DEF QmlStep, GpsFixRequested, Finish, QmlFixResult, OwedInv, AppForgetsNothing,
     threadVars, clientVars, Unsettled, Sending
<1>2. CASE FlushPendingLocation
  <2>1. \/ UNCHANGED <<pending, owed, threadVars>>
        \/ /\ pending' = None /\ UNCHANGED threadVars
           /\ owed' = (IF owed = pending THEN None ELSE owed)
    BY <1>2 DEF FlushPendingLocation
  <2>2. QED
    BY <2>1 DEF OwedInv, AppForgetsNothing, threadVars, Unsettled, Sending
<1>3. CASE Connected \/ Restart \/ FlushedArrives
  BY <1>3 DEF Connected, Restart, FlushedArrives, OwedInv, AppForgetsNothing, threadVars,
     Unsettled, Sending
<1>4. CASE AppCloses
  BY <1>4 DEF AppCloses, OwedInv, AppForgetsNothing, Unsettled, Sending
<1>5. CASE AppOpens
  BY <1>5 DEF AppOpens, OwedInv, AppForgetsNothing, clientVars, Unsettled, Sending
<1>6. ASSUME NEW t \in Threads, ThreadStep(t)
      PROVE  OwedInv'
  <2>1. CASE RequestFix(t) \/ FixedPosition(t)
    <3>1. \A u \in Threads : pc[u] = "idle"
      BY <2>1 DEF RequestFix, FixedPosition, OneThread, NoThread
    <3>2. /\ UNCHANGED <<pending, owed>>
          /\ \A u \in Threads : pc'[u] \in {"idle", "wait", "store"}
      BY <2>1, <3>1 DEF RequestFix, FixedPosition, TypeOK, ThreadTypes, clientVars
    <3>3. QED
      BY <3>1, <3>2 DEF OwedInv, AppForgetsNothing, Unsettled, Sending
  <2>2. ASSUME pc[t] # "idle"
        PROVE  \A u \in Threads \ {t} : pc[u] = "idle"
    BY <2>2 DEF OneThread
  <2>3. CASE FixArrived(t) \/ NoFix(t) \/ Wish(t)
    <3>1. /\ UNCHANGED <<pending, owed>> /\ pc[t] \in {"wait", "wish"}
          /\ pc'[t] \in {"idle", "store"} /\ \A u \in Threads \ {t} : pc'[u] = pc[u]
      BY <2>3 DEF FixArrived, NoFix, Wish, Release, TypeOK, ThreadTypes, clientVars
    <3>2. QED
      BY <2>2, <3>1 DEF OwedInv, AppForgetsNothing, Unsettled, Sending
  <2>4. CASE Store(t)
    <3>1. /\ owed' = fix[t] /\ UNCHANGED fix /\ pc[t] = "store"
          /\ pc'[t] = "publish" /\ \A u \in Threads \ {t} : pc'[u] = pc[u]
      BY <2>4 DEF Store, TypeOK, ThreadTypes
    <3>2. QED
      BY <2>2, <3>1 DEF OwedInv, AppForgetsNothing, Unsettled, Sending
  <2>5. CASE Publish(t)
    <3>1. /\ owed' = (IF owed = fix[t] THEN None ELSE owed) /\ UNCHANGED fix
          /\ pc[t] \in Sending
          /\ pc'[t] = "sent" /\ \A u \in Threads \ {t} : pc'[u] = pc[u]
      BY <2>5 DEF Publish, TypeOK, ThreadTypes
    <3>2. QED
      BY <2>2, <3>1 DEF OwedInv, AppForgetsNothing, Unsettled, Sending
  <2>6. CASE PublishFails(t) \/ ForceReconnect(t) \/ ReconnectFails(t)
    <3>1. /\ UNCHANGED <<owed, pending, fix>>
          /\ pc[t] \in Unsettled /\ pc'[t] \in Unsettled
          /\ \A u \in Threads \ {t} : pc'[u] = pc[u]
      BY <2>6 DEF PublishFails, ForceReconnect, ReconnectFails, TypeOK, ThreadTypes,
         clientVars, Unsettled, Sending
    <3>2. QED
      BY <2>2, <3>1 DEF OwedInv, AppForgetsNothing, Unsettled, Sending
  <2>7. CASE Published(t)
    <3>1. UNCHANGED owed /\ pc[t] = "sent" /\ pc'[t] = "idle"
          /\ \A u \in Threads \ {t} : pc'[u] = pc[u]
      BY <2>7 DEF Published, Release, TypeOK, ThreadTypes
    <3>2. QED
      BY <2>2, <3>1 DEF OwedInv, AppForgetsNothing, Unsettled, Sending
  <2>8. CASE KeepPending(t)
    <3>1. UNCHANGED owed /\ pending' = fix[t] /\ pc[t] = "unsent" /\ pc'[t] = "wish"
          /\ \A u \in Threads \ {t} : pc'[u] = pc[u]
      BY <2>8 DEF KeepPending, TypeOK, ThreadTypes
    <3>2. QED
      BY <2>2, <3>1 DEF OwedInv, AppForgetsNothing, Unsettled, Sending
  <2>9. QED
    BY <1>6, <2>1, <2>3, <2>4, <2>5, <2>6, <2>7, <2>8 DEF ThreadStep
<1>7. CASE ~AppActs
  BY <1>7, AppFrame DEF OwedInv, AppForgetsNothing, threadVars, Unsettled, Sending
<1>8. QED
  BY <1>1, <1>2, <1>3, <1>4, <1>5, <1>6, <1>7 DEF AppActs, ClientStep

(* The app loses no position it has stored: it is confirmed, handed to a    *)
(* connected client, pending, or in the hands of the thread that took it    *)
(* (_publish_own_location, _flush_pending_location).                        *)
THEOREM AppKeepsWhatItOwes == Spec => []AppForgetsNothing
<1>1. Init => OwedInv
  BY DEF Init, OwedInv, AppForgetsNothing, Unsettled, Sending
<1>2. TypeOK /\ OneThread /\ OwedInv /\ [Next]_vars => OwedInv'
  BY OwedInvStep
<1>3. OwedInv => AppForgetsNothing
  BY DEF OwedInv
<1>4. QED
  BY <1>1, <1>2, <1>3, OneThreadAlways, PTL DEF Spec

=============================================================================
