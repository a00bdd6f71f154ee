-------------------------- MODULE RemoteCommandProofs --------------------------
(***************************************************************************)
(* The way of a remote command: the button of the app that sends it        *)
(* (UiCommands), the codes and tokens by which the daemon accepts it        *)
(* (RemoteAuth), and what RING and CAMERA do on the device (DeviceActions). *)
(* The three share no state; each part has its own invariants, its types    *)
(* first.                                                                   *)
(***************************************************************************)
EXTENDS UiCommands, RemoteAuth, DeviceActions, TLAPS

-----------------------------------------------------------------------------
(***************************************************************************)
(* RemoteAuth: types.                                                      *)
(***************************************************************************)

(* A DELETE is final; until then each renewal is counted, and each bump of  *)
(* the generation belongs to a save.                                        *)
RenewalsCounted ==
    Wiped \/ (secret > 0 /\ batch > 0 /\ pin > 0 /\ secret + batch + pin <= MaxRenewals + 3)
BumpsFollowSaves == generation <= saves + 1 /\ (unbumped => generation <= saves)

AuthTypeInv == AuthTypeOK /\ RenewalsCounted /\ BumpsFollowSaves

LEMMA AuthTypeInit == AuthInit => AuthTypeInv
<1> SUFFICES ASSUME AuthInit PROVE AuthTypeInv
  OBVIOUS
<1> USE BoundsAssumption DEF AuthInit
<1>1. 1 \in Versions /\ 0 \in Versions /\ 0 \in Steps /\ 0 \in -Skew .. MaxTime + Skew
  BY DEF Versions, Steps
<1>2. now \in Steps /\ secret \in Versions /\ batch \in Versions /\ pin \in Versions
  BY <1>1
<1>3. spare \subseteq Backup
  BY DEF BatchOf
<1>4. status \in [Texts \cup Msgs -> {"unsent", "sent", "consume", "authorized",
                       "verify", "queued", "refused", "wiped", "lost"}]
  OBVIOUS
<1>5. token \in [Msgs -> Versions \X (-Skew .. MaxTime + Skew)] /\ sentAt \in [Msgs -> Steps]
  BY <1>1
<1>6. paid \in [Texts -> Backup \cup {Nil}]
  OBVIOUS
<1>7. generation \in 0 .. MaxSaves + 1 /\ phaseGen \in 0 .. MaxSaves + 1
      /\ saves \in 0 .. MaxSaves /\ deaths \in 0 .. MaxDeaths
  OBVIOUS
<1>8. RenewalsCounted /\ BumpsFollowSaves
  BY DEF RenewalsCounted, BumpsFollowSaves
<1>9. QED
  BY <1>1, <1>2, <1>3, <1>4, <1>5, <1>6, <1>7, <1>8 DEF AuthTypeInv, AuthTypeOK

(* The message whose status a step changes. *)
LEMMA IsKeepsTypes ==
  ASSUME AuthTypeOK, NEW m, NEW s \in {"unsent", "sent", "consume", "authorized",
             "verify", "queued", "refused", "wiped", "lost"}, Is(m, s)
  PROVE  status' \in [Texts \cup Msgs -> {"unsent", "sent", "consume", "authorized",
             "verify", "queued", "refused", "wiped", "lost"}]
BY DEF AuthTypeOK, Is

LEMMA AuthTypeStep ==
  ASSUME AuthTypeInv, [AuthNext]_authVars
  PROVE  AuthTypeInv'
<1> USE BoundsAssumption DEF AuthTypeInv
<1>1. CASE Tick
  BY <1>1 DEF AuthTypeOK, Steps, RenewalsCounted, BumpsFollowSaves, Wiped, Tick,
         settingVars, phaseVars, smsVars, mqttVars
<1>2. CASE RotateSecret \/ ChangePin \/ Regenerate
  <2>1. /\ now \in Steps /\ secret' \in Versions /\ batch' \in Versions /\ pin' \in Versions
        /\ RenewalsCounted'
    BY <1>2 DEF AuthTypeOK, RenewalsCounted, Versions, Wiped, Renewal, RotateSecret, ChangePin,
           Regenerate
  <2>2. spare' \subseteq Backup
    BY <1>2 DEF AuthTypeOK, RotateSecret, ChangePin, Regenerate, BatchOf
  <2>3. QED
    BY <1>2, <2>1, <2>2 DEF AuthTypeOK, RotateSecret, ChangePin, Regenerate, BumpsFollowSaves,
           settingVars, phaseVars, smsVars, mqttVars
<1>3. CASE Save \/ Bump
  <2>1. /\ saves \in 0 .. MaxSaves /\ generation \in 0 .. MaxSaves + 1
        /\ generation <= saves + 1 /\ (unbumped => generation <= saves)
    BY DEF AuthTypeOK, BumpsFollowSaves
  <2>2. /\ saves' \in 0 .. MaxSaves /\ generation' \in 0 .. MaxSaves + 1 /\ BumpsFollowSaves'
        /\ unbumped' \in BOOLEAN
    <3>1. CASE Save
      <4>1. saves < MaxSaves /\ saves' = saves + 1 /\ generation' = generation /\ unbumped' = TRUE
        BY <3>1 DEF Save
      <4>2. QED
        BY <2>1, <4>1 DEF BumpsFollowSaves
    <3>2. CASE Bump
      <4>1. generation' = generation + 1 /\ saves' = saves /\ unbumped' = FALSE
        BY <3>2 DEF Bump
      <4>2. generation <= saves
        BY <2>1, <3>2, Zenon DEF Bump
      <4>3. generation' <= saves' + 1 /\ generation' \in 0 .. MaxSaves + 1
        BY <2>1, <4>1, <4>2
      <4>4. QED
        BY <2>1, <4>1, <4>3, Zenon DEF BumpsFollowSaves
    <3>3. QED
      BY <1>3, <3>1, <3>2
  <2>3. whitelist' \in Lists \cup {{}} /\ enabled' \in BOOLEAN
    <3>1. CASE Save
      BY <3>1 DEF Save
    <3>2. CASE Bump
      BY <3>2 DEF AuthTypeOK, Bump
    <3>3. QED
      BY <1>3, <3>1, <3>2
  <2>4. QED
    BY <1>3, <2>2, <2>3 DEF AuthTypeOK, Save, Bump, RenewalsCounted, Wiped, codeVars, phaseVars,
           smsVars, mqttVars
<1>4. CASE ReadGeneration \/ StartListeners \/ Rebuild
  <2>1. /\ phase' \in {"idle", "starting", "serving"} /\ phaseGen' \in 0 .. MaxSaves + 1
        /\ snapshot' \in Lists \cup {{}} /\ listening' \in BOOLEAN
    <3>1. CASE ReadGeneration
      BY <3>1 DEF AuthTypeOK, ReadGeneration
    <3>2. CASE StartListeners
      BY <3>2 DEF AuthTypeOK, StartListeners
    <3>3. CASE Rebuild
      <4>1. {} \in Lists \cup {{}}
        OBVIOUS
      <4>2. phase' = "idle" /\ listening' = FALSE /\ snapshot' = {} /\ phaseGen' = 0
        BY <3>3 DEF Rebuild
      <4>3. 0 \in 0 .. MaxSaves + 1
        OBVIOUS
      <4>4. QED
        BY <4>1, <4>2, <4>3, Zenon
    <3>4. QED
      BY <1>4, <3>1, <3>2, <3>3
  <2>2. UNCHANGED <<deaths, codeVars, settingVars, smsVars, mqttVars, status>>
    BY <1>4 DEF ReadGeneration, StartListeners, Rebuild
  <2>3. QED
    BY <2>1, <2>2 DEF AuthTypeOK, RenewalsCounted, BumpsFollowSaves, Wiped, codeVars,
           settingVars, smsVars, mqttVars
<1>5. CASE Die
  <2>1. deaths' \in 0 .. MaxDeaths
    BY <1>5 DEF AuthTypeOK, Die
  <2>2. status' \in [Texts \cup Msgs -> {"unsent", "sent", "consume", "authorized",
             "verify", "queued", "refused", "wiped", "lost"}]
    BY <1>5 DEF AuthTypeOK, Die
  <2>3. netPin' \in Versions /\ phaseGen' \in 0 .. MaxSaves + 1
    BY <1>5 DEF Die, Versions
  <2>4. QED
    BY <1>5, <2>1, <2>2, <2>3 DEF AuthTypeOK, Die, RenewalsCounted, BumpsFollowSaves, Wiped,
           codeVars, settingVars
<1>6. ASSUME NEW t \in Texts, Missed(t) PROVE AuthTypeInv'
  BY <1>6, IsKeepsTypes DEF AuthTypeOK, Missed, RenewalsCounted, BumpsFollowSaves, Wiped,
         codeVars, settingVars, phaseVars, smsVars, mqttVars
<1>7. ASSUME NEW t \in Texts, NEW n \in Numbers, NEW c \in Totp \cup Backup, Handle(t, n, c)
      PROVE  AuthTypeInv'
  <2>1. status' \in [Texts \cup Msgs -> {"unsent", "sent", "consume", "authorized",
             "verify", "queued", "refused", "wiped", "lost"}]
    BY <1>7, IsKeepsTypes DEF Handle
  <2>2. handling' \in Texts \cup {Nil} /\ code' \in Totp \cup Backup \cup {Nil} /\ good' \in BOOLEAN
    <3>1. CodeGood(c) \in BOOLEAN
      BY DEF CodeGood, TotpValid
    <3>2. QED
      BY <1>7, <3>1 DEF AuthTypeOK, Handle
  <2>3. QED
    BY <1>7, <2>1, <2>2 DEF AuthTypeOK, Handle, RenewalsCounted, BumpsFollowSaves, Wiped,
           codeVars, settingVars, phaseVars, mqttVars
<1>8. CASE Consume
  <2>1. status' \in [Texts \cup Msgs -> {"unsent", "sent", "consume", "authorized",
             "verify", "queued", "refused", "wiped", "lost"}]
    BY <1>8, IsKeepsTypes DEF Consume
  <2>2. spare' \subseteq Backup /\ paid' \in [Texts -> Backup \cup {Nil}]
    BY <1>8 DEF AuthTypeOK, Consume
  <2>3. handling' \in Texts \cup {Nil} /\ code' \in Totp \cup Backup \cup {Nil} /\ good' \in BOOLEAN
    BY <1>8 DEF AuthTypeOK, Consume, HandlerReturns
  <2>4. UNCHANGED <<now, secret, batch, pin, settingVars, phaseVars, mqttVars>>
    BY <1>8 DEF Consume
  <2>5. QED
    BY <2>1, <2>2, <2>3, <2>4 DEF AuthTypeOK, RenewalsCounted, BumpsFollowSaves, Wiped, settingVars,
           phaseVars, mqttVars
<1>9. CASE Submit
  <2>1. status' \in [Texts \cup Msgs -> {"unsent", "sent", "consume", "authorized",
             "verify", "queued", "refused", "wiped", "lost"}]
    BY <1>9, IsKeepsTypes DEF Submit
  <2>2. handling' = Nil /\ code' = Nil /\ good' = FALSE
    BY <1>9 DEF Submit, HandlerReturns
  <2>3. UNCHANGED <<paid, codeVars, settingVars, phaseVars, mqttVars>>
    BY <1>9 DEF Submit
  <2>4. RenewalsCounted' /\ BumpsFollowSaves'
    BY <2>3 DEF RenewalsCounted, BumpsFollowSaves, Wiped, codeVars, settingVars
  <2>5. AuthTypeOK'
    BY <2>1, <2>2, <2>3 DEF AuthTypeOK, codeVars, settingVars, phaseVars, mqttVars
  <2>6. QED
    BY <2>4, <2>5
<1>10. ASSUME NEW m \in Msgs, MakeToken(m) PROVE AuthTypeInv'
  <2>1. status' \in [Texts \cup Msgs -> {"unsent", "sent", "consume", "authorized",
             "verify", "queued", "refused", "wiped", "lost"}]
    BY <1>10, IsKeepsTypes DEF MakeToken
  <2>2. token' \in [Msgs -> Versions \X (-Skew .. MaxTime + Skew)]
    <3>1. PICK p \in 1 .. pin, s \in now - Skew .. now + Skew :
               token' = [token EXCEPT ![m] = <<p, s>>]
      BY <1>10 DEF MakeToken
    <3>2. p \in Versions /\ s \in -Skew .. MaxTime + Skew
      BY DEF AuthTypeOK, Versions, Steps
    <3>3. QED
      BY <3>1, <3>2 DEF AuthTypeOK
  <2>3. sentAt' \in [Msgs -> Steps]
    BY <1>10 DEF AuthTypeOK, MakeToken
  <2>4. QED
    BY <1>10, <2>1, <2>2, <2>3 DEF AuthTypeOK, MakeToken, RenewalsCounted, BumpsFollowSaves,
           Wiped, codeVars, settingVars, phaseVars, smsVars
<1>11. ASSUME NEW m \in Msgs, OnMqttCommand(m) PROVE AuthTypeInv'
  BY <1>11, IsKeepsTypes DEF AuthTypeOK, OnMqttCommand, RenewalsCounted, BumpsFollowSaves, Wiped,
         codeVars, settingVars, phaseVars, smsVars
<1>12. CASE VerifyToken
  <2>1. status' \in [Texts \cup Msgs -> {"unsent", "sent", "consume", "authorized",
             "verify", "queued", "refused", "wiped", "lost"}]
    BY <1>12, IsKeepsTypes DEF VerifyToken
  <2>2. 0 \in Versions /\ 0 \in -Skew .. MaxTime + Skew /\ 0 \in Steps
    BY DEF Versions, Steps
  <2>3. token' \in [Msgs -> Versions \X (-Skew .. MaxTime + Skew)] /\ sentAt' \in [Msgs -> Steps]
    BY <1>12, <2>2 DEF AuthTypeOK, VerifyToken
  <2>4. QED
    BY <1>12, <2>1, <2>2, <2>3 DEF AuthTypeOK, VerifyToken, RenewalsCounted, BumpsFollowSaves,
           Wiped, codeVars, settingVars, phaseVars, smsVars
<1>13. ASSUME NEW m \in Msgs, Wipe(m) PROVE AuthTypeInv'
  <2>1. status' \in [Texts \cup Msgs -> {"unsent", "sent", "consume", "authorized",
             "verify", "queued", "refused", "wiped", "lost"}]
    BY <1>13, IsKeepsTypes DEF Wipe
  <2>2. /\ secret' \in Versions /\ batch' \in Versions /\ pin' \in Versions /\ RenewalsCounted'
        /\ generation' \in 0 .. MaxSaves + 1 /\ BumpsFollowSaves'
    BY <1>13 DEF AuthTypeOK, Wipe, Versions, RenewalsCounted, Wiped, BumpsFollowSaves
  <2>3. QED
    BY <1>13, <2>1, <2>2 DEF AuthTypeOK, Wipe, phaseVars, smsVars, mqttVars
<1>14. CASE UNCHANGED authVars
  BY <1>14 DEF AuthTypeOK, RenewalsCounted, BumpsFollowSaves, Wiped, authVars, codeVars,
         settingVars, phaseVars, smsVars, mqttVars
<1>15. QED
  BY <1>1, <1>2, <1>3, <1>4, <1>5, <1>6, <1>7, <1>8, <1>9, <1>10, <1>11, <1>12, <1>13, <1>14
     DEF AuthNext, LoopStep

(* Types of what the authorization of commands keeps. *)
THEOREM AuthTypeCorrect == AuthSpec => []AuthTypeOK
<1>1. AuthSpec => []AuthTypeInv
  BY AuthTypeInit, AuthTypeStep, PTL DEF AuthSpec
<1>2. QED
  BY <1>1, PTL DEF AuthTypeInv

-----------------------------------------------------------------------------
(***************************************************************************)
(* RemoteAuth: the white list.                                             *)
(***************************************************************************)

(* Until a DELETE the generation only grows, so that a phase whose          *)
(* generation has been left behind never catches up with it.                *)
ListInv ==
    /\ ~Wiped => phaseGen <= generation
    /\ ListIsCurrent

LEMMA ListStep ==
  ASSUME AuthTypeOK, ListInv, [AuthNext]_authVars
  PROVE  ListInv'
<1>1. generation \in Int /\ phaseGen \in Int /\ secret \in Int
  BY DEF AuthTypeOK, Versions
<1>2. CASE Tick \/ Regenerate \/ ChangePin \/ RotateSecret
  <2>1. /\ ~Wiped' => ~Wiped
        /\ UNCHANGED <<settingVars, phaseVars>>
    BY <1>1, <1>2 DEF Tick, Regenerate, ChangePin, RotateSecret, Renewal, Wiped
  <2>2. QED
    BY <2>1 DEF ListInv, ListIsCurrent, settingVars, phaseVars
<1>3. CASE Save
  BY <1>3 DEF ListInv, ListIsCurrent, Wiped, Save, codeVars, phaseVars
<1>4. CASE Bump
  <2>1. ~Wiped => phaseGen < generation + 1
    BY <1>1 DEF ListInv
  <2>2. QED
    BY <1>1, <1>4, <2>1 DEF ListInv, ListIsCurrent, Wiped, Bump, codeVars, phaseVars
<1>5. CASE ReadGeneration \/ StartListeners
  BY <1>1, <1>5 DEF ListInv, ListIsCurrent, Wiped, ReadGeneration, StartListeners,
         codeVars, settingVars
<1>6. CASE Rebuild \/ Die
  <2>1. ~Wiped => 0 <= generation
    BY DEF AuthTypeOK
  <2>2. phase' = "idle" /\ phaseGen' = 0 /\ UNCHANGED <<codeVars, settingVars>>
    BY <1>6 DEF Rebuild, Die
  <2>3. QED
    BY <2>1, <2>2 DEF ListInv, ListIsCurrent, Wiped, codeVars, settingVars
<1>7. CASE \/ Consume \/ Submit \/ VerifyToken
           \/ \E t \in Texts : Missed(t) \/ \E n \in Numbers, c \in Totp \cup Backup : Handle(t, n, c)
           \/ \E m \in Msgs : MakeToken(m) \/ OnMqttCommand(m)
           \/ UNCHANGED authVars
  <2>1. UNCHANGED <<secret, settingVars, phaseVars>>
    BY <1>7 DEF Consume, Submit, VerifyToken, Missed, Handle, MakeToken, OnMqttCommand, authVars,
           codeVars
  <2>2. QED
    BY <2>1 DEF ListInv, ListIsCurrent, Wiped, settingVars, phaseVars
<1>8. CASE \E m \in Msgs : Wipe(m)
  BY <1>8 DEF Wipe, ListInv, ListIsCurrent, Wiped
<1>9. QED
  BY <1>2, <1>3, <1>4, <1>5, <1>6, <1>7, <1>8 DEF AuthNext, LoopStep

(* ListIsCurrent: whatever saves and bumps of the generation come while a   *)
(* phase copies the white list, a phase under the current generation goes   *)
(* by the list that is saved (main, _run_active_phase).                     *)
THEOREM ListStaysCurrent == AuthSpec => []ListIsCurrent
<1>1. AuthInit => ListInv
  BY DEF AuthInit, ListInv, ListIsCurrent
<1>2. ListInv => ListIsCurrent
  BY DEF ListInv
<1>3. QED
  BY <1>1, <1>2, ListStep, AuthTypeCorrect, PTL DEF AuthSpec

-----------------------------------------------------------------------------
(***************************************************************************)
(* RemoteAuth: codes.                                                      *)
(***************************************************************************)

(* The codes that can be used are of the newest batch, and no command was   *)
(* ever accepted with one of them; a code that bought a command is of a     *)
(* batch that had been made by then, so that no later batch brings it back. *)
PaidIsGone ==
    /\ spare \subseteq BatchOf(batch)
    /\ \A t \in Texts : paid[t] \notin spare
    /\ ~Wiped => \A t \in Texts : paid[t] # Nil => paid[t][2] <= batch
    /\ \A t \in Texts : paid[t] # Nil => status[t] \in {"authorized", "queued", "lost"}

(* The code at hand, if it is one of a batch at all, is of none still to    *)
(* come; if the database has it, it was good when its handler began.        *)
CodeInHand ==
    /\ ~Wiped /\ code \in Backup => code[2] <= batch
    /\ handling # Nil /\ status[handling] = "consume" /\ code \in spare => good
    /\ AcceptedCodesWereGood

CodesInv == PaidIsGone /\ CodeInHand /\ CodesBuyCommands

(* What an SMS can be once its code has bought a command.                   *)
Settled == {"authorized", "queued", "lost"}

(* Steps that neither touch codes nor an SMS that is being handled.         *)
LEMMA CodesFrame ==
  ASSUME AuthTypeOK, CodesInv, Wiped' => Wiped, Wiped => Wiped',
         UNCHANGED <<batch, spare, handling, code, good, paid>>,
         \A t \in Texts : status'[t] = status[t] \/ (status[t] = "unsent" /\ status'[t] = "refused")
  PROVE  CodesInv'
<1>1. PaidIsGone'
  BY DEF CodesInv, PaidIsGone, BatchOf
<1>2. handling \in Texts \cup {Nil}
  BY DEF AuthTypeOK
<1>3. CodeInHand'
  BY <1>2 DEF CodesInv, CodeInHand, AcceptedCodesWereGood
<1>4. CodesBuyCommands'
  <2>1. \A t \in Texts : status[t] \in Settled => status'[t] \in Settled
    BY DEF Settled
  <2>2. QED
    BY <2>1 DEF CodesInv, CodesBuyCommands, BatchOf, Settled
<1>5. QED
  BY <1>1, <1>3, <1>4 DEF CodesInv

(* A step that changes the status of an MQTT command leaves those of SMS.   *)
LEMMA IsOfMessage ==
  ASSUME AuthTypeOK, NEW m \in Msgs, NEW s, Is(m, s)
  PROVE  \A t \in Texts : status'[t] = status[t]
BY MessageAssumption DEF AuthTypeOK, Is

LEMMA RegenerateKeepsCodes ==
  ASSUME AuthTypeOK, CodesInv, Regenerate
  PROVE  CodesInv'
<1>1. /\ ~Wiped /\ ~Wiped' /\ batch' = batch + 1 /\ spare' = BatchOf(batch')
      /\ UNCHANGED <<handling, code, good, paid, status>>
  BY DEF Regenerate, Renewal, Wiped, smsVars
<1>2. batch \in Int /\ handling \in Texts \cup {Nil} /\ code \in Totp \cup Backup \cup {Nil}
      /\ paid \in [Texts -> Backup \cup {Nil}]
  BY DEF AuthTypeOK, Versions
<1>3. \A c \in Backup : c[2] \in Int
  BY DEF Backup, Versions
<1>4. \A c \in spare' : c \in Backup /\ c[2] = batch + 1
  BY <1>1 DEF BatchOf
<1>5. \A t \in Texts : paid[t] \notin spare'
  <2> TAKE t \in Texts
  <2>1. CASE paid[t] = Nil
    BY <1>4, <2>1, CodeAssumption
  <2>2. CASE paid[t] # Nil
    BY <1>1, <1>2, <1>3, <1>4, <2>2 DEF CodesInv, PaidIsGone
  <2>3. QED
    BY <2>1, <2>2
<1>6. PaidIsGone'
  <2>1. \A t \in Texts : paid[t] # Nil => paid[t][2] <= batch + 1
    BY <1>1, <1>2, <1>3 DEF CodesInv, PaidIsGone
  <2>2. QED
    BY <1>1, <1>5, <2>1 DEF CodesInv, PaidIsGone, BatchOf
<1>7. code \notin spare'
  BY <1>1, <1>2, <1>3, <1>4 DEF CodesInv, CodeInHand
<1>8. CodeInHand'
  <2>1. code \in Backup => code[2] <= batch + 1
    BY <1>1, <1>2, <1>3 DEF CodesInv, CodeInHand
  <2>2. QED
    BY <1>1, <1>7, <2>1 DEF CodesInv, CodeInHand, AcceptedCodesWereGood
<1>9. CodesBuyCommands'
  BY <1>1 DEF CodesInv, CodesBuyCommands, BatchOf
<1>10. QED
  BY <1>6, <1>8, <1>9 DEF CodesInv

LEMMA HandleKeepsCodes ==
  ASSUME AuthTypeOK, CodesInv, NEW t \in Texts, NEW n \in Numbers, NEW c \in Totp \cup Backup,
         Handle(t, n, c)
  PROVE  CodesInv'
<1>1. /\ status[t] = "unsent" /\ Issued(c) /\ handling = Nil
      /\ UNCHANGED <<secret, batch, spare, paid>>
  BY DEF Handle, codeVars
<1>2. CASE ~(SenderAllowed(n) /\ enabled)
  <2>1. Is(t, "refused") /\ UNCHANGED <<handling, code, good>>
    BY <1>2 DEF Handle
  <2>2. \A u \in Texts : status'[u] = status[u] \/ (status[u] = "unsent" /\ status'[u] = "refused")
    BY <1>1, <2>1 DEF Is, AuthTypeOK
  <2>3. Wiped' <=> Wiped
    BY <1>1 DEF Wiped
  <2>4. QED
    BY <1>1, <2>1, <2>2, <2>3, CodesFrame
<1>3. CASE SenderAllowed(n) /\ enabled
  <2>1. handling' = t /\ code' = c /\ good' = CodeGood(c)
        /\ Is(t, IF TotpValid(c) THEN "authorized" ELSE "consume")
    BY <1>3 DEF Handle
  <2>2. /\ status'[t] = IF TotpValid(c) THEN "authorized" ELSE "consume"
        /\ \A u \in Texts \ {t} : status'[u] = status[u]
    BY <2>1 DEF Is, AuthTypeOK
  <2>3. t # Nil
    BY MessageAssumption
  <2>4. paid[t] = Nil
    BY <1>1 DEF CodesInv, PaidIsGone
  <2>5. PaidIsGone'
    <3>1. \A u \in Texts : paid[u] # Nil => status'[u] = status[u]
      BY <2>2, <2>4
    <3>2. QED
      BY <1>1, <3>1 DEF CodesInv, PaidIsGone, BatchOf, Wiped
  <2>6. c \in Backup /\ ~Wiped => c[2] <= batch
    BY <1>1 DEF Issued, Backup
  <2>7. CASE TotpValid(c)
    <3>1. good' = TRUE /\ status'[t] = "authorized"
      BY <2>1, <2>2, <2>7 DEF CodeGood
    <3>2. QED
      BY <1>1, <2>1, <2>2, <2>3, <2>4, <2>5, <2>6, <3>1
         DEF CodesInv, CodeInHand, AcceptedCodesWereGood, CodesBuyCommands, BatchOf, Wiped
  <2>8. CASE ~TotpValid(c)
    <3>1. status'[t] = "consume"
      BY <2>2, <2>8
    <3>2. c \in spare => good'
      BY <2>1 DEF CodesInv, PaidIsGone, CodeGood, BatchOf, Backup
    <3>3. QED
      BY <1>1, <2>1, <2>2, <2>3, <2>4, <2>5, <2>6, <3>1, <3>2
         DEF CodesInv, CodeInHand, AcceptedCodesWereGood, CodesBuyCommands, BatchOf, Wiped
  <2>9. QED
    BY <2>7, <2>8
<1>4. QED
  BY <1>2, <1>3

LEMMA ConsumeKeepsCodes ==
  ASSUME AuthTypeOK, CodesInv, Consume
  PROVE  CodesInv'
<1> DEFINE t == handling
<1>1. t \in Texts /\ status[t] = "consume" /\ UNCHANGED <<secret, batch>>
  BY DEF Consume, AuthTypeOK
<1>2. paid[t] = Nil
  BY <1>1 DEF CodesInv, PaidIsGone
<1>3. CASE code \in spare
  <2>1. /\ spare' = spare \ {code} /\ paid' = [paid EXCEPT ![t] = code] /\ Is(t, "authorized")
        /\ UNCHANGED <<handling, code, good>>
    BY <1>3 DEF Consume
  <2>2. /\ status'[t] = "authorized" /\ \A u \in Texts \ {t} : status'[u] = status[u]
    BY <1>1, <2>1 DEF Is, AuthTypeOK
  <2>3. /\ paid'[t] = code /\ \A u \in Texts \ {t} : paid'[u] = paid[u]
    BY <1>1, <2>1 DEF AuthTypeOK
  <2>4. code # Nil /\ code \in Backup
    BY <1>3, CodeAssumption DEF AuthTypeOK
  <2>5. \A u \in Texts : paid[u] # code
    BY <1>3 DEF CodesInv, PaidIsGone
  <2>6. PaidIsGone'
    BY <1>1, <2>1, <2>2, <2>3, <2>4 DEF CodesInv, PaidIsGone, CodeInHand, BatchOf, Wiped
  <2>7. good
    BY <1>1, <1>3 DEF CodesInv, CodeInHand, Consume
  <2>8. CodeInHand'
    BY <1>1, <2>1, <2>2, <2>7 DEF CodesInv, CodeInHand, AcceptedCodesWereGood, Wiped
  <2>9. CodesBuyCommands'
    <3>1. \A c \in BatchOf(batch) \ spare : \E u \in Texts \ {t} :
              paid[u] = c /\ status[u] \in Settled
      <4> TAKE c \in BatchOf(batch) \ spare
      <4>1. PICK u \in Texts : status[u] \in Settled /\ paid[u] = c
        BY DEF CodesInv, CodesBuyCommands, Settled
      <4>2. u # t
        BY <1>1, <4>1 DEF Settled
      <4>3. QED
        BY <4>1, <4>2
    <3>2. \A c \in BatchOf(batch') \ spare' : \E u \in Texts :
              paid'[u] = c /\ status'[u] \in Settled
      BY <1>1, <2>1, <2>2, <2>3, <3>1 DEF BatchOf, Settled
    <3>3. \A u, v \in Texts : u # v /\ paid'[u] # Nil => paid'[u] # paid'[v]
      BY <1>1, <2>3, <2>5 DEF CodesInv, CodesBuyCommands
    <3>4. QED
      BY <3>2, <3>3 DEF CodesBuyCommands, Settled
  <2>10. QED
    BY <2>6, <2>8, <2>9 DEF CodesInv
<1>4. CASE code \notin spare
  <2>1. HandlerReturns /\ Is(t, "refused") /\ UNCHANGED <<spare, paid>>
    BY <1>4 DEF Consume
  <2>2. /\ status'[t] = "refused" /\ \A u \in Texts \ {t} : status'[u] = status[u]
    BY <1>1, <2>1 DEF Is, AuthTypeOK
  <2>3. PaidIsGone'
    BY <1>1, <1>2, <2>1, <2>2 DEF CodesInv, PaidIsGone, BatchOf, Wiped
  <2>4. CodeInHand'
    BY <2>1, CodeAssumption DEF HandlerReturns, CodeInHand, AcceptedCodesWereGood
  <2>5. CodesBuyCommands'
    BY <1>1, <2>1, <2>2 DEF CodesInv, CodesBuyCommands, BatchOf
  <2>6. QED
    BY <2>3, <2>4, <2>5 DEF CodesInv
<1>5. QED
  BY <1>3, <1>4

LEMMA CodesStep ==
  ASSUME AuthTypeOK, CodesInv, [AuthNext]_authVars
  PROVE  CodesInv'
<1>1. CASE \/ Tick \/ RotateSecret \/ ChangePin \/ Save \/ Bump
           \/ ReadGeneration \/ StartListeners \/ Rebuild \/ UNCHANGED authVars
  <2>1. secret \in Int
    BY DEF AuthTypeOK, Versions
  <2>2. Wiped' <=> Wiped
    BY <1>1, <2>1 DEF Tick, RotateSecret, ChangePin, Renewal, Save, Bump, ReadGeneration,
           StartListeners, Rebuild, Wiped, authVars, codeVars, AuthTypeOK, Versions
  <2>3. UNCHANGED <<batch, spare, handling, code, good, paid, status>>
    BY <1>1 DEF Tick, RotateSecret, ChangePin, Save, Bump, ReadGeneration, StartListeners, Rebuild,
           authVars, codeVars, smsVars
  <2>4. QED
    BY <2>2, <2>3, CodesFrame
<1>2. CASE Regenerate
  BY <1>2, RegenerateKeepsCodes
<1>3. ASSUME NEW t \in Texts, Missed(t) PROVE CodesInv'
  <2>1. \A u \in Texts : status'[u] = status[u] \/ (status[u] = "unsent" /\ status'[u] = "refused")
    BY <1>3 DEF Missed, Is, AuthTypeOK
  <2>2. UNCHANGED <<secret, batch, spare, handling, code, good, paid>>
    BY <1>3 DEF Missed, codeVars, smsVars
  <2>3. QED
    BY <2>1, <2>2, CodesFrame DEF Wiped
<1>4. ASSUME NEW t \in Texts, NEW n \in Numbers, NEW c \in Totp \cup Backup, Handle(t, n, c)
      PROVE  CodesInv'
  BY <1>4, HandleKeepsCodes
<1>5. CASE Consume
  BY <1>5, ConsumeKeepsCodes
<1>6. CASE Submit
  <2>1. /\ handling \in Texts /\ status[handling] = "authorized" /\ Is(handling, "queued")
        /\ HandlerReturns /\ UNCHANGED <<secret, batch, spare, paid>>
    BY <1>6 DEF Submit, AuthTypeOK, codeVars
  <2>2. /\ status'[handling] = "queued"
        /\ \A u \in Texts \ {handling} : status'[u] = status[u]
    BY <2>1 DEF Is, AuthTypeOK
  <2>3. PaidIsGone'
    BY <2>1, <2>2 DEF CodesInv, PaidIsGone, BatchOf, Wiped
  <2>4. CodeInHand'
    BY <2>1, CodeAssumption DEF HandlerReturns, CodeInHand, AcceptedCodesWereGood
  <2>5. CodesBuyCommands'
    <3>1. \A u \in Texts : status[u] \in Settled => status'[u] \in Settled
      BY <2>2 DEF Settled
    <3>2. QED
      BY <2>1, <3>1 DEF CodesInv, CodesBuyCommands, BatchOf, Settled
  <2>6. QED
    BY <2>3, <2>4, <2>5 DEF CodesInv
<1>7. CASE Die
  <2>1. handling' = Nil /\ code' = Nil /\ UNCHANGED <<secret, batch, spare, paid>>
    BY <1>7 DEF Die, codeVars
  <2>2. \A u \in Texts : status[u] \in Settled => status'[u] \in Settled
    BY <1>7 DEF Die, Settled
  <2>3. PaidIsGone'
    BY <2>1, <2>2 DEF CodesInv, PaidIsGone, BatchOf, Wiped, Settled
  <2>4. CodeInHand'
    BY <2>1, CodeAssumption DEF CodeInHand, AcceptedCodesWereGood
  <2>5. CodesBuyCommands'
    BY <2>1, <2>2 DEF CodesInv, CodesBuyCommands, BatchOf, Settled
  <2>6. QED
    BY <2>3, <2>4, <2>5 DEF CodesInv
<1>8. ASSUME NEW m \in Msgs, Wipe(m) PROVE CodesInv'
  <2>1. secret' = 0 /\ batch' = 0 /\ spare' = {} /\ UNCHANGED <<handling, code, good, paid>>
    BY <1>8 DEF Wipe, smsVars
  <2>2. \A t \in Texts : status'[t] = status[t]
    BY <1>8, IsOfMessage DEF Wipe
  <2>3. BatchOf(batch') = {}
    BY <2>1 DEF BatchOf, Backup
  <2>4. handling \in Texts \cup {Nil}
    BY DEF AuthTypeOK
  <2>5. PaidIsGone' /\ CodesBuyCommands'
    BY <2>1, <2>2, <2>3 DEF CodesInv, PaidIsGone, CodesBuyCommands, Wiped
  <2>6. CodeInHand'
    BY <2>1, <2>2, <2>4 DEF CodesInv, CodeInHand, AcceptedCodesWereGood, Wiped
  <2>7. QED
    BY <2>5, <2>6 DEF CodesInv
<1>9. CASE VerifyToken \/ \E m \in Msgs : MakeToken(m) \/ OnMqttCommand(m)
  <2>1. PICK m \in Msgs, s \in {"sent", "verify", "queued", "refused"} : Is(m, s)
    BY <1>9 DEF VerifyToken, MakeToken, OnMqttCommand, AuthTypeOK
  <2>2. \A t \in Texts : status'[t] = status[t]
    BY <2>1, IsOfMessage
  <2>3. UNCHANGED <<secret, batch, spare, handling, code, good, paid>>
    BY <1>9 DEF VerifyToken, MakeToken, OnMqttCommand, codeVars, smsVars
  <2>4. QED
    BY <2>2, <2>3, CodesFrame DEF Wiped
<1>10. QED
  BY <1>1, <1>2, <1>3, <1>4, <1>5, <1>6, <1>7, <1>8, <1>9 DEF AuthNext, LoopStep

LEMMA AlwaysCodes == AuthSpec => []CodesInv
<1>1. AuthInit => CodesInv
  <2> SUFFICES ASSUME AuthInit PROVE CodesInv
    OBVIOUS
  <2>1. PaidIsGone
    BY CodeAssumption DEF AuthInit, PaidIsGone, BatchOf
  <2>2. CodeInHand /\ CodesBuyCommands
    BY CodeAssumption DEF AuthInit, CodeInHand, AcceptedCodesWereGood, CodesBuyCommands
  <2>3. QED
    BY <2>1, <2>2 DEF CodesInv
<1>2. QED
  BY <1>1, CodesStep, AuthTypeCorrect, PTL DEF AuthSpec

(* AcceptedCodesWereGood: for any number of messages, renewals, deaths and  *)
(* deletions between the two looks at the database (verify_sms_code).       *)
THEOREM OnlyGoodCodesPass == AuthSpec => []AcceptedCodesWereGood
<1>1. CodesInv => AcceptedCodesWereGood
  BY DEF CodesInv, CodeInHand
<1>2. QED
  BY <1>1, AlwaysCodes, PTL

(* CodesBuyCommands: a backup code is used up by one accepted SMS, and by   *)
(* nothing else (sms_authorize, consume_backup_code).                       *)
THEOREM CodesAreSpentOnce == AuthSpec => []CodesBuyCommands
<1>1. CodesInv => CodesBuyCommands
  BY DEF CodesInv
<1>2. QED
  BY <1>1, AlwaysCodes, PTL

-----------------------------------------------------------------------------
(***************************************************************************)
(* RemoteAuth: tokens.                                                     *)
(***************************************************************************)

(* A token is of the time step in which it was made, as the sender's clock  *)
(* has it.                                                                  *)
TokenOfItsTime == \A m \in Msgs : token[m][2] <= sentAt[m] + Skew

LEMMA TokenStep ==
  ASSUME AuthTypeOK, TokenOfItsTime, [AuthNext]_authVars
  PROVE  TokenOfItsTime'
<1> USE BoundsAssumption
<1>1. now \in Int /\ \A m \in Msgs : token[m][2] \in Int /\ sentAt[m] \in Int
  BY DEF AuthTypeOK, Steps
<1>2. ASSUME NEW m \in Msgs, MakeToken(m) PROVE TokenOfItsTime'
  <2>1. PICK p \in 1 .. pin, s \in now - Skew .. now + Skew :
             token' = [token EXCEPT ![m] = <<p, s>>]
    BY <1>2 DEF MakeToken
  <2>2. /\ token'[m] = <<p, s>> /\ sentAt'[m] = now
        /\ \A x \in Msgs \ {m} : token'[x] = token[x] /\ sentAt'[x] = sentAt[x]
    BY <1>2, <2>1 DEF MakeToken, AuthTypeOK
  <2>3. s <= now + Skew
    BY <1>1
  <2>4. QED
    BY <2>2, <2>3 DEF TokenOfItsTime
<1>3. CASE VerifyToken
  <2>1. /\ netMsg \in Msgs /\ token'[netMsg] = <<0, 0>> /\ sentAt'[netMsg] = 0
        /\ \A x \in Msgs \ {netMsg} : token'[x] = token[x] /\ sentAt'[x] = sentAt[x]
    BY <1>3 DEF VerifyToken, AuthTypeOK
  <2>2. QED
    BY <2>1 DEF TokenOfItsTime
<1>4. CASE UNCHANGED <<token, sentAt>>
  BY <1>4 DEF TokenOfItsTime
<1>5. QED
  BY <1>2, <1>3, <1>4 DEF AuthNext, LoopStep, Tick, RotateSecret, Regenerate, ChangePin, Save, Bump,
     ReadGeneration, StartListeners, Rebuild, Consume, Submit, Die, Missed, Handle, OnMqttCommand,
     Wipe, mqttVars, authVars

(* The only step that accepts an MQTT command compares its token.           *)
LEMMA AcceptedInTime ==
  ASSUME AuthTypeOK, TokenOfItsTime, [AuthNext]_authVars,
         NEW m \in Msgs, status[m] = "verify", status'[m] = "queued"
  PROVE  now - sentAt[m] <= 1 + Skew
<1> USE BoundsAssumption
<1>1. now \in Int /\ token[m][2] \in Int /\ sentAt[m] \in Int
  BY DEF AuthTypeOK, Steps
<1>2. CASE VerifyToken
  <2>1. netMsg = m
    BY <1>2 DEF VerifyToken, Is, AuthTypeOK
  <2>2. InWindow(token[m][2])
    BY <1>2, <2>1 DEF VerifyToken, Is, AuthTypeOK
  <2>3. now - 1 <= token[m][2]
    BY <1>1, <2>2 DEF InWindow
  <2>4. token[m][2] <= sentAt[m] + Skew
    BY DEF TokenOfItsTime
  <2>5. QED
    BY <1>1, <2>3, <2>4
<1>3. ASSUME NEW x \in Msgs, MakeToken(x) \/ OnMqttCommand(x) \/ Wipe(x) PROVE FALSE
  BY <1>3 DEF MakeToken, OnMqttCommand, Wipe, Is, AuthTypeOK
<1>4. ASSUME NEW t \in Texts, NEW s, Is(t, s) PROVE FALSE
  BY <1>4, MessageAssumption DEF Is, AuthTypeOK
<1>5. CASE Consume \/ Submit
  <2>1. handling \in Texts
    BY <1>5 DEF Consume, Submit, AuthTypeOK
  <2>2. QED
    BY <1>4, <1>5, <2>1 DEF Consume, Submit
<1>6. ASSUME NEW t \in Texts, NEW n \in Numbers, NEW c \in Totp \cup Backup,
             Missed(t) \/ Handle(t, n, c)
      PROVE  FALSE
  BY <1>4, <1>6 DEF Missed, Handle
<1>7. ASSUME NEW t \in Texts, Missed(t) PROVE FALSE
  BY <1>4, <1>7 DEF Missed
<1>8. CASE Die
  BY <1>8 DEF Die
<1>9. CASE UNCHANGED status
  BY <1>9
<1>10. QED
  BY <1>2, <1>3, <1>5, <1>6, <1>7, <1>8, <1>9 DEF AuthNext, LoopStep, Tick, RotateSecret, Regenerate,
     ChangePin, Save, Bump, ReadGeneration, StartListeners, Rebuild, authVars

(* TokensExpire: however long a command was kept back, and whatever the     *)
(* error of the clocks, what is accepted was sent within the window         *)
(* (verify_command_token).                                                  *)
THEOREM LateCommandsAreRefused == AuthSpec => TokensExpire
<1>1. AuthInit => TokenOfItsTime
  BY BoundsAssumption DEF AuthInit, TokenOfItsTime
<1>2. AuthSpec => []TokenOfItsTime
  BY <1>1, TokenStep, AuthTypeCorrect, PTL DEF AuthSpec
<1>3. AuthTypeOK /\ TokenOfItsTime /\ [AuthNext]_authVars
        => [\A m \in Msgs : status[m] = "verify" /\ status'[m] = "queued"
              => now - sentAt[m] <= 1 + Skew]_authVars
  BY AcceptedInTime
<1>4. QED
  BY <1>2, <1>3, AuthTypeCorrect, PTL DEF AuthSpec, TokensExpire

-----------------------------------------------------------------------------
(***************************************************************************)
(* DeviceActions: ringing.                                                 *)
(***************************************************************************)

RingsSoFar == 1 .. rings
RingPlaces == {"play", "publish", "write", "arm"}

(* Players, timers and local variables are of rings that were started, and *)
(* only a worker's ring() gets beyond stop_current.                        *)
OfStarted ==
    /\ stop \in RingsSoFar \cup {None} /\ playing \subseteq RingsSoFar
    /\ \A t \in Threads : hold[t] \in RingsSoFar \cup {None}
    /\ \A w \in Workers : target[w] \in RingsSoFar \cup {None}
    /\ \A r \in Rings \ RingsSoFar : alarm[r] = "none"
    /\ \A r \in Rings : within[r] = "stop_current"
    /\ \A t \in Threads : at[t] \in RingPlaces => within[t] = "ring"
    /\ \A t \in Threads : at[t] \in {"publish", "write", "arm"} => hold[t] # None

InRing(w) == at[w] # "idle" /\ within[w] = "ring"

(* One ring is started at a time; when its stop_current is over the slot is *)
(* empty, and nobody else fills it.                                         *)
OneIsStarted ==
    /\ \A v, w \in Workers : InRing(v) /\ InRing(w) => v = w
    /\ \A t \in Threads : at[t] \in {"play", "publish"} => stop = None
    /\ \A t \in Threads : at[t] = "write" => stop \in {None, hold[t]}

(* A timer's thread runs once: its timer fires after it was armed, and a    *)
(* ring that is being started has no timer yet.                             *)
TimersFireOnce ==
    /\ \A r \in Rings : at[r] # "idle" => alarm[r] = "fired"
    /\ \A t \in Threads : at[t] \in {"publish", "write", "arm"} => alarm[hold[t]] = "none"

(* Whoever is about to empty the slot has silenced what was in it; what a   *)
(* STOP_RING found plays on only while it is in the slot and the worker has *)
(* not been there yet.                                                      *)
StopReaches ==
    /\ \A t \in Threads : at[t] = "drop" => hold[t] \notin playing
    /\ \A w \in Workers : target[w] \in playing => stop = target[w] /\ at[w] # "drop"

(* What plays is shown, unless it is just about to be, or somebody who has  *)
(* removed the file is on the way to silence it.                            *)
ShownOrAboutTo ==
    stop \in playing \ unshown =>
        \/ file = stop
        \/ \E t \in Threads : at[t] = "write" /\ hold[t] = stop
        \/ \E t \in Threads : at[t] \in {"cancel", "forget", "silence"}

Untangled == OneIsStarted /\ TimersFireOnce /\ StopReaches /\ ShownOrAboutTo

RingInv == RingTypeOK /\ OfStarted /\ (~entangled => Untangled)

(* What the steps of DeviceActions are for the ring.                        *)
RingMoves ==
    \/ \E w \in Workers, f \in {"ring", "stop_current"} : Enter(w, f)
    \/ \E t \in Threads : ThreadStep(t)
    \/ \E r \in Rings : Lapse(r) \/ Fire(r) \/ PlaybackFails(r)
    \/ UNCHANGED ringVars

LEMMA StepsAreMoves ==
  ASSUME [Next]_vars
  PROVE  RingMoves
BY DEF Next, vars, DoRing, DoStopRing, DoCamera, RingThread, CaptureThread, MainThread, Pipeline,
   Minute, Fails, RingMoves

LEMMA NoneIsNoThread == None \notin Threads /\ None \notin Rings /\ Workers \cap Rings = {}
BY RingAssumption DEF Threads

-----------------------------------------------------------------------------
(* What the pieces of an action do to each thread.                          *)

LEMMA GotoFacts ==
  ASSUME RingTypeOK, NEW t \in Threads, NEW place \in Places, Goto(t, place)
  PROVE  /\ at' \in [Threads -> Places]
         /\ at'[t] = place
         /\ \A x \in Threads : x # t => at'[x] = at[x]
BY DEF RingTypeOK, Goto

LEMMA LeaveFacts ==
  ASSUME RingTypeOK, NEW t \in Threads, Leave(t)
  PROVE  /\ at' \in [Threads -> Places] /\ hold' \in [Threads -> Rings \cup {None}]
         /\ within' \in [Threads -> {"stop_current", "ring"}]
         /\ target' \in [Workers -> Rings \cup {None}]
         /\ at'[t] = "idle" /\ hold'[t] = None /\ within'[t] = "stop_current"
         /\ \A x \in Threads : x # t => at'[x] = at[x] /\ hold'[x] = hold[x] /\ within'[x] = within[x]
         /\ \A w \in Workers : target'[w] = IF w = t THEN None ELSE target[w]
<1>1. "idle" \in Places
  BY DEF Places
<1>2. /\ at' \in [Threads -> Places] /\ at'[t] = "idle"
      /\ \A x \in Threads : x # t => at'[x] = at[x]
  BY <1>1, GotoFacts DEF Leave
<1>3. /\ hold' \in [Threads -> Rings \cup {None}] /\ hold'[t] = None
      /\ \A x \in Threads : x # t => hold'[x] = hold[x]
  BY DEF Leave, RingTypeOK
<1>4. /\ within' \in [Threads -> {"stop_current", "ring"}] /\ within'[t] = "stop_current"
      /\ \A x \in Threads : x # t => within'[x] = within[x]
  BY DEF Leave, RingTypeOK
<1>5. /\ target' \in [Workers -> Rings \cup {None}]
      /\ \A w \in Workers : target'[w] = IF w = t THEN None ELSE target[w]
  BY DEF Leave, RingTypeOK
<1>6. QED
  BY <1>2, <1>3, <1>4, <1>5

(* The end of stop_current: back to the caller, or on in ring().            *)
LEMMA StoppedFacts ==
  ASSUME RingTypeOK, NEW t \in Threads, Stopped(t)
  PROVE  /\ at' \in [Threads -> Places] /\ hold' \in [Threads -> Rings \cup {None}]
         /\ within' \in [Threads -> {"stop_current", "ring"}]
         /\ target' \in [Workers -> Rings \cup {None}]
         /\ hold'[t] = None
         /\ \/ at'[t] = "idle" /\ within'[t] = "stop_current" /\ within[t] # "ring"
            \/ at'[t] = "play" /\ within'[t] = "ring" /\ within[t] = "ring"
         /\ \A x \in Threads : x # t => at'[x] = at[x] /\ hold'[x] = hold[x] /\ within'[x] = within[x]
         /\ \A w \in Workers : target'[w] \in {target[w], None}
<1>1. CASE within[t] = "ring"
  <2>1. Goto(t, "play") /\ hold' = [hold EXCEPT ![t] = None] /\ UNCHANGED <<within, target>>
    BY <1>1 DEF Stopped
  <2>2. "play" \in Places
    BY DEF Places
  <2>3. /\ at' \in [Threads -> Places] /\ at'[t] = "play"
        /\ \A x \in Threads : x # t => at'[x] = at[x]
    BY <2>1, <2>2, GotoFacts
  <2>4. /\ hold' \in [Threads -> Rings \cup {None}] /\ hold'[t] = None
        /\ \A x \in Threads : x # t => hold'[x] = hold[x]
    BY <2>1 DEF RingTypeOK
  <2>5. QED
    BY <1>1, <2>1, <2>3, <2>4 DEF RingTypeOK
<1>2. CASE within[t] # "ring"
  <2>1. Leave(t)
    BY <1>2 DEF Stopped
  <2>2. QED
    BY <1>2, <2>1, LeaveFacts
<1>3. QED
  BY <1>1, <1>2

-----------------------------------------------------------------------------
(* Each action keeps the invariant.                                         *)

LEMMA EnterKeeps ==
  ASSUME RingInv, NEW w \in Workers, NEW f \in {"ring", "stop_current"}, Enter(w, f)
  PROVE  RingInv'
<1>1. /\ at[w] = "idle" /\ w \in Threads /\ "clear" \in Places /\ w \notin Rings
      /\ UNCHANGED <<rings, lapsed, unshown, playing, stop, timer, file, alarm, hold>>
  BY NoneIsNoThread DEF Enter, deviceVars, Threads, Places
<1>2. RingTypeOK
  BY DEF RingInv
<1>3. /\ at' \in [Threads -> Places] /\ at'[w] = "clear"
      /\ \A x \in Threads : x # w => at'[x] = at[x]
  BY <1>1, <1>2, GotoFacts DEF Enter
<1>4. /\ within' \in [Threads -> {"stop_current", "ring"}] /\ within'[w] = f
      /\ \A x \in Threads : x # w => within'[x] = within[x]
  BY <1>1, <1>2 DEF Enter, RingTypeOK
<1>5. /\ target' \in [Workers -> Rings \cup {None}]
      /\ target'[w] = (IF f = "ring" THEN None ELSE stop)
      /\ \A v \in Workers : v # w => target'[v] = target[v]
  BY <1>2 DEF Enter, RingTypeOK
<1>6. /\ entangled' \in BOOLEAN
      /\ ~entangled' => ~entangled /\ (f = "ring" => \A v \in Workers : ~InRing(v))
  BY <1>2 DEF Enter, InRing, RingTypeOK
<1>7. RingTypeOK'
  BY <1>1, <1>2, <1>3, <1>4, <1>5, <1>6 DEF RingTypeOK
<1>8. OfStarted'
  BY <1>1, <1>3, <1>4, <1>5 DEF RingInv, OfStarted, RingsSoFar, RingPlaces, Threads
<1>9. ASSUME ~entangled' PROVE Untangled'
  <2>1. Untangled
    BY <1>6, <1>9 DEF RingInv
  <2>2. OneIsStarted'
    <3>1. \A v \in Workers : v # w => (InRing(v)' <=> InRing(v))
      BY <1>3, <1>4 DEF InRing, Threads
    <3>2. InRing(w)' => \A v \in Workers : ~InRing(v)
      BY <1>4, <1>6, <1>9 DEF InRing
    <3>3. \A u, v \in Workers : InRing(u)' /\ InRing(v)' => u = v
      BY <2>1, <3>1, <3>2 DEF Untangled, OneIsStarted
    <3>4. QED
      BY <1>1, <1>3, <2>1, <3>3 DEF Untangled, OneIsStarted
  <2>3. TimersFireOnce'
    BY <1>1, <1>3, <2>1 DEF Untangled, TimersFireOnce, Threads
  <2>4. StopReaches'
    BY <1>1, <1>2, <1>3, <1>5, <2>1, NoneIsNoThread DEF Untangled, StopReaches, Threads, RingTypeOK
  <2>5. ShownOrAboutTo'
    BY <1>1, <1>3, <2>1 DEF Untangled, ShownOrAboutTo
  <2>6. QED
    BY <2>2, <2>3, <2>4, <2>5 DEF Untangled
<1>10. QED
  BY <1>7, <1>8, <1>9 DEF RingInv

(* Steps of stop_current up to the silencing move one thread on, and touch  *)
(* neither players nor the slot of the player.                              *)
LEMMA StopBeginsKeeps ==
  ASSUME RingInv, NEW t \in Threads, ClearState(t) \/ CancelTimer(t) \/ ForgetTimer(t)
  PROVE  RingInv'
<1>1. /\ at[t] \in {"clear", "cancel", "forget"}
      /\ UNCHANGED <<rings, lapsed, unshown, playing, stop, within, hold, target, entangled>>
  BY DEF ClearState, CancelTimer, ForgetTimer, deviceVars
<1>2. RingTypeOK
  BY DEF RingInv
<1>3. PICK p \in {"cancel", "forget", "silence"} : Goto(t, p)
  BY DEF ClearState, CancelTimer, ForgetTimer
<1>4. p \in Places
  BY DEF Places
<1>5. /\ at' \in [Threads -> Places] /\ at'[t] = p
      /\ \A x \in Threads : x # t => at'[x] = at[x]
  BY <1>2, <1>3, <1>4, GotoFacts
<1>6. /\ alarm' \in [Rings -> {"none", "armed", "cancelled", "fired"}]
      /\ \A r \in Rings : alarm'[r] = alarm[r] \/ (alarm[r] = "armed" /\ alarm'[r] = "cancelled")
  BY <1>2 DEF RingTypeOK, ClearState, CancelTimer, ForgetTimer
<1>7. timer' \in Rings \cup {None} /\ file' \in Rings \cup {None}
  BY <1>2 DEF RingTypeOK, ClearState, CancelTimer, ForgetTimer
<1>8. file' = file \/ p = "cancel"
  <2>1. CASE ClearState(t)
    <3>1. at'[t] = "cancel"
      BY <1>2, <2>1 DEF ClearState, Goto, RingTypeOK
    <3>2. QED
      BY <1>5, <3>1
  <2>2. CASE CancelTimer(t) \/ ForgetTimer(t)
    BY <2>2 DEF CancelTimer, ForgetTimer
  <2>3. QED
    BY <2>1, <2>2
<1>9. RingTypeOK'
  BY <1>1, <1>2, <1>5, <1>6, <1>7 DEF RingTypeOK
<1>10. OfStarted'
  BY <1>1, <1>5, <1>6 DEF RingInv, OfStarted, RingsSoFar, RingPlaces
<1>11. ASSUME ~entangled' PROVE Untangled'
  <2>1. Untangled
    BY <1>1, <1>11 DEF RingInv
  <2>2. OneIsStarted'
    <3>1. \A v \in Workers : InRing(v)' => InRing(v)
      BY <1>1, <1>5 DEF InRing, Threads
    <3>2. \A u, v \in Workers : InRing(u)' /\ InRing(v)' => u = v
      BY <2>1, <3>1 DEF Untangled, OneIsStarted
    <3>3. QED
      BY <1>1, <1>5, <2>1, <3>2 DEF Untangled, OneIsStarted
  <2>3. TimersFireOnce'
    <3>1. \A r \in Rings : at'[r] # "idle" => alarm'[r] = "fired"
      BY <1>1, <1>5, <1>6, <2>1 DEF Untangled, TimersFireOnce, Threads
    <3>2. \A x \in Threads : at'[x] \in {"publish", "write", "arm"} =>
              at[x] \in {"publish", "write", "arm"} /\ hold[x] \in Rings
      BY <1>2, <1>5 DEF RingInv, OfStarted, RingTypeOK
    <3>3. QED
      BY <1>1, <1>6, <2>1, <3>1, <3>2 DEF Untangled, TimersFireOnce
  <2>4. StopReaches'
    BY <1>1, <1>5, <2>1 DEF Untangled, StopReaches, Threads
  <2>5. ShownOrAboutTo'
    BY <1>1, <1>5, <1>8, <2>1 DEF Untangled, ShownOrAboutTo
  <2>6. QED
    BY <2>2, <2>3, <2>4, <2>5 DEF Untangled
<1>12. QED
  BY <1>9, <1>10, <1>11 DEF RingInv

LEMMA SilenceKeeps ==
  ASSUME RingInv, NEW t \in Threads, Silence(t)
  PROVE  RingInv'
<1>1. /\ at[t] = "silence" /\ t \in Threads
      /\ UNCHANGED <<rings, lapsed, unshown, stop, timer, file, alarm, entangled>>
  BY DEF Silence, deviceVars
<1>2. RingTypeOK /\ OfStarted
  BY DEF RingInv
<1>3. CASE stop = None
  <2>1. Stopped(t) /\ playing' = playing
    BY <1>3 DEF Silence
  <2>2. /\ at' \in [Threads -> Places] /\ hold' \in [Threads -> Rings \cup {None}]
        /\ within' \in [Threads -> {"stop_current", "ring"}]
        /\ target' \in [Workers -> Rings \cup {None}]
        /\ hold'[t] = None
        /\ \/ at'[t] = "idle" /\ within'[t] = "stop_current" /\ within[t] # "ring"
           \/ at'[t] = "play" /\ within'[t] = "ring" /\ within[t] = "ring"
        /\ \A x \in Threads : x # t => at'[x] = at[x] /\ hold'[x] = hold[x] /\ within'[x] = within[x]
        /\ \A w \in Workers : target'[w] \in {target[w], None}
    BY <1>2, <2>1, StoppedFacts
  <2>3. RingTypeOK'
    BY <1>1, <1>2, <2>1, <2>2 DEF RingTypeOK
  <2>4. OfStarted'
    BY <1>1, <1>2, <2>1, <2>2 DEF OfStarted, RingsSoFar, RingPlaces, Threads
  <2>5. ASSUME ~entangled' PROVE Untangled'
    <3>1. Untangled
      BY <1>1, <2>5 DEF RingInv
    <3>2. \A v \in Workers : InRing(v)' => InRing(v)
      BY <1>1, <2>2 DEF InRing, Threads
    <3>3. \A u, v \in Workers : InRing(u)' /\ InRing(v)' => u = v
      BY <3>1, <3>2 DEF Untangled, OneIsStarted
    <3>4. OneIsStarted'
      BY <1>1, <1>3, <2>2, <3>1, <3>3 DEF Untangled, OneIsStarted
    <3>5. TimersFireOnce'
      BY <1>1, <1>2, <2>2, <3>1 DEF Untangled, TimersFireOnce, OfStarted, Threads
    <3>6. StopReaches'
      BY <1>1, <1>2, <2>1, <2>2, <3>1, NoneIsNoThread
         DEF Untangled, StopReaches, Threads, RingTypeOK
    <3>7. ShownOrAboutTo'
      BY <1>1, <1>2, <1>3, <2>1, NoneIsNoThread DEF ShownOrAboutTo, RingTypeOK
    <3>8. QED
      BY <3>4, <3>5, <3>6, <3>7 DEF Untangled
  <2>6. QED
    BY <2>3, <2>4, <2>5 DEF RingInv
<1>4. CASE stop # None
  <2>1. /\ playing' = playing \ {stop} /\ hold' = [hold EXCEPT ![t] = stop] /\ Goto(t, "drop")
        /\ UNCHANGED <<within, target>>
    BY <1>4 DEF Silence
  <2>2. "drop" \in Places
    BY DEF Places
  <2>3. /\ at' \in [Threads -> Places] /\ at'[t] = "drop"
        /\ \A x \in Threads : x # t => at'[x] = at[x]
    BY <1>2, <2>1, <2>2, GotoFacts
  <2>4. /\ hold' \in [Threads -> Rings \cup {None}] /\ hold'[t] = stop
        /\ \A x \in Threads : x # t => hold'[x] = hold[x]
    BY <1>2, <2>1 DEF RingTypeOK
  <2>5. RingTypeOK'
    BY <1>1, <1>2, <2>1, <2>3, <2>4 DEF RingTypeOK
  <2>6. OfStarted'
    BY <1>1, <1>2, <2>1, <2>3, <2>4 DEF OfStarted, RingsSoFar, RingPlaces
  <2>7. ASSUME ~entangled' PROVE Untangled'
    <3>1. Untangled
      BY <1>1, <2>7 DEF RingInv
    <3>2. \A v \in Workers : InRing(v)' => InRing(v)
      BY <1>1, <2>1, <2>3 DEF InRing, Threads
    <3>3. \A u, v \in Workers : InRing(u)' /\ InRing(v)' => u = v
      BY <3>1, <3>2 DEF Untangled, OneIsStarted
    <3>4. OneIsStarted'
      BY <1>1, <2>3, <2>4, <3>1, <3>3 DEF Untangled, OneIsStarted
    <3>5. TimersFireOnce'
      BY <1>1, <2>3, <2>4, <3>1 DEF Untangled, TimersFireOnce, Threads
    <3>6. StopReaches'
      BY <1>1, <2>1, <2>3, <2>4, <3>1 DEF Untangled, StopReaches, Threads
    <3>7. ShownOrAboutTo'
      BY <1>1, <2>1 DEF ShownOrAboutTo
    <3>8. QED
      BY <3>4, <3>5, <3>6, <3>7 DEF Untangled
  <2>8. QED
    BY <2>5, <2>6, <2>7 DEF RingInv
<1>5. QED
  BY <1>3, <1>4

LEMMA DropKeeps ==
  ASSUME RingInv, NEW t \in Threads, DropPlayer(t)
  PROVE  RingInv'
<1>1. /\ at[t] = "drop" /\ t \in Threads /\ stop' = None /\ Stopped(t)
      /\ UNCHANGED <<rings, lapsed, unshown, playing, timer, file, alarm>>
  BY DEF DropPlayer, deviceVars
<1>2. RingTypeOK /\ OfStarted
  BY DEF RingInv
<1>3. entangled' \in BOOLEAN /\ (~entangled' => ~entangled /\ stop \in {None, hold[t]})
  BY <1>2 DEF DropPlayer, RingTypeOK
<1>4. /\ at' \in [Threads -> Places] /\ hold' \in [Threads -> Rings \cup {None}]
      /\ within' \in [Threads -> {"stop_current", "ring"}]
      /\ target' \in [Workers -> Rings \cup {None}]
      /\ hold'[t] = None
      /\ \/ at'[t] = "idle" /\ within'[t] = "stop_current" /\ within[t] # "ring"
         \/ at'[t] = "play" /\ within'[t] = "ring" /\ within[t] = "ring"
      /\ \A x \in Threads : x # t => at'[x] = at[x] /\ hold'[x] = hold[x] /\ within'[x] = within[x]
      /\ \A w \in Workers : target'[w] \in {target[w], None}
  BY <1>1, <1>2, StoppedFacts
<1>5. RingTypeOK'
  BY <1>1, <1>2, <1>3, <1>4 DEF RingTypeOK
<1>6. OfStarted'
  BY <1>1, <1>2, <1>4 DEF OfStarted, RingsSoFar, RingPlaces, Threads
<1>7. ASSUME ~entangled' PROVE Untangled'
  <2>1. Untangled /\ stop \in {None, hold[t]}
    BY <1>3, <1>7 DEF RingInv
  <2>2. \A v \in Workers : InRing(v)' => InRing(v)
    BY <1>1, <1>4 DEF InRing, Threads
  <2>3. \A u, v \in Workers : InRing(u)' /\ InRing(v)' => u = v
    BY <2>1, <2>2 DEF Untangled, OneIsStarted
  <2>4. OneIsStarted'
    BY <1>1, <1>4, <2>1, <2>3 DEF Untangled, OneIsStarted
  <2>5. TimersFireOnce'
    BY <1>1, <1>2, <1>4, <2>1 DEF Untangled, TimersFireOnce, OfStarted, Threads
  <2>6. stop \notin playing
    BY <1>1, <1>2, <2>1, NoneIsNoThread DEF Untangled, StopReaches, RingTypeOK
  <2>7. StopReaches'
    BY <1>1, <1>2, <1>4, <2>1, <2>6, NoneIsNoThread DEF Untangled, StopReaches, Threads, RingTypeOK
  <2>8. ShownOrAboutTo'
    BY <1>1, <1>2, NoneIsNoThread DEF ShownOrAboutTo, RingTypeOK
  <2>9. QED
    BY <2>4, <2>5, <2>7, <2>8 DEF Untangled
<1>8. QED
  BY <1>5, <1>6, <1>7 DEF RingInv

LEMMA PlayKeeps ==
  ASSUME RingInv, NEW t \in Threads, Play(t)
  PROVE  RingInv'
<1>1. /\ at[t] = "play" /\ t \in Threads
      /\ UNCHANGED <<lapsed, unshown, stop, timer, file, alarm, entangled>>
  BY DEF Play
<1>2. RingTypeOK /\ OfStarted
  BY DEF RingInv
<1>3. CASE Leave(t) /\ UNCHANGED <<rings, playing>>
  <2>1. /\ at' \in [Threads -> Places] /\ hold' \in [Threads -> Rings \cup {None}]
        /\ within' \in [Threads -> {"stop_current", "ring"}]
        /\ target' \in [Workers -> Rings \cup {None}]
        /\ at'[t] = "idle" /\ hold'[t] = None /\ within'[t] = "stop_current"
        /\ \A x \in Threads : x # t => at'[x] = at[x] /\ hold'[x] = hold[x] /\ within'[x] = within[x]
        /\ \A w \in Workers : target'[w] = IF w = t THEN None ELSE target[w]
    BY <1>2, <1>3, LeaveFacts
  <2>2. RingTypeOK'
    BY <1>1, <1>2, <1>3, <2>1 DEF RingTypeOK
  <2>3. OfStarted'
    BY <1>1, <1>2, <1>3, <2>1 DEF OfStarted, RingsSoFar, RingPlaces, Threads
  <2>4. ASSUME ~entangled' PROVE Untangled'
    <3>1. Untangled
      BY <1>1, <2>4 DEF RingInv
    <3>2. \A v \in Workers : InRing(v)' => InRing(v)
      BY <2>1 DEF InRing, Threads
    <3>3. \A u, v \in Workers : InRing(u)' /\ InRing(v)' => u = v
      BY <3>1, <3>2 DEF Untangled, OneIsStarted
    <3>4. OneIsStarted'
      BY <1>1, <2>1, <3>1, <3>3 DEF Untangled, OneIsStarted
    <3>5. TimersFireOnce'
      BY <1>1, <2>1, <3>1 DEF Untangled, TimersFireOnce, Threads
    <3>6. StopReaches'
      BY <1>1, <1>2, <1>3, <2>1, <3>1, NoneIsNoThread
         DEF Untangled, StopReaches, Threads, RingTypeOK
    <3>7. ShownOrAboutTo'
      BY <1>1, <1>3, <2>1, <3>1 DEF Untangled, ShownOrAboutTo
    <3>8. QED
      BY <3>4, <3>5, <3>6, <3>7 DEF Untangled
  <2>5. QED
    BY <2>2, <2>3, <2>4 DEF RingInv
<1>4. CASE ~(Leave(t) /\ UNCHANGED <<rings, playing>>)
  <2> DEFINE r == rings + 1
  <2>1. /\ rings < MaxRings /\ rings' = r /\ playing' = playing \cup {r}
        /\ hold' = [hold EXCEPT ![t] = r] /\ Goto(t, "publish") /\ UNCHANGED <<within, target>>
    BY <1>4 DEF Play
  <2>2. /\ rings \in 0 .. MaxRings /\ r \in Rings /\ r \notin RingsSoFar
        /\ RingsSoFar' = RingsSoFar \cup {r} /\ rings' \in 0 .. MaxRings
    BY <1>2, <2>1, RingAssumption DEF RingTypeOK, Rings, RingsSoFar
  <2> HIDE DEF r
  <2>3. "publish" \in Places
    BY DEF Places
  <2>4. /\ at' \in [Threads -> Places] /\ at'[t] = "publish"
        /\ \A x \in Threads : x # t => at'[x] = at[x]
    BY <1>2, <2>1, <2>3, GotoFacts
  <2>5. /\ hold' \in [Threads -> Rings \cup {None}] /\ hold'[t] = r
        /\ \A x \in Threads : x # t => hold'[x] = hold[x]
    BY <1>2, <2>1, <2>2 DEF RingTypeOK
  <2>6. r # None
    BY <2>2, NoneIsNoThread
  <2>7. RingTypeOK'
    BY <1>1, <1>2, <2>1, <2>2, <2>4, <2>5 DEF RingTypeOK
  <2>8. OfStarted'
    BY <1>1, <1>2, <2>1, <2>2, <2>4, <2>5, <2>6 DEF OfStarted, RingPlaces
  <2>9. ASSUME ~entangled' PROVE Untangled'
    <3>1. Untangled
      BY <1>1, <2>9 DEF RingInv
    <3>2. \A v \in Workers : InRing(v)' => InRing(v)
      BY <1>1, <2>1, <2>4 DEF InRing, Threads
    <3>3. \A u, v \in Workers : InRing(u)' /\ InRing(v)' => u = v
      BY <3>1, <3>2 DEF Untangled, OneIsStarted
    <3>4. stop = None
      BY <1>1, <3>1 DEF Untangled, OneIsStarted
    <3>5. OneIsStarted'
      BY <1>1, <2>4, <2>5, <3>1, <3>3, <3>4 DEF Untangled, OneIsStarted
    <3>6. TimersFireOnce'
      <4>1. \A q \in Rings : at'[q] # "idle" => alarm'[q] = "fired"
        BY <1>1, <2>4, <3>1 DEF Untangled, TimersFireOnce, Threads
      <4>2. alarm[r] = "none"
        BY <1>2, <2>2 DEF OfStarted
      <4>3. QED
        BY <1>1, <2>4, <2>5, <3>1, <4>1, <4>2 DEF Untangled, TimersFireOnce
    <3>7. StopReaches'
      <4>1. \A x \in Threads : hold[x] # r
        BY <1>2, <2>2, <2>6 DEF OfStarted
      <4>2. \A w \in Workers : target[w] # r
        BY <1>2, <2>2, <2>6 DEF OfStarted
      <4>3. QED
        BY <1>1, <2>1, <2>4, <2>5, <3>1, <4>1, <4>2 DEF Untangled, StopReaches, Threads
    <3>8. ShownOrAboutTo'
      BY <1>1, <2>7, <3>4, NoneIsNoThread DEF ShownOrAboutTo, RingTypeOK
    <3>9. QED
      BY <3>5, <3>6, <3>7, <3>8 DEF Untangled
  <2>10. QED
    BY <2>7, <2>8, <2>9 DEF RingInv
<1>5. QED
  BY <1>3, <1>4

LEMMA PublishKeeps ==
  ASSUME RingInv, NEW t \in Threads, Publish(t)
  PROVE  RingInv'
<1>1. /\ at[t] = "publish" /\ t \in Threads /\ stop' = hold[t] /\ Goto(t, "write")
      /\ UNCHANGED <<rings, lapsed, unshown, playing, timer, file, alarm, within, hold, target,
                     entangled>>
  BY DEF Publish, deviceVars
<1>2. RingTypeOK /\ OfStarted
  BY DEF RingInv
<1>3. "write" \in Places
  BY DEF Places
<1>4. /\ at' \in [Threads -> Places] /\ at'[t] = "write"
      /\ \A x \in Threads : x # t => at'[x] = at[x]
  BY <1>1, <1>2, <1>3, GotoFacts
<1>5. RingTypeOK'
  BY <1>1, <1>2, <1>4 DEF RingTypeOK
<1>6. OfStarted'
  BY <1>1, <1>2, <1>4 DEF OfStarted, RingsSoFar, RingPlaces
<1>7. ASSUME ~entangled' PROVE Untangled'
  <2>1. Untangled
    BY <1>1, <1>7 DEF RingInv
  <2>2. \A v \in Workers : InRing(v)' => InRing(v)
    BY <1>1, <1>4 DEF InRing, Threads
  <2>3. \A u, v \in Workers : InRing(u)' /\ InRing(v)' => u = v
    BY <2>1, <2>2 DEF Untangled, OneIsStarted
  <2>4. stop = None
    BY <1>1, <2>1 DEF Untangled, OneIsStarted
  <2>5. \A x \in Threads : at[x] \in RingPlaces => x = t
    <3>1. \A x \in Threads : at[x] \in RingPlaces => x \in Workers /\ InRing(x)
      BY <1>2 DEF OfStarted, InRing, RingPlaces, Threads
    <3>2. t \in Workers /\ InRing(t)
      BY <1>1, <3>1 DEF RingPlaces
    <3>3. QED
      BY <2>1, <3>1, <3>2 DEF Untangled, OneIsStarted
  <2>6. OneIsStarted'
    BY <1>1, <1>4, <2>3, <2>5 DEF OneIsStarted, RingPlaces
  <2>7. TimersFireOnce'
    BY <1>1, <1>4, <2>1 DEF Untangled, TimersFireOnce, Threads
  <2>8. StopReaches'
    BY <1>1, <1>2, <1>4, <2>1, <2>4, NoneIsNoThread DEF Untangled, StopReaches, Threads, RingTypeOK
  <2>9. ShownOrAboutTo'
    BY <1>1, <1>4 DEF ShownOrAboutTo
  <2>10. QED
    BY <2>6, <2>7, <2>8, <2>9 DEF Untangled
<1>8. QED
  BY <1>5, <1>6, <1>7 DEF RingInv

LEMMA WriteKeeps ==
  ASSUME RingInv, NEW t \in Threads, WriteState(t)
  PROVE  RingInv'
<1>1. /\ at[t] = "write" /\ t \in Threads /\ Goto(t, "arm")
      /\ UNCHANGED <<rings, lapsed, playing, stop, timer, alarm, within, hold, target, entangled>>
      /\ \/ file' = hold[t] /\ unshown' = unshown
         \/ unshown' = unshown \cup {hold[t]} /\ file' = file
  BY DEF WriteState
<1>2. RingTypeOK /\ OfStarted
  BY DEF RingInv
<1>3. "arm" \in Places
  BY DEF Places
<1>4. /\ at' \in [Threads -> Places] /\ at'[t] = "arm"
      /\ \A x \in Threads : x # t => at'[x] = at[x]
  BY <1>1, <1>2, <1>3, GotoFacts
<1>5. hold[t] \in Rings
  BY <1>1, <1>2 DEF OfStarted, RingTypeOK
<1>6. RingTypeOK'
  BY <1>1, <1>2, <1>4, <1>5 DEF RingTypeOK
<1>7. OfStarted'
  BY <1>1, <1>2, <1>4 DEF OfStarted, RingsSoFar, RingPlaces
<1>8. ASSUME ~entangled' PROVE Untangled'
  <2>1. Untangled
    BY <1>1, <1>8 DEF RingInv
  <2>2. \A v \in Workers : InRing(v)' => InRing(v)
    BY <1>1, <1>4 DEF InRing, Threads
  <2>3. \A u, v \in Workers : InRing(u)' /\ InRing(v)' => u = v
    BY <2>1, <2>2 DEF Untangled, OneIsStarted
  <2>4. OneIsStarted'
    BY <1>1, <1>4, <2>1, <2>3 DEF Untangled, OneIsStarted
  <2>5. TimersFireOnce'
    BY <1>1, <1>4, <2>1 DEF Untangled, TimersFireOnce, Threads
  <2>6. StopReaches'
    BY <1>1, <1>4, <2>1 DEF Untangled, StopReaches, Threads
  <2>7. ShownOrAboutTo'
    <3>1. stop \in {None, hold[t]}
      BY <1>1, <2>1 DEF Untangled, OneIsStarted
    <3>2. stop \in playing => stop = hold[t]
      BY <1>2, <3>1, NoneIsNoThread DEF RingTypeOK
    <3>3. QED
      BY <1>1, <3>2 DEF ShownOrAboutTo
  <2>8. QED
    BY <2>4, <2>5, <2>6, <2>7 DEF Untangled
<1>9. QED
  BY <1>6, <1>7, <1>8 DEF RingInv

LEMMA ArmKeeps ==
  ASSUME RingInv, NEW t \in Threads, Arm(t)
  PROVE  RingInv'
<1>1. /\ at[t] = "arm" /\ t \in Threads /\ timer' = hold[t] /\ Leave(t)
      /\ alarm' = [alarm EXCEPT ![hold[t]] = "armed"]
      /\ UNCHANGED <<rings, lapsed, unshown, playing, stop, file, entangled>>
  BY DEF Arm, deviceVars
<1>2. RingTypeOK /\ OfStarted
  BY DEF RingInv
<1>3. /\ at' \in [Threads -> Places] /\ hold' \in [Threads -> Rings \cup {None}]
      /\ within' \in [Threads -> {"stop_current", "ring"}]
      /\ target' \in [Workers -> Rings \cup {None}]
      /\ at'[t] = "idle" /\ hold'[t] = None /\ within'[t] = "stop_current"
      /\ \A x \in Threads : x # t => at'[x] = at[x] /\ hold'[x] = hold[x] /\ within'[x] = within[x]
      /\ \A w \in Workers : target'[w] = IF w = t THEN None ELSE target[w]
  BY <1>1, <1>2, LeaveFacts
<1>4. hold[t] \in Rings /\ hold[t] \in RingsSoFar
  BY <1>1, <1>2, NoneIsNoThread DEF OfStarted, RingTypeOK
<1>5. /\ alarm' \in [Rings -> {"none", "armed", "cancelled", "fired"}]
      /\ alarm'[hold[t]] = "armed"
      /\ \A r \in Rings : r # hold[t] => alarm'[r] = alarm[r]
  BY <1>1, <1>2, <1>4 DEF RingTypeOK
<1>6. RingTypeOK'
  BY <1>1, <1>2, <1>3, <1>4, <1>5 DEF RingTypeOK
<1>7. OfStarted'
  BY <1>1, <1>2, <1>3, <1>4, <1>5 DEF OfStarted, RingsSoFar, RingPlaces, Threads
<1>8. ASSUME ~entangled' PROVE Untangled'
  <2>1. Untangled
    BY <1>1, <1>8 DEF RingInv
  <2>2. \A v \in Workers : InRing(v)' => InRing(v)
    BY <1>3 DEF InRing, Threads
  <2>3. \A u, v \in Workers : InRing(u)' /\ InRing(v)' => u = v
    BY <2>1, <2>2 DEF Untangled, OneIsStarted
  <2>4. \A x \in Threads : at[x] \in RingPlaces => x = t
    <3>1. \A x \in Threads : at[x] \in RingPlaces => x \in Workers /\ InRing(x)
      BY <1>2 DEF OfStarted, InRing, RingPlaces, Threads
    <3>2. t \in Workers /\ InRing(t)
      BY <1>1, <3>1 DEF RingPlaces
    <3>3. QED
      BY <2>1, <3>1, <3>2 DEF Untangled, OneIsStarted
  <2>5. OneIsStarted'
    BY <1>1, <1>3, <2>1, <2>3 DEF Untangled, OneIsStarted
  <2>6. TimersFireOnce'
    <3>1. alarm[hold[t]] = "none"
      BY <1>1, <2>1 DEF Untangled, TimersFireOnce
    <3>2. \A r \in Rings : at'[r] # "idle" => alarm'[r] = "fired"
      BY <1>3, <1>4, <1>5, <2>1, <3>1 DEF Untangled, TimersFireOnce, Threads
    <3>3. \A x \in Threads : at'[x] \notin {"publish", "write", "arm"}
      BY <1>3, <2>4 DEF RingPlaces
    <3>4. QED
      BY <3>2, <3>3 DEF TimersFireOnce
  <2>7. StopReaches'
    BY <1>1, <1>2, <1>3, <2>1, NoneIsNoThread DEF Untangled, StopReaches, Threads, RingTypeOK
  <2>8. ShownOrAboutTo'
    BY <1>1, <1>3, <2>1 DEF Untangled, ShownOrAboutTo
  <2>9. QED
    BY <2>5, <2>6, <2>7, <2>8 DEF Untangled
<1>9. QED
  BY <1>6, <1>7, <1>8 DEF RingInv

(* A minute is over, or a player fails.                                     *)
LEMMA DeviceKeeps ==
  ASSUME RingInv, NEW r \in Rings, Lapse(r) \/ PlaybackFails(r)
  PROVE  RingInv'
<1>1. /\ UNCHANGED <<rings, unshown, stop, timer, file, alarm, at, within, hold, target, entangled>>
      /\ playing' \subseteq playing /\ lapsed' \subseteq lapsed \cup {r}
  BY DEF Lapse, PlaybackFails, deviceVars
<1>2. RingTypeOK /\ OfStarted
  BY DEF RingInv
<1>3. RingTypeOK'
  BY <1>1, <1>2 DEF RingTypeOK
<1>4. OfStarted'
  BY <1>1, <1>2 DEF OfStarted, RingsSoFar
<1>5. ASSUME ~entangled' PROVE Untangled'
  <2>1. Untangled
    BY <1>1, <1>5 DEF RingInv
  <2>2. OneIsStarted' /\ TimersFireOnce'
    BY <1>1, <2>1 DEF Untangled, OneIsStarted, TimersFireOnce, InRing
  <2>3. StopReaches'
    BY <1>1, <2>1 DEF Untangled, StopReaches
  <2>4. ShownOrAboutTo'
    BY <1>1, <2>1 DEF Untangled, ShownOrAboutTo
  <2>5. QED
    BY <2>2, <2>3, <2>4 DEF Untangled
<1>6. QED
  BY <1>3, <1>4, <1>5 DEF RingInv

LEMMA FireKeeps ==
  ASSUME RingInv, NEW r \in Rings, Fire(r)
  PROVE  RingInv'
<1>1. /\ alarm[r] = "armed" /\ alarm' = [alarm EXCEPT ![r] = "fired"] /\ Goto(r, "clear")
      /\ UNCHANGED <<rings, lapsed, unshown, playing, stop, timer, file, within, hold, target,
                     entangled>>
  BY DEF Fire, deviceVars
<1>2. RingTypeOK /\ OfStarted
  BY DEF RingInv
<1>3. r \in Threads /\ r \notin Workers /\ "clear" \in Places
  BY NoneIsNoThread DEF Threads, Places
<1>4. /\ at' \in [Threads -> Places] /\ at'[r] = "clear"
      /\ \A x \in Threads : x # r => at'[x] = at[x]
  BY <1>1, <1>2, <1>3, GotoFacts
<1>5. /\ alarm' \in [Rings -> {"none", "armed", "cancelled", "fired"}] /\ alarm'[r] = "fired"
      /\ \A q \in Rings : q # r => alarm'[q] = alarm[q]
  BY <1>1, <1>2 DEF RingTypeOK
<1>6. RingTypeOK'
  BY <1>1, <1>2, <1>4, <1>5 DEF RingTypeOK
<1>7. OfStarted'
  BY <1>1, <1>2, <1>4, <1>5 DEF OfStarted, RingsSoFar, RingPlaces
<1>8. ASSUME ~entangled' PROVE Untangled'
  <2>1. Untangled
    BY <1>1, <1>8 DEF RingInv
  <2>2. \A v \in Workers : at'[v] = at[v]
    BY <1>3, <1>4 DEF Threads
  <2>3. OneIsStarted'
    BY <1>1, <1>4, <2>1, <2>2 DEF Untangled, OneIsStarted, InRing
  <2>4. TimersFireOnce'
    <3>1. \A x \in Threads : at[x] \in {"publish", "write", "arm"} => hold[x] # r /\ hold[x] \in Rings
      BY <1>1, <1>2, <2>1, NoneIsNoThread DEF Untangled, TimersFireOnce, OfStarted, RingTypeOK
    <3>2. QED
      BY <1>1, <1>4, <1>5, <2>1, <3>1 DEF Untangled, TimersFireOnce, Threads
  <2>5. StopReaches'
    BY <1>1, <1>4, <2>1, <2>2 DEF Untangled, StopReaches
  <2>6. ShownOrAboutTo'
    <3>1. at[r] = "idle"
      BY <1>1, <2>1 DEF Untangled, TimersFireOnce
    <3>2. QED
      BY <1>1, <1>4, <2>1, <3>1 DEF Untangled, ShownOrAboutTo
  <2>7. QED
    BY <2>3, <2>4, <2>5, <2>6 DEF Untangled
<1>9. QED
  BY <1>6, <1>7, <1>8 DEF RingInv

LEMMA RingInvInit == Init => RingInv
<1> SUFFICES ASSUME Init PROVE RingInv
  OBVIOUS
<1>1. RingTypeOK
  <2>1. /\ rings \in 0 .. MaxRings /\ playing = {} /\ lapsed = {} /\ unshown = {}
        /\ stop = None /\ timer = None /\ file = None /\ entangled = FALSE
    BY RingAssumption DEF Init, RingInit
  <2>2. /\ alarm \in [Rings -> {"none", "armed", "cancelled", "fired"}]
        /\ at \in [Threads -> Places] /\ within \in [Threads -> {"stop_current", "ring"}]
    BY DEF Init, RingInit, Places
  <2>3. hold \in [Threads -> Rings \cup {None}] /\ target \in [Workers -> Rings \cup {None}]
    BY DEF Init, RingInit
  <2>4. QED
    BY <2>1, <2>2, <2>3, Zenon DEF RingTypeOK
<1>2. OfStarted
  BY DEF Init, RingInit, OfStarted, RingPlaces, Threads
<1>3. Untangled
  BY DEF Init, RingInit, Untangled, OneIsStarted, TimersFireOnce, StopReaches, ShownOrAboutTo,
     InRing, Threads
<1>4. QED
  BY <1>1, <1>2, <1>3 DEF RingInv

LEMMA RingInvStep ==
  ASSUME RingInv, [Next]_vars
  PROVE  RingInv'
<1>1. CASE UNCHANGED ringVars
  BY <1>1 DEF RingInv, ringVars, RingTypeOK, OfStarted, RingsSoFar, Untangled, OneIsStarted,
     TimersFireOnce, StopReaches, ShownOrAboutTo, InRing
<1>2. ASSUME NEW t \in Threads, ThreadStep(t) PROVE RingInv'
  BY <1>2, StopBeginsKeeps, SilenceKeeps, DropKeeps, PlayKeeps, PublishKeeps, WriteKeeps, ArmKeeps
     DEF ThreadStep, StopCurrentStep, RingStep
<1>3. QED
  BY <1>1, <1>2, StepsAreMoves, EnterKeeps, DeviceKeeps, FireKeeps DEF RingMoves

LEMMA AlwaysRingInv == Spec => []RingInv
BY RingInvInit, RingInvStep, PTL DEF Spec

(* RingIsShown: for any number of rings, workers and STOP_RINGs a phone     *)
(* that rings on shows its button when nobody is at it, unless two rings    *)
(* were started at once (ring, stop_current, _write_state, _clear_state).   *)
THEOREM RingsAreShown == Spec => []RingIsShown
<1>1. RingInv => RingIsShown
  <2> SUFFICES ASSUME RingInv, \A t \in Threads : at[t] = "idle",
                      stop \in playing \ (lapsed \cup unshown), ~entangled
               PROVE  OwnRinging
    BY DEF RingIsShown
  <2>1. stop # None
    BY NoneIsNoThread DEF RingInv, RingTypeOK
  <2>2. file = stop
    BY DEF RingInv, Untangled, ShownOrAboutTo
  <2>3. QED
    BY <2>1, <2>2 DEF OwnRinging
<1>2. QED
  BY <1>1, AlwaysRingInv, PTL

(* A worker leaves stop_current after it found the slot empty or emptied it.*)
LEMMA StopIsDone ==
  ASSUME RingInv, [Next]_vars, NEW w \in Workers,
         within[w] = "stop_current", at[w] # "idle", at'[w] = "idle", ~entangled
  PROVE  target[w] \notin playing'
<1>1. Untangled /\ RingTypeOK /\ OfStarted /\ w \in Threads /\ w \notin Rings
  BY NoneIsNoThread DEF RingInv, Threads
<1>2. PICK t \in Threads : ThreadStep(t)
  BY <1>1, StepsAreMoves DEF RingMoves, Enter, Lapse, Fire, PlaybackFails, Goto, RingTypeOK, ringVars
<1>3. t = w
  <2>1. CASE StopCurrentStep(t)
    BY <1>1, <2>1 DEF StopCurrentStep, ClearState, CancelTimer, ForgetTimer, Silence, DropPlayer, Stopped,
       Leave, Goto, RingTypeOK
  <2>2. CASE RingStep(t)
    BY <1>1, <2>2 DEF RingStep, Play, Publish, WriteState, Arm, Leave, Goto, RingTypeOK
  <2>3. QED
    BY <1>2, <2>1, <2>2 DEF ThreadStep
<1>4. at[w] \notin RingPlaces
  BY <1>1 DEF OfStarted
<1>5. CASE Silence(w)
  <2>1. stop = None /\ playing' = playing
    BY <1>1, <1>5 DEF Silence, Goto, RingTypeOK
  <2>2. target[w] \in playing => FALSE
    BY <1>1, <2>1, NoneIsNoThread DEF Untangled, StopReaches, RingTypeOK
  <2>3. QED
    BY <2>1, <2>2
<1>6. CASE DropPlayer(w)
  BY <1>1, <1>6 DEF DropPlayer, Untangled, StopReaches
<1>7. CASE ClearState(w) \/ CancelTimer(w) \/ ForgetTimer(w)
  BY <1>1, <1>7 DEF ClearState, CancelTimer, ForgetTimer, Goto, RingTypeOK
<1>8. QED
  BY <1>2, <1>3, <1>4, <1>5, <1>6, <1>7 DEF ThreadStep, StopCurrentStep, RingStep, Play, Publish,
     WriteState, Arm, RingPlaces

(* StopStops: when a STOP_RING is done the ring that it found is silent,    *)
(* whatever timers and other commands did to the slot meanwhile, unless     *)
(* rings had got entangled (stop_current).                                  *)
THEOREM StopRingSilences == Spec => StopStops
<1>1. RingInv /\ [Next]_vars
        => [\A w \in Workers : within[w] = "stop_current" /\ at[w] # "idle" /\ at'[w] = "idle"
              => target[w] \notin playing' \/ entangled]_ringVars
  BY StopIsDone
<1>2. QED
  BY <1>1, AlwaysRingInv, PTL DEF Spec, StopStops

-----------------------------------------------------------------------------
(***************************************************************************)
(* DeviceActions: the camera, and types.                                   *)
(***************************************************************************)

(* Who has the camera open is between its opening and its return.           *)
CameraInUse == hal # None => cam[hal] \in {"start", "watch", "enter", "run"}

CameraPlaces == {"idle", "open", "start", "watch", "enter", "run"}
CaptureStates == [ready : BOOLEAN, triggered : BOOLEAN, captured : BOOLEAN, error : BOOLEAN]
Sources == {"bus", "warm", "flush", "deadline"}

CameraInv == CameraTypeOK /\ CameraInUse

LEMMA MoveFacts ==
  ASSUME CameraTypeOK, NEW w \in Workers, NEW place \in CameraPlaces, Move(w, place)
  PROVE  /\ cam' \in [Workers -> CameraPlaces]
         /\ cam'[w] = place
         /\ \A x \in Workers : x # w => cam'[x] = cam[x]
BY DEF CameraTypeOK, CameraPlaces, Move

LEMMA SourceFacts ==
  ASSUME CameraTypeOK, NEW w \in Workers, NEW s \in Sources, Add(w, s) \/ Done(w, s)
  PROVE  sources' \in [Workers -> SUBSET Sources]
<1>1. sources[w] \cup {s} \in SUBSET Sources /\ sources[w] \ {s} \in SUBSET Sources
  BY DEF CameraTypeOK, Sources
<1>2. QED
  BY <1>1 DEF CameraTypeOK, Add, Done, Sources

LEMMA SetFacts ==
  ASSUME CameraTypeOK, NEW w \in Workers,
         NEW f \in {"ready", "triggered", "captured", "error"}, Set(w, f)
  PROVE  st' \in [Workers -> CaptureStates]
<1>1. [st[w] EXCEPT ![f] = TRUE] \in CaptureStates
  <2>1. st[w] \in CaptureStates
    BY DEF CameraTypeOK, CaptureStates
  <2>2. CASE f = "ready"
    BY <2>1, <2>2 DEF CaptureStates
  <2>3. CASE f = "triggered"
    BY <2>1, <2>3 DEF CaptureStates
  <2>4. CASE f = "captured"
    BY <2>1, <2>4 DEF CaptureStates
  <2>5. CASE f = "error"
    BY <2>1, <2>5 DEF CaptureStates
  <2>6. QED
    BY <2>2, <2>3, <2>4, <2>5
<1>2. st' = [st EXCEPT ![w] = [st[w] EXCEPT ![f] = TRUE]]
  BY DEF Set
<1>3. QED
  BY <1>1, <1>2 DEF CameraTypeOK, CaptureStates

LEMMA QuitFacts ==
  ASSUME CameraTypeOK, NEW w \in Workers, Quit(w)
  PROVE  running' \in [Workers -> BOOLEAN]
BY DEF CameraTypeOK, Quit

LEMMA LeaveCaptureFacts ==
  ASSUME CameraTypeOK, NEW w \in Workers, LeaveCapture(w)
  PROVE  /\ cam' \in [Workers -> CameraPlaces]
         /\ cam'[w] = "idle"
         /\ \A x \in Workers : x # w => cam'[x] = cam[x]
         /\ st' \in [Workers -> CaptureStates]
         /\ sources' \in [Workers -> SUBSET Sources]
         /\ posted' \in [Workers -> BOOLEAN]
         /\ photo' \in [Workers -> {"none", "empty", "whole"}]
<1>1. /\ cam' \in [Workers -> CameraPlaces]
      /\ cam'[w] = "idle"
      /\ \A x \in Workers : x # w => cam'[x] = cam[x]
  BY MoveFacts DEF LeaveCapture, CameraPlaces
<1>2. st' \in [Workers -> CaptureStates]
  BY DEF LeaveCapture, CameraTypeOK, CaptureStates, Fresh
<1>3. sources' \in [Workers -> SUBSET Sources]
  BY DEF LeaveCapture, CameraTypeOK, Sources
<1>4. posted' \in [Workers -> BOOLEAN] /\ photo' \in [Workers -> {"none", "empty", "whole"}]
  BY DEF LeaveCapture, CameraTypeOK
<1>5. QED
  BY <1>1, <1>2, <1>3, <1>4

LEMMA CaptureKeeps ==
  ASSUME CameraInv, NEW w \in Workers, Capture(w) \/ CaptureStep(w)
  PROVE  CameraInv'
<1>1. CameraTypeOK /\ CameraInUse
  BY DEF CameraInv
<1> USE DEF CameraInUse
<1>2. None \notin Workers
  BY NoneIsNoThread DEF Threads
<1>3. ASSUME LeaveCapture(w), running' = running, hal' \in {hal, None}, hal' # w
      PROVE  CameraInv'
  <2>1. CameraTypeOK'
    BY <1>1, <1>3, LeaveCaptureFacts DEF CameraTypeOK, CameraPlaces, CaptureStates, Sources
  <2>2. CameraInUse'
    BY <1>1, <1>3, LeaveCaptureFacts DEF CameraTypeOK
  <2>3. QED
    BY <2>1, <2>2 DEF CameraInv
<1>4. CASE CaptureFails(w)
  <2>1. hal # w
    BY <1>1, <1>2, <1>4 DEF CaptureFails
  <2>2. QED
    BY <1>3, <1>4, <2>1 DEF CaptureFails
<1>5. CASE StartFails(w) \/ Finish(w)
  BY <1>2, <1>3, <1>5 DEF StartFails, Finish
<1>6. CASE Capture(w)
  BY <1>1, <1>6, MoveFacts DEF Capture, CameraInv, CameraTypeOK, CameraPlaces
<1>7. CASE OpenCamera(w)
  <2>1. photo' \in [Workers -> {"none", "empty", "whole"}]
    BY <1>1, <1>7 DEF OpenCamera, CameraTypeOK
  <2>2. cam' \in [Workers -> CameraPlaces] /\ cam'[w] = "start" /\ hal' = w
    BY <1>1, <1>7, MoveFacts DEF OpenCamera, CameraPlaces
  <2>3. UNCHANGED <<st, running, sources, posted>>
    BY <1>7 DEF OpenCamera
  <2>4. QED
    BY <1>1, <2>1, <2>2, <2>3 DEF CameraInv, CameraTypeOK, CameraPlaces
<1>8. CASE Started(w)
  BY <1>1, <1>8, MoveFacts DEF Started, CameraInv, CameraTypeOK, CameraPlaces
<1>9. CASE Watch(w)
  <2>1. sources' \in [Workers -> SUBSET {"bus", "warm", "flush", "deadline"}]
    <3>1. sources[w] \cup {"bus", "deadline"} \in SUBSET {"bus", "warm", "flush", "deadline"}
      BY <1>1 DEF CameraTypeOK
    <3>2. QED
      BY <1>1, <1>9, <3>1 DEF Watch, CameraTypeOK
  <2>2. /\ cam' \in [Workers -> CameraPlaces] /\ cam'[w] = "enter"
        /\ \A x \in Workers : x # w => cam'[x] = cam[x]
    BY <1>1, <1>9, MoveFacts DEF Watch, CameraPlaces
  <2>3. UNCHANGED <<hal, st, running, posted, photo>>
    BY <1>9 DEF Watch
  <2>4. QED
    BY <1>1, <2>1, <2>2, <2>3 DEF CameraInv, CameraTypeOK, CameraPlaces
<1>10. CASE RunLoop(w)
  <2>1. running' \in [Workers -> BOOLEAN]
    BY <1>1, <1>10 DEF RunLoop, CameraTypeOK
  <2>2. /\ cam' \in [Workers -> CameraPlaces] /\ cam'[w] = "run"
        /\ \A x \in Workers : x # w => cam'[x] = cam[x]
    BY <1>1, <1>10, MoveFacts DEF RunLoop, CameraPlaces
  <2>3. UNCHANGED <<hal, st, sources, posted, photo>>
    BY <1>10 DEF RunLoop
  <2>4. QED
    BY <1>1, <2>1, <2>2, <2>3 DEF CameraInv, CameraTypeOK, CameraPlaces
<1>11. QED
  BY <1>4, <1>5, <1>6, <1>7, <1>8, <1>9, <1>10 DEF CaptureStep

(* Callbacks and the pipeline neither open nor close the camera.            *)
LEMMA CallbackKeeps ==
  ASSUME CameraInv, NEW w \in Workers, CallbackStep(w) \/ PipelineStep(w)
  PROVE  CameraInv'
<1>1. CameraTypeOK /\ CameraInUse
  BY DEF CameraInv
<1>2. UNCHANGED <<hal, cam>>
  BY DEF CallbackStep, PipelineStep, OnBus, Flush, OnTimeout, OnReady, MaybeCapture, OnImageBuffer,
     WriteImage, Post
<1>3. st' \in [Workers -> CaptureStates]
  <2>1. st' = [st EXCEPT ![w].triggered = TRUE, ![w].error = TRUE] => st' \in [Workers -> CaptureStates]
    <3> DEFINE taken == [st[w] EXCEPT !.triggered = TRUE]
               both == [taken EXCEPT !.error = TRUE]
    <3>1. st[w] \in CaptureStates /\ st \in [Workers -> CaptureStates]
      BY <1>1 DEF CameraTypeOK, CaptureStates
    <3>2. taken \in CaptureStates
      BY <3>1 DEF CaptureStates
    <3>3. both \in CaptureStates
      BY <3>2 DEF CaptureStates
    <3>4. [st EXCEPT ![w].triggered = TRUE, ![w].error = TRUE]
              = [[st EXCEPT ![w] = taken] EXCEPT ![w] = both]
      BY <3>1
    <3> HIDE DEF taken, both
    <3>6. QED
      BY <3>1, <3>2, <3>3, <3>4
  <2>2. UNCHANGED st => st' \in [Workers -> CaptureStates]
    BY <1>1 DEF CameraTypeOK, CaptureStates
  <2>3. QED
    BY <1>1, <2>1, <2>2, SetFacts
       DEF CallbackStep, PipelineStep, OnBus, Flush, OnTimeout, OnReady, MaybeCapture, OnImageBuffer,
           WriteImage, Post
<1>4. sources' \in [Workers -> SUBSET Sources]
  <2>1. UNCHANGED sources => sources' \in [Workers -> SUBSET Sources]
    BY <1>1 DEF CameraTypeOK, Sources
  <2>2. {"warm", "flush", "deadline"} \subseteq Sources
    BY DEF Sources
  <2>3. QED
    BY <1>1, <2>1, <2>2, SourceFacts
       DEF CallbackStep, PipelineStep, OnBus, Flush, OnTimeout, OnReady, MaybeCapture, OnImageBuffer,
           WriteImage, Post
<1>5. running' \in [Workers -> BOOLEAN]
  <2>1. UNCHANGED running => running' \in [Workers -> BOOLEAN]
    BY <1>1 DEF CameraTypeOK
  <2>2. QED
    BY <1>1, <2>1, QuitFacts
       DEF CallbackStep, PipelineStep, OnBus, Flush, OnTimeout, OnReady, MaybeCapture, OnImageBuffer,
           WriteImage, Post
<1>6. posted' \in [Workers -> BOOLEAN] /\ photo' \in [Workers -> {"none", "empty", "whole"}]
  BY <1>1 DEF CameraTypeOK, CallbackStep, PipelineStep, OnBus, Flush, OnTimeout, OnReady,
     MaybeCapture, OnImageBuffer, WriteImage, Post
<1>7. CameraTypeOK'
  BY <1>1, <1>2, <1>3, <1>4, <1>5, <1>6 DEF CameraTypeOK, CaptureStates, Sources
<1>8. QED
  BY <1>1, <1>2, <1>7 DEF CameraInv, CameraInUse

LEMMA CameraStep ==
  ASSUME CameraInv, [Next]_vars
  PROVE  CameraInv'
<1>1. CASE UNCHANGED captureVars
  BY <1>1 DEF CameraInv, CameraTypeOK, CameraInUse, captureVars
<1>2. ASSUME NEW w \in Workers, DoCamera(w) \/ CaptureThread(w) \/ MainThread(w) \/ Pipeline(w)
      PROVE  CameraInv'
  BY <1>2, CaptureKeeps, CallbackKeeps DEF DoCamera, CaptureThread, MainThread, Pipeline
<1>3. QED
  BY <1>1, <1>2 DEF Next, vars, DoRing, DoStopRing, RingThread, Minute, Fails

LEMMA AlwaysCamera == Spec => []CameraInv
<1>1. Init => CameraInv
  BY DEF Init, CameraInit, CameraInv, CameraTypeOK, CameraInUse, Fresh
<1>2. QED
  BY <1>1, CameraStep, PTL DEF Spec

(* The safety half of CaptureEnds: in whatever way a capture ended, the     *)
(* worker does not keep the camera (capture_to_file sets the pipeline to    *)
(* NULL on every way out), so that the next capture can open it.            *)
THEOREM CameraIsLetGo == Spec => [](\A w \in Workers : cam[w] = "idle" => hal # w)
<1>1. CameraInv => \A w \in Workers : cam[w] = "idle" => hal # w
  BY NoneIsNoThread DEF CameraInv, CameraInUse, Threads
<1>2. QED
  BY <1>1, AlwaysCamera, PTL

(* Types of the state of rings, captures and the count of commands.         *)
THEOREM DeviceTypesCorrect == Spec => []TypeOK
<1>1. Init => commands \in 0 .. MaxCommands
  BY CommandsAssumption DEF Init
<1>2. commands \in 0 .. MaxCommands /\ [Next]_vars => (commands \in 0 .. MaxCommands)'
  BY CommandsAssumption DEF Next, vars, DoRing, DoStopRing, DoCamera, Execute, RingThread,
     CaptureThread, MainThread, Pipeline, Minute, Fails
<1>3. RingInv /\ CameraInv /\ commands \in 0 .. MaxCommands => TypeOK
  BY DEF RingInv, CameraInv, TypeOK
<1>4. QED
  BY <1>1, <1>2, <1>3, AlwaysRingInv, AlwaysCamera, PTL DEF Spec

-----------------------------------------------------------------------------
(***************************************************************************)
(* UiCommands: the STOP button and the timers.                             *)
(***************************************************************************)
USE TapsAssumption, OtherAssumption

(***************************************************************************)
(* The inductive invariant: the STOP button is up exactly while there is   *)
(* an entry, whose timer has not run yet; the entry of the ack timeout is  *)
(* the last tap armed.                                                     *)
(***************************************************************************)
RingBacked ==
  /\ ringing => ringEntry # NoTap
  /\ ringEntry # NoTap => ringTimer[ringEntry] # "none"

AckNewest ==
  /\ ackEntry # NoTap => ackEntry = armed
  /\ timedOut => flagged = armed

(* Between Take and the end of its job the worker holds a tap, and so does  *)
(* the network thread while it sends.                                       *)
HoldsTap ==
  /\ worker # "free" => job \in Taps
  /\ net = "send" => flushing \in Taps

Inv == UiTypeOK /\ HoldsTap /\ RingBacked /\ AckNewest

LEMMA TokensAreTaps == NoTap \notin Taps
BY DEF NoTap, Taps

-----------------------------------------------------------------------------
(* The timers.                                                              *)

LEMMA CancelKeepsTypes ==
  ASSUME NEW tmr \in [Taps -> TimerStates], NEW i \in Taps \cup {NoTap}
  PROVE  Cancelled(tmr, i) \in [Taps -> TimerStates]
BY DEF Cancelled, TimerStates

LEMMA ClearRingingFacts ==
  ASSUME UiTypeOK, ClearRinging
  PROVE  /\ ringing' = FALSE /\ ringEntry' = NoTap
         /\ ringTimer' \in [Taps -> TimerStates]
BY CancelKeepsTypes DEF ClearRinging, UiTypeOK

LEMMA MarkRingingFacts ==
  ASSUME UiTypeOK, NEW i \in Taps, MarkRinging(i)
  PROVE  /\ ringing' = TRUE /\ ringEntry' = i
         /\ ringTimer' \in [Taps -> TimerStates]
         /\ ringTimer'[i] = "armed"
<1> DEFINE c == Cancelled(ringTimer, ringEntry)
<1>1. c \in [Taps -> TimerStates]
  BY CancelKeepsTypes DEF UiTypeOK
<1>2. ringing' = TRUE /\ ringEntry' = i /\ ringTimer' = [c EXCEPT ![i] = "armed"]
  BY DEF MarkRinging
<1> HIDE DEF c
<1>3. QED
  BY <1>1, <1>2 DEF TimerStates

LEMMA ClearAckFacts ==
  ASSUME UiTypeOK, ClearAckTimeout
  PROVE  /\ timedOut' = FALSE /\ ackEntry' = NoTap /\ flagged' = NoTap /\ armed' = armed
         /\ ackTimer' \in [Taps -> TimerStates]
BY CancelKeepsTypes DEF ClearAckTimeout, UiTypeOK

LEMMA ArmAckFacts ==
  ASSUME UiTypeOK, NEW i \in Taps, ArmAckTimeout(i)
  PROVE  /\ timedOut' = FALSE /\ ackEntry' = i /\ flagged' = NoTap /\ armed' = i
         /\ ackTimer' \in [Taps -> TimerStates]
<1> DEFINE c == Cancelled(ackTimer, ackEntry)
<1>1. c \in [Taps -> TimerStates]
  BY CancelKeepsTypes DEF UiTypeOK
<1>2. /\ timedOut' = FALSE /\ ackEntry' = i /\ flagged' = NoTap /\ armed' = i
      /\ ackTimer' = [c EXCEPT ![i] = "armed"]
  BY DEF ArmAckTimeout
<1> HIDE DEF c
<1>3. QED
  BY <1>1, <1>2 DEF TimerStates

-----------------------------------------------------------------------------
(* What a step may do to the two states, with the types that belong to it.  *)

RingOK ==
  /\ ringing \in BOOLEAN /\ ringEntry \in Taps \cup {NoTap}
  /\ ringTimer \in [Taps -> TimerStates]
  /\ RingBacked

AckOK ==
  /\ timedOut \in BOOLEAN /\ ackEntry \in Taps \cup {NoTap}
  /\ ackTimer \in [Taps -> TimerStates]
  /\ armed \in Taps \cup {NoTap} /\ flagged \in Taps \cup {NoTap}
  /\ AckNewest

LEMMA RingHolds ==
  ASSUME Inv, [UiNext]_uiVars
  PROVE  RingOK'
<1> USE DEF Inv
<1>0. RingOK
  BY DEF RingOK, UiTypeOK
<1>1. ASSUME UNCHANGED ringingVars
      PROVE  RingOK'
  BY <1>0, <1>1 DEF RingOK, RingBacked, ringingVars
<1>2. ASSUME ClearRinging
      PROVE  RingOK'
  BY <1>2, ClearRingingFacts DEF RingOK, RingBacked
<1>3. ASSUME NEW i \in Taps, MarkRinging(i)
      PROVE  RingOK'
  BY <1>3, MarkRingingFacts, TokensAreTaps DEF RingOK, RingBacked
<1>4. ASSUME NEW k \in Kinds, SendCommand(k)
      PROVE  RingOK'
  <2>1. taps + 1 \in Taps
    BY <1>4 DEF SendCommand, UiTypeOK, Taps
  <2>2. \/ MarkRinging(taps + 1) \/ ClearRinging \/ UNCHANGED ringingVars
    BY <1>4 DEF SendCommand, Kinds
  <2>3. QED
    BY <1>1, <1>2, <1>3, <2>1, <2>2
<1>5. CASE UpdateDevice \/ Connack \/ ConnectionLost \/ Expire
  BY <1>1, <1>5 DEF UpdateDevice, Connack, ConnectionLost, Expire
<1>6. CASE RemoveDevice
  BY <1>2, <1>6 DEF RemoveDevice
<1>7. CASE WorkerStep
  BY <1>1, <1>2, <1>7 DEF WorkerStep, Take, DispatchCommand, DispatchFails, Sent, Unsent
<1>8. CASE NetStep
  BY <1>1, <1>2, <1>8 DEF NetStep, FlushPendingCommands, SendParked, RingRefused
<1>9. ASSUME NEW i \in Taps, OnRingAutoclear(i)
      PROVE  RingOK'
  <2>1. ringTimer' = [ringTimer EXCEPT ![i] = "none"]
    BY <1>9 DEF OnRingAutoclear
  <2>2. CASE ringEntry = i
    BY <1>0, <1>9, <2>1, <2>2 DEF OnRingAutoclear, RingOK, RingBacked, TimerStates
  <2>3. CASE ringEntry # i
    BY <1>0, <1>9, <2>1, <2>3 DEF OnRingAutoclear, RingOK, RingBacked, TimerStates
  <2>4. QED
    BY <2>2, <2>3
<1>10. ASSUME NEW i \in Taps, RingTimerDue(i)
       PROVE  RingOK'
  BY <1>0, <1>10 DEF RingTimerDue, RingOK, RingBacked, TimerStates
<1>11. ASSUME NEW i \in Taps, OnAckTimeout(i) \/ AckTimerDue(i) \/ OnRemoteAck(i)
       PROVE  RingOK'
  BY <1>1, <1>11 DEF OnAckTimeout, AckTimerDue, OnRemoteAck
<1>12. CASE UNCHANGED uiVars
  BY <1>1, <1>12 DEF uiVars
<1>13. QED
  BY <1>4, <1>5, <1>6, <1>7, <1>8, <1>9, <1>10, <1>11, <1>12 DEF UiNext

LEMMA AckHolds ==
  ASSUME Inv, [UiNext]_uiVars
  PROVE  AckOK'
<1> USE DEF Inv
<1>0. AckOK
  BY DEF AckOK, UiTypeOK
<1>1. ASSUME UNCHANGED ackVars
      PROVE  AckOK'
  BY <1>0, <1>1 DEF AckOK, AckNewest, ackVars
<1>2. ASSUME ClearAckTimeout
      PROVE  AckOK'
  BY <1>0, <1>2, ClearAckFacts DEF AckOK, AckNewest
<1>3. ASSUME NEW k \in Kinds, SendCommand(k)
      PROVE  AckOK'
  BY <1>1, <1>3 DEF SendCommand
<1>4. CASE UpdateDevice \/ RemoveDevice
  BY <1>2, <1>4 DEF UpdateDevice, RemoveDevice
<1>5. CASE Connack \/ ConnectionLost \/ Expire \/ NetStep
  BY <1>1, <1>5 DEF Connack, ConnectionLost, Expire, NetStep, FlushPendingCommands,
                    SendParked, RingRefused
<1>6. CASE WorkerStep
  <2>1. CASE Sent
    <3>1. job \in Taps /\ ArmAckTimeout(job)
      BY <2>1 DEF Sent, HoldsTap
    <3>2. QED
      BY <3>1, ArmAckFacts DEF AckOK, AckNewest
  <2>2. CASE Take \/ DispatchCommand \/ DispatchFails \/ Unsent
    BY <1>1, <2>2 DEF Take, DispatchCommand, DispatchFails, Unsent
  <2>3. QED
    BY <1>6, <2>1, <2>2 DEF WorkerStep
<1>7. ASSUME NEW i \in Taps, OnAckTimeout(i)
      PROVE  AckOK'
  <2>1. /\ ackTimer' = [ackTimer EXCEPT ![i] = "none"]
        /\ armed' = armed
    BY <1>7 DEF OnAckTimeout
  <2>2. CASE ackEntry = i
    <3>1. ackEntry' = NoTap /\ timedOut' = TRUE /\ flagged' = i /\ armed = i
      BY <1>0, <1>7, <2>2, TokensAreTaps DEF OnAckTimeout, AckOK, AckNewest
    <3>2. QED
      BY <1>0, <2>1, <3>1 DEF AckOK, AckNewest, TimerStates
  <2>3. CASE ackEntry # i
    BY <1>0, <1>7, <2>1, <2>3 DEF OnAckTimeout, AckOK, AckNewest, TimerStates
  <2>4. QED
    BY <2>2, <2>3
<1>8. ASSUME NEW i \in Taps, AckTimerDue(i)
      PROVE  AckOK'
  BY <1>0, <1>8 DEF AckTimerDue, AckOK, AckNewest, TimerStates
<1>9. ASSUME NEW i \in Taps, OnRemoteAck(i)
      PROVE  AckOK'
  BY <1>2, <1>9 DEF OnRemoteAck
<1>10. ASSUME NEW i \in Taps, OnRingAutoclear(i) \/ RingTimerDue(i)
       PROVE  AckOK'
  BY <1>1, <1>10 DEF OnRingAutoclear, RingTimerDue
<1>11. CASE UNCHANGED uiVars
  BY <1>1, <1>11 DEF uiVars
<1>12. QED
  BY <1>3, <1>4, <1>5, <1>6, <1>7, <1>8, <1>9, <1>10, <1>11 DEF UiNext

(* The rest of the state. *)
RestOK ==
  /\ taps \in 0 .. MaxTaps /\ kind \in [Taps -> Kinds] /\ queue \in Seq(Taps)
  /\ worker \in {"free", "publish", "wait", "unsent"} /\ job \in Taps \cup {NoTap}
  /\ parked \in Taps \cup {NoTap} /\ expired \in BOOLEAN
  /\ connected \in BOOLEAN /\ net \in {"idle", "flush", "send", "ring"}
  /\ flushing \in Taps \cup {NoTap}
  /\ flight \in [Taps -> {"none", "sent", "answered"}]
  /\ HoldsTap

LEMMA RestHolds ==
  ASSUME Inv, [UiNext]_uiVars
  PROVE  RestOK'
<1> USE DEF tapVars, workerVars, parkVars, netVars, HoldsTap
<1>0. RestOK
  BY DEF Inv, UiTypeOK, RestOK
<1>1. ASSUME UNCHANGED <<tapVars, queue, workerVars, parkVars, netVars, flight>>
      PROVE  RestOK'
  BY <1>0, <1>1 DEF RestOK
<1>2. ASSUME NEW k \in Kinds, SendCommand(k)
      PROVE  RestOK'
  <2>1. taps + 1 \in Taps /\ taps + 1 \in 0 .. MaxTaps
    BY <1>0, <1>2 DEF SendCommand, RestOK, Taps
  <2> DEFINE i == taps + 1
  <2>2. taps' = i /\ kind' = [kind EXCEPT ![i] = k] /\ queue' = Append(queue, i)
    BY <1>2 DEF SendCommand
  <2>3. UNCHANGED <<workerVars, parkVars, netVars, flight>>
    BY <1>2 DEF SendCommand
  <2>4. i \in Taps /\ i \in 0 .. MaxTaps
    BY <2>1
  <2> HIDE DEF i
  <2>5. QED
    BY <1>0, <2>2, <2>3, <2>4 DEF RestOK
<1>3. CASE UpdateDevice \/ RemoveDevice
  BY <1>1, <1>3 DEF UpdateDevice, RemoveDevice
<1>4. CASE Connack \/ ConnectionLost \/ Expire
  BY <1>0, <1>4 DEF Connack, ConnectionLost, Expire, RestOK
<1>5. CASE WorkerStep
  <2>1. CASE Take
    <3>1. Head(queue) \in Taps /\ Tail(queue) \in Seq(Taps)
      BY <1>0, <2>1 DEF Take, RestOK
    <3>2. QED
      BY <1>0, <2>1, <3>1 DEF Take, RestOK
  <2>2. CASE DispatchCommand
    BY <1>0, <2>2 DEF DispatchCommand, RestOK
  <2>3. CASE DispatchFails
    BY <1>0, <2>3 DEF DispatchFails, RestOK
  <2>4. CASE Sent
    BY <1>0, <2>4 DEF Sent, WorkerFree, RestOK
  <2>5. CASE Unsent
    BY <1>0, <2>5 DEF Unsent, WorkerFree, RestOK
  <2>6. QED
    BY <1>5, <2>1, <2>2, <2>3, <2>4, <2>5 DEF WorkerStep
<1>6. CASE NetStep
  <2>1. CASE FlushPendingCommands
    BY <1>0, <2>1 DEF FlushPendingCommands, RestOK
  <2>2. CASE SendParked
    BY <1>0, <2>2 DEF SendParked, RestOK
  <2>3. CASE RingRefused
    BY <1>0, <2>3 DEF RingRefused, RestOK
  <2>4. QED
    BY <1>6, <2>1, <2>2, <2>3 DEF NetStep
<1>7. ASSUME NEW i \in Taps, OnRemoteAck(i)
      PROVE  RestOK'
  BY <1>0, <1>7 DEF OnRemoteAck, RestOK
<1>8. ASSUME NEW i \in Taps,
             OnRingAutoclear(i) \/ OnAckTimeout(i) \/ RingTimerDue(i) \/ AckTimerDue(i)
      PROVE  RestOK'
  BY <1>1, <1>8 DEF OnRingAutoclear, OnAckTimeout, RingTimerDue, AckTimerDue
<1>9. CASE UNCHANGED uiVars
  BY <1>1, <1>9 DEF uiVars
<1>10. QED
  BY <1>2, <1>3, <1>4, <1>5, <1>6, <1>7, <1>8, <1>9 DEF UiNext

LEMMA PartsMakeInv == RingOK /\ AckOK /\ RestOK => Inv
BY DEF RingOK, AckOK, RestOK, Inv, UiTypeOK

LEMMA InitHolds == UiInit => RingOK /\ AckOK /\ RestOK
<1> SUFFICES ASSUME UiInit
             PROVE  RingOK /\ AckOK /\ RestOK
  OBVIOUS
<1>1. RingOK
  BY DEF UiInit, RingOK, RingBacked, TimerStates
<1>2. AckOK
  BY DEF UiInit, AckOK, AckNewest, TimerStates
<1>3. RestOK
  <2>1. expired \in BOOLEAN /\ connected \in BOOLEAN
    BY Zenon DEF UiInit
  <2>2. kind \in [Taps -> Kinds] /\ flight \in [Taps -> {"none", "sent", "answered"}]
    BY DEF UiInit, Kinds
  <2>3. queue \in Seq(Taps) /\ taps \in 0 .. MaxTaps
    BY DEF UiInit
  <2>4. HoldsTap
    BY DEF UiInit, HoldsTap
  <2>5. QED
    BY <2>1, <2>2, <2>3, <2>4 DEF UiInit, RestOK
<1>4. QED
  BY <1>1, <1>2, <1>3

LEMMA Invariance == UiSpec => []Inv
<1>1. Inv /\ [UiNext]_uiVars => Inv'
  <2> SUFFICES ASSUME Inv, [UiNext]_uiVars
               PROVE  Inv'
    OBVIOUS
  <2>1. RingOK' /\ AckOK' /\ RestOK'
    BY RingHolds, AckHolds, RestHolds
  <2>2. QED
    BY <2>1 DEF RingOK, AckOK, RestOK, Inv, UiTypeOK
<1>2. UiInit => Inv
  BY InitHolds, PartsMakeInv
<1>3. QED
  BY <1>1, <1>2, PTL DEF UiSpec

(* Every reachable state is well typed. *)
THEOREM UiTypeCorrect == UiSpec => []UiTypeOK
<1>1. Inv => UiTypeOK
  BY DEF Inv
<1>2. QED
  BY Invariance, <1>1, PTL

(* The STOP button of a device is never shown without a live timer that     *)
(* takes it away (_mark_ringing, _clear_ringing, _on_ring_autoclear).       *)
THEOREM ButtonIsBacked == UiSpec => []StopButtonBacked
<1>1. Inv => StopButtonBacked
  BY DEF Inv, RingBacked, StopButtonBacked
<1>2. QED
  BY Invariance, <1>1, PTL

(* A late timer of an earlier command never flags the device as not         *)
(* responding (_arm_ack_timeout, _on_ack_timeout).                          *)
THEOREM StaleTimersAreHarmless == UiSpec => []OnlyNewestFlags
<1>1. Inv => OnlyNewestFlags
  BY DEF Inv, AckNewest, OnlyNewestFlags
<1>2. QED
  BY Invariance, <1>1, PTL
=============================================================================
