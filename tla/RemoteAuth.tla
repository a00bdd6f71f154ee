------------------------------ MODULE RemoteAuth ------------------------------
(***************************************************************************)
(* How a remote command is accepted, by SMS and by MQTT: the SMS handler   *)
(* on the main loop of the command daemon (sms_command_listener.py), the   *)
(* handler on the network thread of its MQTT client (on_mqtt_command), and *)
(* the one-time codes and command tokens of fmd/tokens.py.  Meanwhile the  *)
(* app, another process, renews secrets, codes and PIN and saves settings; *)
(* the daemon rebuilds its listeners some time after a save, and a DELETE  *)
(* takes the whole database away.                                          *)
(*                                                                         *)
(* A code is <<"totp", secret, time step>> or <<"backup", batch, number>>, *)
(* secrets, batches and PINs are numbered, 0 is none.  A token is the PIN  *)
(* it was made with and its time step.  A phone number is its sequence of  *)
(* digits.  What accepted commands do is modules GpsCommand, DeviceActions *)
(* and CmdDaemon.                                                          *)
(***************************************************************************)
EXTENDS Integers, Sequences

CONSTANTS
    Texts,        \* the SMS that arrive
    Msgs,         \* the MQTT commands that are sent
    Wipes,        \* those of them that say DELETE
    Numbers,      \* of the senders of SMS
    Lists,        \* what SMS_WHITELIST may be saved as
    MatchDigits,  \* match_digits
    Skew,         \* how far the sender's clock may be off, in time steps
    MaxTime,      \* bound: time steps of 30 s
    MaxRenewals,  \* bound: new secrets, batches and PINs together
    MaxSaves,     \* bound: saves of the settings
    MaxDeaths,    \* bound: times the daemon ends
    Nil

ASSUME MessageAssumption ==
    /\ Wipes \subseteq Msgs /\ Texts \cap Msgs = {}
    /\ Nil \notin Texts \cup Msgs
ASSUME NumberAssumption ==
    /\ MatchDigits \in Nat
    /\ \A n \in Numbers \cup UNION Lists : n \in Seq(0 .. 9)
ASSUME BoundsAssumption ==
    Skew \in Nat /\ MaxTime \in Nat /\ MaxRenewals \in Nat /\ MaxSaves \in Nat /\ MaxDeaths \in Nat

VARIABLES
    (* the database *)
    now,          \* the time step
    secret,       \* the TOTP secret
    batch,        \* the batch of backup codes
    spare,        \* its unused codes
    pin,          \* of the own device
    whitelist,    \* SMS_WHITELIST
    enabled,      \* are SMS_REMOTE_ENABLED and the command's switch on?
    generation,   \* of the settings
    unbumped,     \* was something saved since it was bumped?
    saves,
    (* the daemon *)
    phase,        \* where its main loop is
    phaseGen,     \* the generation it read
    snapshot,     \* the listener's copy of the white list
    listening,    \* is the listener registered?
    handling,     \* the SMS the main loop is at
    code,         \* of that SMS
    netMsg,       \* the MQTT command the network thread is at
    netPin,       \* the PIN it read
    deaths,
    status,       \* of each SMS and MQTT command
    token,        \* of each MQTT command that was sent
    (* histories *)
    good,         \* was the code good when its handler began?
    paid,         \* the backup code an SMS was accepted with
    sentAt        \* when an MQTT command was sent

codeVars == <<now, secret, batch, spare, pin>>
settingVars == <<whitelist, enabled, generation, unbumped, saves>>
phaseVars == <<phase, phaseGen, snapshot, listening, deaths>>
smsVars == <<handling, code, good, paid>>
mqttVars == <<netMsg, netPin, token, sentAt>>
authVars == <<codeVars, settingVars, phaseVars, smsVars, mqttVars, status>>

Versions == 0 .. MaxRenewals + 1
Steps == 0 .. MaxTime
Totp == {"totp"} \X (Versions \ {0}) \X Steps
Backup == {"backup"} \X (Versions \ {0}) \X {1}
BatchOf(b) == {c \in Backup : c[2] = b}

ASSUME CodeAssumption == Nil \notin Totp \cup Backup

AuthTypeOK ==
    /\ now \in Steps /\ secret \in Versions /\ batch \in Versions /\ pin \in Versions
    /\ spare \subseteq Backup
    /\ whitelist \in Lists \cup {{}} /\ snapshot \in Lists \cup {{}}
    /\ enabled \in BOOLEAN /\ unbumped \in BOOLEAN /\ listening \in BOOLEAN
    /\ generation \in 0 .. MaxSaves + 1 /\ phaseGen \in 0 .. MaxSaves + 1
    /\ saves \in 0 .. MaxSaves /\ deaths \in 0 .. MaxDeaths
    /\ phase \in {"idle", "starting", "serving"}
    /\ handling \in Texts \cup {Nil} /\ code \in Totp \cup Backup \cup {Nil}
    /\ netMsg \in Msgs \cup {Nil} /\ netPin \in Versions
    /\ status \in [Texts \cup Msgs -> {"unsent", "sent", "consume", "authorized",
                       "verify", "queued", "refused", "wiped", "lost"}]
    /\ token \in [Msgs -> Versions \X (-Skew .. MaxTime + Skew)]
    /\ good \in BOOLEAN /\ paid \in [Texts -> Backup \cup {Nil}]
    /\ sentAt \in [Msgs -> Steps]

AuthInit ==
    /\ now = 0 /\ secret = 1 /\ batch = 1 /\ spare = BatchOf(1) /\ pin = 1
    /\ whitelist \in Lists /\ enabled = TRUE
    /\ generation = 1 /\ unbumped = FALSE /\ saves = 0
    /\ phase = "idle" /\ phaseGen = 0 /\ snapshot = {} /\ listening = FALSE
    /\ deaths = 0
    /\ handling = Nil /\ code = Nil /\ good = FALSE
    /\ paid = [t \in Texts |-> Nil]
    /\ netMsg = Nil /\ netPin = 0
    /\ status = [m \in Texts \cup Msgs |-> "unsent"]
    /\ token = [m \in Msgs |-> <<0, 0>>]
    /\ sentAt = [m \in Msgs |-> 0]

Is(m, s) == status' = [status EXCEPT ![m] = s]
Wiped == secret = 0

-----------------------------------------------------------------------------
(* Time, and the app. *)

Tick ==
    /\ now < MaxTime
    /\ now' = now + 1
    /\ UNCHANGED <<secret, batch, spare, pin, settingVars, phaseVars, smsVars, mqttVars, status>>

Renewal == ~Wiped /\ secret + batch + pin < MaxRenewals + 3

(* rotate_totp_secret *)
RotateSecret ==
    /\ Renewal
    /\ secret' = secret + 1
    /\ UNCHANGED <<now, batch, spare, pin, settingVars, phaseVars, smsVars, mqttVars, status>>

(* Mutant: the codes of the batch before stay. *)
RegenerateKeeps ==
    /\ Renewal
    /\ batch' = batch + 1
    /\ spare' = spare \cup BatchOf(batch + 1)
    /\ UNCHANGED <<now, secret, pin, settingVars, phaseVars, smsVars, mqttVars, status>>

(* generate_backup_codes deletes and inserts in one transaction. *)
Regenerate ==
    /\ Renewal
    /\ batch' = batch + 1
    /\ spare' = BatchOf(batch + 1)
    /\ UNCHANGED <<now, secret, pin, settingVars, phaseVars, smsVars, mqttVars, status>>

ChangePin ==
    /\ Renewal
    /\ pin' = pin + 1
    /\ UNCHANGED <<now, secret, batch, spare, settingVars, phaseVars, smsVars, mqttVars, status>>

(* save_settings writes, and a thread of its own bumps the generation,      *)
(* unless the app ends before.                                              *)
Save ==
    /\ ~Wiped /\ saves < MaxSaves
    /\ saves' = saves + 1
    /\ whitelist' \in Lists /\ enabled' \in BOOLEAN
    /\ unbumped' = TRUE
    /\ UNCHANGED <<generation, codeVars, phaseVars, smsVars, mqttVars, status>>

Bump ==
    /\ unbumped
    /\ generation' = generation + 1
    /\ unbumped' = FALSE
    /\ UNCHANGED <<whitelist, enabled, saves, codeVars, phaseVars, smsVars, mqttVars, status>>

-----------------------------------------------------------------------------
(* The main loop of the daemon: a phase per settings generation. *)

ReadGeneration ==
    /\ phase = "idle"
    /\ phase' = "starting"
    /\ phaseGen' = generation
    /\ UNCHANGED <<snapshot, listening, deaths, codeVars, settingVars, smsVars, mqttVars, status>>

(* Mutant: the generation is read after the white list. *)
StartListenersFirst ==
    /\ phase = "starting"
    /\ \/ phaseGen # 0 /\ snapshot' = whitelist /\ phaseGen' = 0 /\ UNCHANGED <<phase, listening>>
       \/ /\ phaseGen = 0 /\ phaseGen' = generation
          /\ phase' = "serving" /\ listening' \in BOOLEAN
          /\ UNCHANGED snapshot
    /\ UNCHANGED <<deaths, codeVars, settingVars, smsVars, mqttVars, status>>

(* The listener copies the white list; D-Bus may refuse it. *)
StartListeners ==
    /\ phase = "starting"
    /\ snapshot' = whitelist
    /\ listening' \in BOOLEAN
    /\ phase' = "serving"
    /\ UNCHANGED <<phaseGen, deaths, codeVars, settingVars, smsVars, mqttVars, status>>

(* The watchdog sees a new generation or, all switches being off, the end.  *)
Rebuild ==
    /\ phase = "serving" /\ handling = Nil
    /\ generation # phaseGen \/ ~enabled
    /\ phase' = "idle" /\ listening' = FALSE /\ snapshot' = {} /\ phaseGen' = 0
    /\ UNCHANGED <<deaths, codeVars, settingVars, smsVars, mqttVars, status>>

(* The daemon ends, with what its threads were at, and systemd starts it.   *)
Die ==
    /\ deaths < MaxDeaths /\ deaths' = deaths + 1
    /\ phase' = "idle"
    /\ listening' = FALSE /\ snapshot' = {} /\ phaseGen' = 0
    /\ handling' = Nil /\ code' = Nil /\ good' = FALSE /\ netMsg' = Nil /\ netPin' = 0
    /\ status' = [m \in Texts \cup Msgs |->
            IF status[m] \in {"consume", "authorized", "verify", "queued"} THEN "lost" ELSE status[m]]
    /\ UNCHANGED <<codeVars, settingVars, paid, token, sentAt>>

-----------------------------------------------------------------------------
(* An SMS, on the main loop. *)

Suffix(n) == SubSeq(n, Len(n) - MatchDigits + 1, Len(n))

(* sender_allowed: the last digits decide, where both numbers have as many. *)
SenderAllowed(n) ==
    \E e \in snapshot :
        IF MatchDigits > 0 /\ Len(n) >= MatchDigits /\ Len(e) >= MatchDigits
        THEN Suffix(n) = Suffix(e)
        ELSE n = e

(* verify_totp: the current time step, one before or one after. *)
TotpValid(c) == c[1] = "totp" /\ secret # 0 /\ c[2] = secret /\ c[3] \in now - 1 .. now + 1

(* Of the newest secret or batch, and nothing was bought with it? *)
CodeGood(c) ==
    \/ TotpValid(c)
    \/ c[1] = "backup" /\ c[2] = batch /\ \A t \in Texts : paid[t] # c

(* Nobody sends a code before the app shows it. *)
Issued(c) ==
    LET newest == IF c[1] = "totp" THEN secret ELSE batch IN (Wiped \/ c[2] <= newest)

Missed(t) ==
    /\ status[t] = "unsent" /\ ~listening
    /\ Is(t, "refused")
    /\ UNCHANGED <<codeVars, settingVars, phaseVars, smsVars, mqttVars>>

(* Mutant: the code is tried before the switches are looked at. *)
HandleSwitchLast(t, n, c) ==
    /\ listening /\ handling = Nil /\ status[t] = "unsent" /\ Issued(c)
    /\ IF SenderAllowed(n) /\ enabled
       THEN /\ handling' = t /\ code' = c /\ good' = CodeGood(c)
            /\ Is(t, IF TotpValid(c) THEN "authorized" ELSE "consume")
            /\ UNCHANGED spare
       ELSE /\ Is(t, "refused")
            /\ spare' = IF SenderAllowed(n) THEN spare \ {c} ELSE spare
            /\ UNCHANGED <<handling, code, good>>
    /\ UNCHANGED <<now, secret, batch, pin, settingVars, phaseVars, paid, mqttVars>>

(* _handle, sms_authorize and the first half of verify_sms_code: white      *)
(* list, switches, and the secret as the database has it now.  A text that  *)
(* is no command is ignored as well.                                        *)
Handle(t, n, c) ==
    /\ listening /\ handling = Nil /\ status[t] = "unsent" /\ Issued(c)
    /\ IF SenderAllowed(n) /\ enabled
       THEN /\ handling' = t /\ code' = c /\ good' = CodeGood(c)
            /\ Is(t, IF TotpValid(c) THEN "authorized" ELSE "consume")
       ELSE Is(t, "refused") /\ UNCHANGED <<handling, code, good>>
    /\ UNCHANGED <<codeVars, settingVars, phaseVars, paid, mqttVars>>

HandlerReturns == handling' = Nil /\ code' = Nil /\ good' = FALSE

(* Mutant: the code is accepted without being marked as used. *)
ConsumeUnmarked ==
    /\ handling # Nil /\ status[handling] = "consume"
    /\ IF code \in spare
       THEN /\ paid' = [paid EXCEPT ![handling] = code]
            /\ Is(handling, "authorized")
            /\ UNCHANGED <<handling, code, good>>
       ELSE HandlerReturns /\ Is(handling, "refused") /\ UNCHANGED paid
    /\ UNCHANGED <<codeVars, settingVars, phaseVars, mqttVars>>

(* consume_backup_code: one UPDATE, that finds an unused row or none. *)
Consume ==
    /\ handling # Nil /\ status[handling] = "consume"
    /\ IF code \in spare
       THEN /\ spare' = spare \ {code}
            /\ paid' = [paid EXCEPT ![handling] = code]
            /\ Is(handling, "authorized")
            /\ UNCHANGED <<handling, code, good>>
       ELSE /\ HandlerReturns /\ Is(handling, "refused")
            /\ UNCHANGED <<spare, paid>>
    /\ UNCHANGED <<now, secret, batch, pin, settingVars, phaseVars, mqttVars>>

(* sms_on_command *)
Submit ==
    /\ handling # Nil /\ status[handling] = "authorized"
    /\ HandlerReturns /\ Is(handling, "queued")
    /\ UNCHANGED <<paid, codeVars, settingVars, phaseVars, mqttVars>>

-----------------------------------------------------------------------------
(* An MQTT command: made by another device, on the way for as long as the   *)
(* broker likes, looked at on the network thread.                           *)

MakeToken(m) ==
    /\ status[m] = "unsent" /\ ~Wiped
    /\ \E p \in 1 .. pin, s \in now - Skew .. now + Skew : token' = [token EXCEPT ![m] = <<p, s>>]
    /\ sentAt' = [sentAt EXCEPT ![m] = now]
    /\ Is(m, "sent")
    /\ UNCHANGED <<netMsg, netPin, codeVars, settingVars, phaseVars, smsVars>>

(* own_pin reads the database.  The topic is asked for while the phase      *)
(* starts ...                                                               *)
OnMqttCommand(m) ==
    /\ phase \in {"starting", "serving"} /\ netMsg = Nil /\ status[m] = "sent"
    /\ netMsg' = m /\ netPin' = pin
    /\ Is(m, "verify")
    /\ UNCHANGED <<token, sentAt, codeVars, settingVars, phaseVars, smsVars>>

(* Mutant: a token of any earlier time step is accepted. *)
AnyBucket(s) == s <= now + 1

(* HMAC_WINDOW *)
InWindow(s) == s \in now - 1 .. now + 1

(* ... verify_command_token tries the PIN with three time steps. *)
VerifyToken ==
    /\ netMsg # Nil
    /\ IF netPin # 0 /\ token[netMsg][1] = netPin /\ InWindow(token[netMsg][2])
       THEN Is(netMsg, "queued")
       ELSE Is(netMsg, "refused")
    /\ netMsg' = Nil /\ netPin' = 0
    /\ token' = [token EXCEPT ![netMsg] = <<0, 0>>]
    /\ sentAt' = [sentAt EXCEPT ![netMsg] = 0]
    /\ UNCHANGED <<codeVars, settingVars, phaseVars, smsVars>>

(* _do_delete: everything under the home directory, the database with it;   *)
(* the next connection makes a new one with nothing in it.                  *)
Wipe(m) ==
    /\ m \in Wipes /\ status[m] = "queued" /\ enabled
    /\ secret' = 0 /\ batch' = 0 /\ spare' = {} /\ pin' = 0
    /\ whitelist' = {} /\ enabled' = FALSE /\ generation' = 0 /\ unbumped' = FALSE
    /\ Is(m, "wiped")
    /\ UNCHANGED <<now, saves, phaseVars, smsVars, mqttVars>>

-----------------------------------------------------------------------------
LoopStep == ReadGeneration \/ StartListeners \/ Rebuild \/ Consume \/ Submit

AuthNext ==
    \/ Tick \/ RotateSecret \/ Regenerate \/ ChangePin \/ Save \/ Bump
    \/ LoopStep \/ VerifyToken \/ Die
    \/ \E t \in Texts : Missed(t) \/ \E n \in Numbers, c \in Totp \cup Backup : Handle(t, n, c)
    \/ \E m \in Msgs : MakeToken(m) \/ OnMqttCommand(m) \/ Wipe(m)

AuthSpec == AuthInit /\ [][AuthNext]_authVars

-----------------------------------------------------------------------------
(* Properties. *)

(* The code of an accepted SMS was, when its handler began, of the newest   *)
(* secret and time or of the newest batch, and no SMS had been accepted     *)
(* with that backup code, whatever the app renews and a DELETE removes      *)
(* between the two looks at the database (tokens.verify_sms_code).          *)
AcceptedCodesWereGood == handling # Nil /\ status[handling] = "authorized" => good

(* A backup code buys one command: none is used up but by a command that    *)
(* was accepted (a switched off feature or a foreign sender costs none,     *)
(* sms_authorize: "no code consumed"), and none is used for two.            *)
CodesBuyCommands ==
    /\ BatchOf(batch) \ spare \subseteq
           {paid[t] : t \in {u \in Texts : status[u] \in {"authorized", "queued", "lost"}}}
    /\ \A s, t \in Texts : s # t /\ paid[s] # Nil => paid[s] # paid[t]

(* A phase that echoes the current generation goes by the current white     *)
(* list: the Settings page may show the save as applied (main: "Read the    *)
(* generation before the settings below").                                  *)
ListIsCurrent ==
    phase = "serving" /\ phaseGen = generation /\ ~unbumped /\ ~Wiped => snapshot = whitelist

(* However long a broker keeps a command back, it is accepted only within   *)
(* the window and the error of the sender's clock: a LOCK found hours later *)
(* does nothing (tokens.py: "only valid for a short time window").          *)
TokensExpire ==
    [][\A m \in Msgs : status[m] = "verify" /\ status'[m] = "queued"
            => now - sentAt[m] <= 1 + Skew]_authVars
=============================================================================
