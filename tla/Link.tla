-------------------------------- MODULE Link --------------------------------
(***************************************************************************)
(* The wifi station: the hunt for the access point's channel, open         *)
(* authentication, association, the four-way and the group handshake, the  *)
(* keys in the MAC (device/wifi/wifi_ap_scan.c, wifi_sta.c, wifi_wpa.c,    *)
(* wifi_ccmp.c) and the servicer loop that drives them (wifi_rx.c).        *)
(*                                                                         *)
(* Times are ages counted in retry periods and capped where the code stops *)
(* telling them apart.  A nonce is a number, a key the pair of the nonces  *)
(* it is derived from.  The access point and the air are external.  An     *)
(* access point repeats what is not answered once per unit of time and     *)
(* gives up after MaxTry repetitions.  Everything that goes wrong (a lost  *)
(* frame, one that takes longer than a retry period, an access point that  *)
(* refuses a request, forgets the station, moves or begins its handshake   *)
(* anew) is a fault, and there are MaxFaults of them.                      *)
(***************************************************************************)
EXTENDS Integers, Sequences

CONSTANTS
    Retry,      \* RETRY_PERIOD
    BeaconLoss, \* BEACON_LOSS
    WpaStall,   \* WPA_STALL
    Channels,   \* the channels are 1 .. Channels
    Nonces,     \* the numbers of the nonces are 1 .. Nonces, used in turn
    MaxTry,     \* repetitions of an unanswered handshake message
    MaxFaults

ASSUME LinkAssumption ==
    /\ {Retry, BeaconLoss, WpaStall, Channels, Nonces, MaxTry} \subseteq Nat \ {0}
    /\ Retry < BeaconLoss /\ BeaconLoss < WpaStall
    /\ MaxFaults \in Nat

VARIABLES
    sta,    \* wifi_sta_state
    wpa,    \* wpa_state
    hs,     \* the handshake's memory: snonce, ptk, wpa_gtk
    mac,    \* the MAC: the enabled pairwise key, the enabled group key
    chan,   \* wifi_target_channel, wifi_locked_channel, ch, the tuned channel
    age,    \* ticks() less last_heard, last_tx, run_since and last
    ap, toAp, toSta, faults

staVars == <<sta, wpa, hs, mac, chan, age>>
vars == <<sta, wpa, hs, mac, chan, age, ap, toAp, toSta, faults>>

Nonce == 0 .. Nonces
NoKey == <<0, 0>>
Key == Nonce \X Nonce
NextNonce_Unreduced(n) == n + 1
NextNonce(n) == (n % Nonces) + 1
AtMost(n, bound) == IF n < bound THEN n ELSE bound

\* What is sent: kind, a number (nonce, group key or channel), the key of its
\* MIC and the key it is encrypted under.  A reply's number says which message
\* it answers, as the replay counter it echoes does.
Frame(kind, n, mic, enc) == [kind |-> kind, n |-> n, mic |-> mic, enc |-> enc]
Mgmt(kind) == Frame(kind, 0, NoKey, NoKey)
Kind == {"beacon", "auth", "assoc", "refused", "deauth",
         "m1", "m2", "m3", "m4", "g1", "g2", "data"}

Up == sta = "RUN" /\ wpa = "DONE"

(***************************************************************************)
(* The station.                                                            *)
(***************************************************************************)
Init ==
    /\ sta = "INIT" /\ wpa = "IDLE"
    /\ hs = [snonce |-> 0, ptk |-> NoKey, gtk |-> 0]
    /\ mac = [tk |-> NoKey, gtk |-> 0]
    /\ chan = [target |-> 0, locked |-> 0, ch |-> 1, tuned |-> 1]
    /\ age = [heard |-> BeaconLoss, sent |-> Retry, ran |-> WpaStall, dwell |-> 0]
    /\ ap = [st |-> "idle", chan |-> Channels, anonce |-> 0, key |-> NoKey, gtk |-> 1, try |-> 0]
    /\ toAp = <<>> /\ toSta = <<>>
    /\ faults = 0

clear_keys == mac' = [tk |-> NoKey, gtk |-> 0]

link_down_Unreset(rescan, heard) ==
    /\ clear_keys
    /\ sta' = IF rescan THEN "INIT" ELSE "AUTH"
    /\ chan' = IF rescan THEN [chan EXCEPT !.target = 0, !.locked = 0] ELSE chan
    /\ age' = [age EXCEPT !.heard = heard, !.sent = IF rescan THEN @ ELSE Retry]
    /\ UNCHANGED <<hs, wpa>>

\* wifi_ccmp_clear_keys, then wpa_reset; heard is the age of last_heard.
link_down(rescan, heard) ==
    /\ clear_keys
    /\ wpa' = "IDLE"
    /\ sta' = IF rescan THEN "INIT" ELSE "AUTH"
    /\ chan' = IF rescan THEN [chan EXCEPT !.target = 0, !.locked = 0] ELSE chan
    /\ age' = [age EXCEPT !.heard = heard, !.sent = IF rescan THEN @ ELSE Retry]
    /\ UNCHANGED hs

Transmit(f) == toAp' = Append(toAp, f)

\* An unprotected frame to the access point is encrypted too once a pairwise
\* key is enabled.
send_eapol(kind, n, mic) == Frame(kind, n, mic, mac.tk)

MustLock == sta = "INIT" /\ chan.target > 0
MustRescan == sta # "INIT" /\ age.heard = BeaconLoss
MustRepeat == sta \in {"AUTH", "ASSOC"} /\ ~MustRescan /\ age.sent >= Retry
MustRestart == sta = "RUN" /\ ~MustRescan /\ wpa # "DONE" /\ age.ran >= WpaStall
\* Without a lock, and none to come, the servicer hops once a dwell.
MustHop == chan.locked = 0 /\ ~MustLock /\ age.dwell = 1

TickInit ==
    /\ MustLock
    /\ chan' = [chan EXCEPT !.locked = chan.target, !.tuned = chan.target]
    /\ sta' = "AUTH"
    /\ age' = [age EXCEPT !.sent = Retry]
    /\ UNCHANGED <<wpa, hs, mac, toAp>>

TickLost ==
    /\ MustRescan
    /\ link_down(TRUE, age.heard)
    /\ UNCHANGED toAp

TickRepeat ==
    /\ MustRepeat
    /\ age' = [age EXCEPT !.sent = 0]
    /\ Transmit(Mgmt(IF sta = "AUTH" THEN "auth" ELSE "assoc"))
    /\ UNCHANGED <<sta, wpa, hs, mac, chan>>

TickStalled ==
    /\ MustRestart
    /\ link_down(FALSE, age.heard)
    /\ UNCHANGED toAp

wifi_station_tick == TickInit \/ TickLost \/ TickRepeat \/ TickStalled

Hop ==
    /\ MustHop
    /\ LET next == (chan.ch % Channels) + 1
       IN  chan' = [chan EXCEPT !.ch = next, !.tuned = next]
    /\ age' = [age EXCEPT !.dwell = 0]
    /\ UNCHANGED <<sta, wpa, hs, mac, toAp>>

\* The ring of received frames is emptied before the state machine runs.
Turn ==
    /\ toSta = <<>>
    /\ wifi_station_tick \/ Hop
    /\ UNCHANGED <<ap, toSta, faults>>

Heard == age' = [age EXCEPT !.heard = 0]
Stays(kept) == Heard /\ UNCHANGED kept

wifi_ap_observe(f) ==
    /\ f.kind = "beacon"
    /\ chan' = [chan EXCEPT !.target = f.n]
    /\ Stays(<<sta, wpa, hs, mac, toAp>>)

\* Wrong: a deauthentication counts only while the station is joining.
InputDeauth_Joining(f) ==
    /\ f.kind = "deauth"
    /\ UNCHANGED toAp
    /\ IF sta \in {"AUTH", "ASSOC"} THEN link_down(FALSE, 0)
                                   ELSE Stays(<<sta, wpa, hs, mac, chan>>)

InputDeauth(f) ==
    /\ f.kind = "deauth"
    /\ UNCHANGED toAp
    /\ IF sta # "INIT" THEN link_down(FALSE, 0) ELSE Stays(<<sta, wpa, hs, mac, chan>>)

InputAuth(f) ==
    /\ f.kind = "auth"
    /\ IF sta = "AUTH"
       THEN sta' = "ASSOC" /\ age' = [age EXCEPT !.heard = 0, !.sent = Retry]
       ELSE Stays(sta)
    /\ UNCHANGED <<wpa, hs, mac, chan, toAp>>

\* wpa_begin arms the handshake with a fresh snonce, from IDLE only.
wpa_begin ==
    IF wpa = "IDLE"
    THEN wpa' = "WAIT_M1" /\ hs' = [hs EXCEPT !.snonce = NextNonce(@)]
    ELSE UNCHANGED <<wpa, hs>>

InputAssoc(f) ==
    /\ f.kind = "assoc"
    /\ IF sta = "ASSOC"
       THEN sta' = "RUN" /\ age' = [age EXCEPT !.heard = 0, !.ran = 0] /\ wpa_begin
       ELSE Stays(<<sta, wpa, hs>>)
    /\ UNCHANGED <<mac, chan, toAp>>

wifi_sta_input(f) == InputDeauth(f) \/ InputAuth(f) \/ InputAssoc(f)

\* wifi_ccmp_install_keys and wifi_ccmp_install_gtk write the slots of the MAC.
install_keys(tk, gtk) == mac' = [tk |-> tk, gtk |-> gtk]
install_gtk(gtk) == mac' = [mac EXCEPT !.gtk = gtk]

derive_ptk(anonce) == <<anonce, hs.snonce>>
mic_ok(f) == f.mic = hs.ptk
extract_gtk(f) == f.n

\* Message 2 answers under the new key before the state changes.
handle_m1(f) ==
    LET ptk == derive_ptk(f.n)
    IN  /\ hs' = [hs EXCEPT !.ptk = ptk]
        /\ Transmit(send_eapol("m2", hs.snonce, ptk))
        /\ wpa' = "WAIT_M3"
        /\ Stays(<<sta, mac, chan>>)

\* The four copies of message 4 are one frame of this model's air.
handle_m3(f) ==
    /\ mic_ok(f)
    /\ hs' = [hs EXCEPT !.gtk = extract_gtk(f)]
    /\ IF wpa # "DONE"
       THEN /\ Transmit(send_eapol("m4", 0, hs.ptk))
            /\ install_keys(hs.ptk, extract_gtk(f))
            /\ wpa' = "DONE"
       ELSE UNCHANGED <<toAp, mac, wpa>>
    /\ Stays(<<sta, chan>>)

\* A protected frame does not show its ethertype where find_eapol looks.
find_eapol(f) == f.kind \in {"m1", "m3", "g1"} /\ f.enc = NoKey
EapolM1(f) == find_eapol(f) /\ f.kind = "m1" /\ wpa # "IDLE"
EapolM3(f) == find_eapol(f) /\ f.kind = "m3" /\ wpa \notin {"IDLE", "WAIT_M1"}

wifi_wpa_input(f) ==
    \/ EapolM1(f) /\ handle_m1(f)
    \/ EapolM3(f) /\ handle_m3(f)

\* A protected frame reaches wifi_wpa_eapol through wifi_ccmp_rx; one the MAC
\* has not decrypted is not recognised.
wifi_ccmp_rx(f) == f.enc # NoKey /\ f.enc = mac.tk

handle_group_m1_Kept(f) ==
    /\ mic_ok(f)
    /\ hs' = [hs EXCEPT !.gtk = extract_gtk(f)]
    /\ Transmit(send_eapol("g2", f.n, hs.ptk))
    /\ Stays(<<sta, wpa, mac, chan>>)

handle_group_m1(f) ==
    /\ mic_ok(f)
    /\ hs' = [hs EXCEPT !.gtk = extract_gtk(f)]
    /\ install_gtk(extract_gtk(f))
    /\ Transmit(send_eapol("g2", f.n, hs.ptk))
    /\ Stays(<<sta, wpa, chan>>)

wifi_wpa_eapol(f) ==
    /\ f.kind = "g1" /\ wifi_ccmp_rx(f) /\ wpa = "DONE"
    /\ handle_group_m1(f)

\* A refused request is repeated as a lost one is (status # 0 in an answer).
Ignored(f) ==
    /\ f.kind \in {"m1", "m3", "g1", "refused"}
    /\ ~EapolM1(f)
    /\ ~(EapolM3(f) /\ mic_ok(f))
    /\ ~(f.kind = "g1" /\ wifi_ccmp_rx(f) /\ wpa = "DONE" /\ mic_ok(f))
    /\ Stays(<<sta, wpa, hs, mac, chan, toAp>>)

rx_dump ==
    /\ toSta # <<>>
    /\ LET f == Head(toSta)
       IN  \/ wifi_ap_observe(f) \/ wifi_sta_input(f)
           \/ wifi_wpa_input(f) \/ wifi_wpa_eapol(f) \/ Ignored(f)
    /\ toSta' = Tail(toSta)
    /\ UNCHANGED <<ap, faults>>

\* A process sends a packet over a link it found up.
wifi_ccmp_tx ==
    /\ Up /\ toAp = <<>> /\ toSta = <<>>
    /\ Transmit(Frame("data", 0, NoKey, mac.tk))
    /\ UNCHANGED <<sta, wpa, hs, mac, chan, age, ap, toSta, faults>>

(***************************************************************************)
(* The access point, the air and time.                                     *)
(***************************************************************************)
Readable(f) == f.enc = IF ap.st \in {"done", "rekey"} THEN ap.key ELSE NoKey

\* What reaches the station's radio.
Sent(fs) == toSta' = IF chan.tuned = ap.chan THEN toSta \o fs ELSE toSta

M1(nonce) == Frame("m1", nonce, NoKey, NoKey)
M3(key) == Frame("m3", ap.gtk, key, NoKey)
G1 == Frame("g1", ap.gtk, ap.key, ap.key)

ApAuth(f) ==
    /\ f.kind = "auth"
    /\ ap' = [ap EXCEPT !.st = "auth", !.key = NoKey]
    /\ Sent(<<Mgmt("auth")>>)

ApAssoc(f) ==
    /\ f.kind = "assoc"
    /\ IF ap.st = "idle"
       THEN Sent(<<Mgmt("deauth")>>) /\ UNCHANGED ap
       ELSE LET nonce == NextNonce(ap.anonce)
            IN  /\ ap' = [ap EXCEPT !.st = "m1", !.key = NoKey, !.anonce = nonce, !.try = 0]
                /\ Sent(<<Mgmt("assoc"), M1(nonce)>>)

ApM2(f) ==
    /\ f.kind = "m2" /\ Readable(f)
    /\ ap.st = "m1" /\ f.mic = <<ap.anonce, f.n>>
    /\ ap' = [ap EXCEPT !.st = "m3", !.key = f.mic, !.try = 0]
    /\ Sent(<<M3(f.mic)>>)

ApAnswered(f) ==
    /\ Readable(f) /\ f.mic = ap.key
    /\ \/ f.kind = "m4" /\ ap.st = "m3"
       \/ f.kind = "g2" /\ ap.st = "rekey" /\ f.n = ap.gtk
    /\ ap' = [ap EXCEPT !.st = "done", !.try = 0]
    /\ UNCHANGED toSta

\* A frame that is not understood; one of a station the access point does not
\* know is answered with a deauthentication.
ApIgnores(f) ==
    /\ f.kind \in {"m2", "m4", "g2", "data"}
    /\ ~(f.kind = "m2" /\ Readable(f) /\ ap.st = "m1" /\ f.mic = <<ap.anonce, f.n>>)
    /\ ~(f.kind = "m4" /\ Readable(f) /\ ap.st = "m3" /\ f.mic = ap.key)
    /\ ~(f.kind = "g2" /\ Readable(f) /\ ap.st = "rekey" /\ f.mic = ap.key /\ f.n = ap.gtk)
    /\ Sent(IF ap.st = "idle" THEN <<Mgmt("deauth")>> ELSE <<>>)
    /\ UNCHANGED ap

ApReceive ==
    /\ toAp # <<>>
    /\ toAp' = Tail(toAp)
    /\ IF chan.tuned = ap.chan
       THEN LET f == Head(toAp)
            IN  ApAuth(f) \/ ApAssoc(f) \/ ApM2(f) \/ ApAnswered(f) \/ ApIgnores(f)
       ELSE UNCHANGED <<ap, toSta>>
    /\ UNCHANGED <<staVars, faults>>

\* What the access point sends when a unit of time has passed: a beacon, and
\* again what was not answered, or a deauthentication when it gives up.
Unanswered == CASE ap.st = "m1"    -> <<M1(ap.anonce)>>
                [] ap.st = "m3"    -> <<M3(ap.key)>>
                [] ap.st = "rekey" -> <<G1>>
                [] OTHER           -> <<>>

ApTick ==
    LET beacon == <<Frame("beacon", ap.chan, NoKey, NoKey)>>
    IN  IF Unanswered # <<>> /\ ap.try = MaxTry
        THEN /\ ap' = [ap EXCEPT !.st = "idle", !.key = NoKey, !.try = 0]
             /\ Sent(beacon \o <<Mgmt("deauth")>>)
        ELSE /\ ap' = [ap EXCEPT !.try = IF Unanswered = <<>> THEN 0 ELSE @ + 1]
             /\ Sent(beacon \o Unanswered)

Busy == toAp # <<>> \/ toSta # <<>> \/ MustLock \/ MustRescan \/ MustRepeat \/ MustRestart

\* A unit of time passes; it is a fault when something was still to be done.
Tick ==
    /\ faults + (IF Busy THEN 1 ELSE 0) <= MaxFaults
    /\ faults' = faults + (IF Busy THEN 1 ELSE 0)
    /\ age' = [heard |-> AtMost(age.heard + 1, BeaconLoss), sent |-> AtMost(age.sent + 1, Retry),
               ran |-> AtMost(age.ran + 1, WpaStall), dwell |-> 1]
    /\ ApTick
    /\ UNCHANGED <<sta, wpa, hs, mac, chan, toAp>>

Restarted(nonce) == [ap EXCEPT !.st = "m1", !.key = NoKey, !.anonce = nonce, !.try = 0]
Forgotten == [ap EXCEPT !.st = "idle", !.key = NoKey, !.try = 0]

Lose ==
    \/ toSta # <<>> /\ toSta' = Tail(toSta) /\ UNCHANGED <<ap, toAp>>
    \/ toAp # <<>> /\ toAp' = Tail(toAp) /\ UNCHANGED <<ap, toSta>>

\* A request is answered with a status that is not zero.
Refuse ==
    /\ toAp # <<>> /\ Head(toAp).kind \in {"auth", "assoc"} /\ chan.tuned = ap.chan
    /\ toAp' = Tail(toAp)
    /\ toSta' = Append(toSta, Mgmt("refused"))
    /\ UNCHANGED ap

Forget == ap' = Forgotten /\ UNCHANGED <<toAp, toSta>>

Move ==
    /\ \E c \in 1 .. Channels \ {ap.chan} : ap' = [Forgotten EXCEPT !.chan = c]
    /\ UNCHANGED <<toAp, toSta>>

\* The access point drops its handshake and begins another, in the clear.
BeginAnew ==
    /\ ap.st \in {"m1", "m3"}
    /\ LET nonce == NextNonce(ap.anonce)
       IN  ap' = Restarted(nonce) /\ Sent(<<M1(nonce)>>)
    /\ UNCHANGED toAp

\* Not a fault, but as rare.
Rekey ==
    /\ ap.st = "done" /\ toAp = <<>>
    /\ LET gtk == NextNonce(ap.gtk)
       IN  /\ ap' = [ap EXCEPT !.st = "rekey", !.gtk = gtk, !.try = 0]
           /\ toSta' = Append(toSta, Frame("g1", gtk, ap.key, ap.key))
    /\ UNCHANGED toAp

Rare(A) == faults < MaxFaults /\ faults' = faults + 1 /\ A /\ UNCHANGED staVars

Next ==
    \/ Turn \/ rx_dump \/ wifi_ccmp_tx \/ ApReceive \/ Tick
    \/ Rare(Lose) \/ Rare(Refuse) \/ Rare(Forget) \/ Rare(Move)
    \/ Rare(BeginAnew) \/ Rare(Rekey)

Spec == Init /\ [][Next]_vars
\* The servicer runs, the air carries what is on it and time passes. That a
\* process sends is nobody's promise: the station has no keepalive.
FairSpec == Spec /\ WF_vars(Turn) /\ WF_vars(rx_dump) /\ WF_vars(ApReceive)
                 /\ SF_vars(Tick)

(***************************************************************************)
(* What a reader relies on.                                                *)
(***************************************************************************)
\* Types of the station's variables, of the access point's and of the air.
TypeOK ==
    /\ sta \in {"INIT", "AUTH", "ASSOC", "RUN"}
    /\ wpa \in {"IDLE", "WAIT_M1", "WAIT_M3", "DONE"}
    /\ hs \in [snonce : Nonce, ptk : Key, gtk : Nonce]
    /\ mac \in [tk : Key, gtk : Nonce]
    /\ chan \in [target : 0 .. Channels, locked : 0 .. Channels, ch : 1 .. Channels, tuned : 1 .. Channels]
    /\ age \in [heard : 0 .. BeaconLoss, sent : 0 .. Retry, ran : 0 .. WpaStall, dwell : 0 .. 1]
    /\ ap \in [st : {"idle", "auth", "m1", "m3", "done", "rekey"}, chan : 1 .. Channels,
               anonce : Nonce, key : Key, gtk : Nonce, try : 0 .. MaxTry]
    /\ toAp \in Seq([kind : Kind, n : Nat, mic : Key, enc : Key])
    /\ toSta \in Seq([kind : Kind, n : Nat, mic : Key, enc : Key])
    /\ faults \in 0 .. MaxFaults

\* When both ends believe that the handshakes are over, the MAC holds the
\* pairwise and the group key of the access point: a message 3 or a group
\* message of an association that is gone must not be taken for one of this
\* (wifi_wpa_input, handle_m3, handle_group_m1).
KeysAgree == Up /\ ap.st = "done" => mac = [tk |-> ap.key, gtk |-> ap.gtk]

\* net_send looks at wpa_state alone: in DONE the station is associated, on
\* a locked channel it is tuned to, with its key enabled, after any order of
\* deauthentications, beacon losses and stalls (link_down, wpa_reset).
DoneIsKeyed ==
    wpa = "DONE" => /\ sta = "RUN" /\ mac.tk # NoKey
                    /\ chan.locked # 0 /\ chan.tuned = chan.locked

\* The station leaves AUTH, ASSOC and an unfinished handshake by itself:
\* whatever was lost, delayed or refused, in the end it is up and stays up
\* (wifi_station_tick: the retries, BEACON_LOSS and the WPA_STALL restart).
StationUp == <>[]Up

\* Packets go on being sent over a link that keeps coming up.
Traffic == []<>Up => []<><<wifi_ccmp_tx>>_vars

\* The station comes back by itself, and the link with it as long as something is sent over it: an access
\* point that forgets a station without a word, beaconing on, is found out by
\* the deauthentication that answers a packet and by nothing else, since
\* STA_RUN sends nothing of its own in WPA_DONE (wifi_station_tick).
LinkUp == StationUp /\ (Traffic => <>[](ap.st = "done"))
=============================================================================
