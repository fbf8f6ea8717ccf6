----------------------------- MODULE LinkProofs -----------------------------
(* Theorems about the station for any number of channels, nonces, periods,  *)
(* repetitions and faults.                                                  *)
EXTENDS Link, SequenceTheorems, TLAPS

\* A beacon carries its channel, a message of a handshake its nonce or key.
Frames ==
    {f \in [kind : Kind, n : Nat, mic : Key, enc : Key] :
        /\ f.kind = "beacon" => f.n \in 1 .. Channels
        /\ f.kind \in {"m1", "m3", "g1"} => f.n \in Nonce}

Age == [heard : 0 .. BeaconLoss, sent : 0 .. Retry, ran : 0 .. WpaStall, dwell : 0 .. 1]
Tuning == [target : 0 .. Channels, locked : 0 .. Channels, ch : 1 .. Channels, tuned : 1 .. Channels]

StaOK ==
    /\ sta \in {"INIT", "AUTH", "ASSOC", "RUN"}
    /\ wpa \in {"IDLE", "WAIT_M1", "WAIT_M3", "DONE"}
    /\ hs \in [snonce : Nonce, ptk : Key, gtk : Nonce]
    /\ mac \in [tk : Key, gtk : Nonce]
    /\ chan \in Tuning
    /\ age \in Age

AccessPoint ==
    [st : {"idle", "auth", "m1", "m3", "done", "rekey"}, chan : 1 .. Channels,
     anonce : Nonce, key : Key, gtk : Nonce, try : 0 .. MaxTry]
ApOK == ap \in AccessPoint

AirOK == toAp \in Seq(Frames) /\ toSta \in Seq(Frames)

\* A station with a lock is tuned to it; a handshake belongs to an association;
\* the key it derives is not the one of an empty slot.
Joined ==
    /\ sta # "INIT" => chan.locked # 0 /\ chan.tuned = chan.locked
    /\ wpa # "IDLE" => sta = "RUN" /\ hs.snonce # 0
    /\ wpa \in {"WAIT_M3", "DONE"} => hs.ptk # NoKey
    /\ wpa = "DONE" => mac.tk # NoKey

LinkInv == StaOK /\ ApOK /\ AirOK /\ faults \in 0 .. MaxFaults /\ Joined

-----------------------------------------------------------------------------
(* The numbers and frames the actions build.                                *)

LEMMA Sizes ==
    /\ Retry \in Nat \ {0} /\ BeaconLoss \in Nat \ {0} /\ WpaStall \in Nat \ {0}
    /\ Channels \in Nat \ {0} /\ Nonces \in Nat \ {0} /\ MaxTry \in Nat \ {0}
    /\ MaxFaults \in Nat
BY LinkAssumption

LEMMA NoKeyType == NoKey \in Key /\ 0 \in Nonce /\ Nonce \subseteq Nat
BY Sizes DEF NoKey, Key, Nonce

LEMMA NextNonceType ==
    ASSUME NEW n \in Nonce
    PROVE  NextNonce(n) \in Nonce /\ NextNonce(n) # 0
<1>1. Nonces \in Nat \ {0} /\ n \in Nat
  BY Sizes DEF Nonce
<1>2. n % Nonces \in 0 .. Nonces - 1
  BY <1>1
<1> QED
  BY <1>1, <1>2 DEF NextNonce, Nonce

LEMMA FrameType ==
    ASSUME NEW kind \in Kind, NEW n \in Nat, NEW mic \in Key, NEW enc \in Key,
           kind = "beacon" => n \in 1 .. Channels,
           kind \in {"m1", "m3", "g1"} => n \in Nonce
    PROVE  Frame(kind, n, mic, enc) \in Frames
BY DEF Frame, Frames

LEMMA MgmtType ==
    ASSUME NEW kind \in {"auth", "assoc", "refused", "deauth"}
    PROVE  Mgmt(kind) \in Frames
BY NoKeyType, FrameType DEF Mgmt, Kind

LEMMA TransmitType ==
    ASSUME AirOK, NEW f \in Frames, Transmit(f)
    PROVE  toAp' \in Seq(Frames)
BY DEF Transmit, AirOK

LEMMA SentType ==
    ASSUME AirOK, NEW fs \in Seq(Frames), Sent(fs)
    PROVE  toSta' \in Seq(Frames)
BY ConcatProperties DEF Sent, AirOK

LEMMA SentOne ==
    ASSUME AirOK, NEW f \in Frames, Sent(<<f>>)
    PROVE  toSta' \in Seq(Frames)
<1>1. <<f>> \in Seq(Frames)
  OBVIOUS
<1> QED
  BY <1>1, SentType

LEMMA ApFields ==
    ASSUME ApOK
    PROVE  /\ ap.gtk \in Nonce /\ ap.key \in Key /\ ap.anonce \in Nonce
           /\ ap.chan \in 1 .. Channels /\ ap.try \in 0 .. MaxTry
BY DEF ApOK, AccessPoint

LEMMA HandshakeType ==
    ASSUME ApOK
    PROVE  /\ \A nonce \in Nonce : M1(nonce) \in Frames
           /\ \A key \in Key : M3(key) \in Frames
           /\ G1 \in Frames
           /\ Frame("beacon", ap.chan, NoKey, NoKey) \in Frames
           /\ Unanswered \in Seq(Frames)
<1>1. \A nonce \in Nonce : M1(nonce) \in Frames
  BY NoKeyType, FrameType DEF M1, Kind
<1>2. \A key \in Key : M3(key) \in Frames
  BY ApFields, NoKeyType, FrameType DEF M3, Kind
<1>3. G1 \in Frames
  BY ApFields, NoKeyType, FrameType DEF G1, Kind
<1>4. Frame("beacon", ap.chan, NoKey, NoKey) \in Frames
  BY ApFields, Sizes, NoKeyType, FrameType DEF Kind
<1>5. Unanswered \in Seq(Frames)
  BY <1>1, <1>2, <1>3, ApFields DEF Unanswered
<1> QED
  BY <1>1, <1>2, <1>3, <1>4, <1>5

LEMMA HeardAndSent ==
    ASSUME NEW a \in Age, NEW h \in 0 .. BeaconLoss, NEW t \in 0 .. Retry
    PROVE  [a EXCEPT !.heard = h, !.sent = t] \in Age
BY Zenon DEF Age

LEMMA HeardAndRan ==
    ASSUME NEW a \in Age, NEW h \in 0 .. BeaconLoss, NEW r \in 0 .. WpaStall
    PROVE  [a EXCEPT !.heard = h, !.ran = r] \in Age
BY Zenon DEF Age

LEMMA Untargeted ==
    ASSUME NEW c \in Tuning
    PROVE  [c EXCEPT !.target = 0, !.locked = 0] \in Tuning
<1>1. 0 \in 0 .. Channels
  BY Sizes
<1> QED
  BY <1>1, Zenon DEF Tuning

LEMMA Zero == 0 \in 0 .. BeaconLoss /\ Retry \in 0 .. Retry /\ 0 \in 0 .. WpaStall
BY Sizes

-----------------------------------------------------------------------------
(* The station's steps.                                                     *)

LEMMA LinkDownStep ==
    ASSUME StaOK, Joined, NEW rescan \in BOOLEAN, NEW heard \in 0 .. BeaconLoss,
           rescan \/ sta # "INIT", link_down(rescan, heard)
    PROVE  StaOK' /\ Joined'
<1>1. mac' \in [tk : Key, gtk : Nonce] /\ wpa' = "IDLE" /\ UNCHANGED hs
  BY NoKeyType DEF link_down, clear_keys
<1>2. chan' \in Tuning
  <2>1. CASE rescan
    BY <2>1, Untargeted DEF link_down, StaOK
  <2>2. CASE ~rescan
    BY <2>2 DEF link_down, StaOK, Age, Tuning
  <2> QED
    BY <2>1, <2>2
<1>3. age' \in Age
  <2>1. CASE rescan
    <3>1. age' = [age EXCEPT !.heard = heard, !.sent = age.sent] /\ age.sent \in 0 .. Retry
      BY <2>1 DEF link_down, StaOK, Age
    <3> QED
      BY <3>1, Zero, HeardAndSent DEF StaOK
  <2>2. CASE ~rescan
    <3>1. age' = [age EXCEPT !.heard = heard, !.sent = Retry]
      BY <2>2 DEF link_down
    <3> QED
      BY <3>1, Zero, HeardAndSent DEF StaOK
  <2> QED
    BY <2>1, <2>2
<1>4. sta' \in {"INIT", "AUTH"} /\ (sta' = "AUTH" => sta # "INIT" /\ chan' = chan)
  BY DEF link_down
<1>5. StaOK'
  BY <1>1, <1>2, <1>3, <1>4 DEF StaOK, Age, Tuning
<1> QED
  BY <1>1, <1>4, <1>5 DEF Joined

LEMMA TickStep ==
    ASSUME StaOK, AirOK, Joined, wifi_station_tick
    PROVE  StaOK' /\ Joined' /\ toAp' \in Seq(Frames)
<1>1. CASE TickInit
  <2>1. chan.target \in 1 .. Channels
    BY <1>1, Sizes DEF TickInit, MustLock, StaOK, Age, Tuning
  <2>2. chan' \in Tuning
        /\ chan'.locked = chan.target /\ chan'.tuned = chan.target
    BY <1>1, <2>1 DEF TickInit, StaOK, Age, Tuning
  <2>3. age' \in Age
    BY <1>1, Sizes DEF TickInit, StaOK, Age, Tuning
  <2>4. sta = "INIT" /\ sta' = "AUTH" /\ UNCHANGED <<wpa, hs, mac, toAp>>
    BY <1>1 DEF TickInit, MustLock
  <2>5. StaOK'
    BY <2>2, <2>3, <2>4 DEF StaOK, Age, Tuning
  <2> QED
    BY <2>1, <2>2, <2>4, <2>5 DEF Joined, AirOK
<1>2. CASE TickLost
  <2>1. age.heard \in 0 .. BeaconLoss
    BY DEF StaOK, Age, Tuning
  <2> QED
    BY <1>2, <2>1, LinkDownStep DEF TickLost, AirOK
<1>3. CASE TickRepeat
  <2>1. age' \in Age
    BY <1>3, Sizes DEF TickRepeat, StaOK, Age, Tuning
  <2>2. toAp' \in Seq(Frames)
    BY <1>3, MgmtType, TransmitType DEF TickRepeat
  <2>3. UNCHANGED <<sta, wpa, hs, mac, chan>>
    BY <1>3 DEF TickRepeat
  <2> QED
    BY <2>1, <2>2, <2>3 DEF StaOK, Joined, Age, Tuning
<1>4. CASE TickStalled
  <2>1. age.heard \in 0 .. BeaconLoss /\ sta # "INIT"
    BY <1>4 DEF StaOK, TickStalled, MustRestart, Age, Tuning
  <2> QED
    BY <1>4, <2>1, LinkDownStep DEF TickStalled, AirOK
<1> QED
  BY <1>1, <1>2, <1>3, <1>4 DEF wifi_station_tick

LEMMA HopStep ==
    ASSUME StaOK, AirOK, Joined, Hop
    PROVE  StaOK' /\ Joined' /\ toAp' \in Seq(Frames)
<1>1. (chan.ch % Channels) + 1 \in 1 .. Channels
  <2>1. chan.ch \in Nat /\ Channels \in Nat \ {0}
    BY Sizes DEF StaOK, Age, Tuning
  <2> QED
    BY <2>1
<1>2. chan' \in Tuning
      /\ chan'.locked = chan.locked /\ chan.locked = 0
  BY <1>1 DEF Hop, MustHop, StaOK, Age, Tuning
<1>3. age' \in Age
  BY DEF Hop, StaOK, Age, Tuning
<1>4. UNCHANGED <<sta, wpa, hs, mac, toAp>>
  BY DEF Hop
<1> QED
  BY <1>2, <1>3, <1>4 DEF StaOK, Joined, AirOK, Age, Tuning

LEMMA HeardType ==
    ASSUME StaOK, Heard
    PROVE  age' \in Age
BY Sizes DEF Heard, StaOK, Age

LEMMA ObserveStep ==
    ASSUME StaOK, AirOK, Joined, NEW f \in Frames, wifi_ap_observe(f)
    PROVE  StaOK' /\ Joined' /\ toAp' \in Seq(Frames)
<1>1. f.n \in 1 .. Channels
  BY DEF wifi_ap_observe, Frames
<1>2. chan' \in Tuning
      /\ chan'.locked = chan.locked /\ chan'.tuned = chan.tuned
  BY <1>1 DEF wifi_ap_observe, StaOK, Age, Tuning
<1>3. Heard /\ UNCHANGED <<sta, wpa, hs, mac, toAp>>
  BY DEF wifi_ap_observe, Stays
<1> QED
  BY <1>2, <1>3, HeardType DEF StaOK, Joined, AirOK, Age, Tuning

LEMMA InputStep ==
    ASSUME StaOK, AirOK, Joined, NEW f \in Frames, wifi_sta_input(f)
    PROVE  StaOK' /\ Joined' /\ toAp' \in Seq(Frames)
<1>1. CASE InputDeauth(f)
  <2>1. CASE sta # "INIT"
    <3>1. link_down(FALSE, 0) /\ UNCHANGED toAp
      BY <1>1, <2>1 DEF InputDeauth
    <3> QED
      BY <2>1, <3>1, Zero, LinkDownStep DEF AirOK
  <2>2. CASE sta = "INIT"
    BY <1>1, <2>2, HeardType DEF InputDeauth, Stays, StaOK, Joined, AirOK, Age, Tuning
  <2> QED
    BY <2>1, <2>2
<1>2. CASE InputAuth(f)
  <2>1. age' \in Age
    <3>1. CASE sta = "AUTH"
      <4>1. age' = [age EXCEPT !.heard = 0, !.sent = Retry]
        BY <1>2, <3>1 DEF InputAuth
      <4> QED
        BY <4>1, Zero, HeardAndSent DEF StaOK
    <3>2. CASE sta # "AUTH"
      BY <1>2, <3>2, HeardType DEF InputAuth, Stays
    <3> QED
      BY <3>1, <3>2
  <2>2. sta' = sta \/ (sta = "AUTH" /\ sta' = "ASSOC")
    BY <1>2 DEF InputAuth, Stays
  <2>3. UNCHANGED <<wpa, hs, mac, chan, toAp>>
    BY <1>2 DEF InputAuth
  <2> QED
    BY <2>1, <2>2, <2>3 DEF StaOK, Joined, AirOK, Age, Tuning
<1>3. CASE InputAssoc(f)
  <2>1. UNCHANGED <<mac, chan, toAp>>
    BY <1>3 DEF InputAssoc
  <2>2. CASE sta = "ASSOC"
    <3>1. sta' = "RUN" /\ wpa_begin /\ wpa = "IDLE"
      BY <1>3, <2>2 DEF InputAssoc, Joined
    <3>2. age' \in Age
      <4>1. age' = [age EXCEPT !.heard = 0, !.ran = 0]
        BY <1>3, <2>2 DEF InputAssoc
      <4> QED
        BY <4>1, Zero, HeardAndRan DEF StaOK
    <3>3. wpa' = "WAIT_M1" /\ hs' \in [snonce : Nonce, ptk : Key, gtk : Nonce] /\ hs'.snonce # 0
      BY <3>1, NextNonceType DEF wpa_begin, StaOK, Age, Tuning
    <3> QED
      BY <2>1, <2>2, <3>1, <3>2, <3>3 DEF StaOK, Joined, AirOK, Age, Tuning
  <2>3. CASE sta # "ASSOC"
    BY <1>3, <2>1, <2>3, HeardType DEF InputAssoc, Stays, StaOK, Joined, AirOK, Age, Tuning
  <2> QED
    BY <2>2, <2>3
<1> QED
  BY <1>1, <1>2, <1>3 DEF wifi_sta_input

LEMMA M1Step ==
    ASSUME StaOK, AirOK, Joined, NEW f \in Frames, EapolM1(f), handle_m1(f)
    PROVE  StaOK' /\ Joined' /\ toAp' \in Seq(Frames)
<1>1. f.n \in Nonce /\ wpa # "IDLE"
  BY DEF EapolM1, Frames
<1>2. derive_ptk(f.n) \in Key /\ derive_ptk(f.n) # NoKey
  BY <1>1 DEF derive_ptk, Key, NoKey, StaOK, Joined, Age, Tuning
<1>3. hs' \in [snonce : Nonce, ptk : Key, gtk : Nonce] /\ hs'.ptk # NoKey /\ hs'.snonce = hs.snonce
  BY <1>2 DEF handle_m1, StaOK, Age, Tuning
<1>4. send_eapol("m2", hs.snonce, derive_ptk(f.n)) \in Frames
  BY <1>2, NoKeyType, FrameType DEF send_eapol, Kind, StaOK, Age, Tuning
<1>5. toAp' \in Seq(Frames)
  BY <1>4, TransmitType DEF handle_m1
<1>6. wpa' = "WAIT_M3" /\ Heard /\ UNCHANGED <<sta, mac, chan>>
  BY DEF handle_m1, Stays
<1> QED
  BY <1>1, <1>3, <1>5, <1>6, HeardType DEF StaOK, Joined, Age, Tuning

LEMMA M3Step ==
    ASSUME StaOK, AirOK, Joined, NEW f \in Frames, EapolM3(f), handle_m3(f)
    PROVE  StaOK' /\ Joined' /\ toAp' \in Seq(Frames)
<1>1. f.n \in Nonce /\ wpa \in {"WAIT_M3", "DONE"}
  BY DEF EapolM3, Frames, StaOK, Age, Tuning
<1>2. hs' \in [snonce : Nonce, ptk : Key, gtk : Nonce] /\ hs'.ptk = hs.ptk /\ hs'.snonce = hs.snonce
  BY <1>1 DEF handle_m3, extract_gtk, StaOK, Age, Tuning
<1>3. Heard /\ UNCHANGED <<sta, chan>>
  BY DEF handle_m3, Stays
<1>4. CASE wpa # "DONE"
  <2>1. mac' = [tk |-> hs.ptk, gtk |-> f.n] /\ wpa' = "DONE"
    BY <1>4 DEF handle_m3, install_keys, extract_gtk
  <2>2. mac' \in [tk : Key, gtk : Nonce] /\ mac'.tk # NoKey
    BY <1>1, <2>1 DEF StaOK, Joined, Age, Tuning
  <2>3. send_eapol("m4", 0, hs.ptk) \in Frames
    BY NoKeyType, FrameType DEF send_eapol, Kind, StaOK, Age, Tuning
  <2>4. toAp' \in Seq(Frames)
    BY <1>4, <2>3, TransmitType DEF handle_m3
  <2> QED
    BY <1>1, <1>2, <1>3, <2>1, <2>2, <2>4, HeardType DEF StaOK, Joined, Age, Tuning
<1>5. CASE wpa = "DONE"
  <2>1. UNCHANGED <<toAp, mac, wpa>>
    BY <1>5 DEF handle_m3
  <2> QED
    BY <1>1, <1>2, <1>3, <2>1, HeardType DEF StaOK, Joined, AirOK, Age, Tuning
<1> QED
  BY <1>4, <1>5

LEMMA GroupStep ==
    ASSUME StaOK, AirOK, Joined, NEW f \in Frames, wifi_wpa_eapol(f)
    PROVE  StaOK' /\ Joined' /\ toAp' \in Seq(Frames)
<1>1. f.n \in Nonce /\ handle_group_m1(f)
  BY DEF wifi_wpa_eapol, Frames
<1>2. hs' \in [snonce : Nonce, ptk : Key, gtk : Nonce] /\ hs'.ptk = hs.ptk /\ hs'.snonce = hs.snonce
  BY <1>1 DEF handle_group_m1, extract_gtk, StaOK, Age, Tuning
<1>3. mac' \in [tk : Key, gtk : Nonce] /\ mac'.tk = mac.tk
  BY <1>1 DEF handle_group_m1, install_gtk, extract_gtk, StaOK, Age, Tuning
<1>4. send_eapol("g2", f.n, hs.ptk) \in Frames
  BY <1>1, NoKeyType, FrameType DEF send_eapol, Kind, StaOK, Age, Tuning
<1>5. toAp' \in Seq(Frames)
  BY <1>1, <1>4, TransmitType DEF handle_group_m1
<1>6. Heard /\ UNCHANGED <<sta, wpa, chan>>
  BY <1>1 DEF handle_group_m1, Stays
<1> QED
  BY <1>2, <1>3, <1>5, <1>6, HeardType DEF StaOK, Joined, Age, Tuning

LEMMA RxDumpStep ==
    ASSUME StaOK, AirOK, Joined, rx_dump
    PROVE  StaOK' /\ Joined' /\ AirOK'
<1>1. Head(toSta) \in Frames /\ toSta' \in Seq(Frames)
  BY DEF rx_dump, AirOK
<1>2. StaOK' /\ Joined' /\ toAp' \in Seq(Frames)
  <2> DEFINE f == Head(toSta)
  <2>1. CASE wifi_ap_observe(f)
    BY <1>1, <2>1, ObserveStep
  <2>2. CASE wifi_sta_input(f)
    BY <1>1, <2>2, InputStep
  <2>3. CASE wifi_wpa_input(f)
    BY <1>1, <2>3, M1Step, M3Step DEF wifi_wpa_input
  <2>4. CASE wifi_wpa_eapol(f)
    BY <1>1, <2>4, GroupStep
  <2>5. CASE Ignored(f)
    <3>1. Heard /\ UNCHANGED <<sta, wpa, hs, mac, chan, toAp>>
      BY <2>5 DEF Ignored, Stays
    <3> QED
      BY <3>1, HeardType DEF StaOK, Joined, AirOK, Age, Tuning
  <2> QED
    BY <2>1, <2>2, <2>3, <2>4, <2>5 DEF rx_dump
<1> QED
  BY <1>1, <1>2 DEF AirOK

-----------------------------------------------------------------------------
(* The access point's steps.                                                *)

LEMMA ApChanges ==
    ASSUME ApOK, NEW key \in Key, NEW n \in Nonce, NEW try \in 0 .. MaxTry, NEW c \in 1 .. Channels
    PROVE  /\ [ap EXCEPT !.st = "auth", !.key = key] \in AccessPoint
           /\ [ap EXCEPT !.st = "m1", !.key = key, !.anonce = n, !.try = try] \in AccessPoint
           /\ [ap EXCEPT !.st = "m3", !.key = key, !.try = try] \in AccessPoint
           /\ [ap EXCEPT !.st = "done", !.try = try] \in AccessPoint
           /\ [ap EXCEPT !.st = "idle", !.key = key, !.try = try] \in AccessPoint
           /\ [ap EXCEPT !.st = "rekey", !.gtk = n, !.try = try] \in AccessPoint
           /\ [ap EXCEPT !.try = try] \in AccessPoint
           /\ \A a \in AccessPoint : [a EXCEPT !.chan = c] \in AccessPoint
BY Zenon DEF ApOK, AccessPoint

LEMMA ZeroTry == 0 \in 0 .. MaxTry
BY Sizes

LEMMA RestartType ==
    ASSUME ApOK
    PROVE  Forgotten \in AccessPoint /\ \A nonce \in Nonce : Restarted(nonce) \in AccessPoint
BY ApChanges, NoKeyType, ZeroTry, ApFields DEF Forgotten, Restarted

LEMMA ApReceiveStep ==
    ASSUME ApOK, AirOK, ApReceive
    PROVE  ApOK' /\ AirOK'
<1>1. Head(toAp) \in Frames /\ toAp' \in Seq(Frames)
  BY DEF ApReceive, AirOK
<1>2. CASE chan.tuned # ap.chan
  BY <1>1, <1>2 DEF ApReceive, ApOK, AirOK
<1>3. CASE chan.tuned = ap.chan
  <2> DEFINE f == Head(toAp)
  <2>0. f.mic \in Key /\ ap.chan \in 1 .. Channels
    BY <1>1, ApFields DEF Frames
  <2>1. CASE ApAuth(f)
    <3>1. ap' \in AccessPoint
      BY <2>0, <2>1, ApChanges, NoKeyType, ZeroTry DEF ApAuth
    <3>2. toSta' \in Seq(Frames)
      <4>1. Sent(<<Mgmt("auth")>>) /\ Mgmt("auth") \in Frames
        BY <2>1, MgmtType DEF ApAuth
      <4> QED
        BY <4>1, SentOne
    <3> QED
      BY <1>1, <3>1, <3>2 DEF ApOK, AirOK
  <2>2. CASE ApAssoc(f)
    <3>1. CASE ap.st = "idle"
      <4>1. toSta' \in Seq(Frames) /\ UNCHANGED ap
        <5>1. Sent(<<Mgmt("deauth")>>) /\ UNCHANGED ap /\ Mgmt("deauth") \in Frames
          BY <2>2, <3>1, MgmtType DEF ApAssoc
        <5> QED
          BY <5>1, SentOne
      <4> QED
        BY <1>1, <4>1 DEF ApOK, AirOK
    <3>2. CASE ap.st # "idle"
      <4> DEFINE nonce == NextNonce(ap.anonce)
      <4>1. nonce \in Nonce
        BY ApFields, NextNonceType
      <4>2. ap' = Restarted(nonce) /\ Sent(<<Mgmt("assoc"), M1(nonce)>>)
        BY <2>2, <3>2 DEF ApAssoc, Restarted
      <4>3. <<Mgmt("assoc"), M1(nonce)>> \in Seq(Frames)
        <5>1. Mgmt("assoc") \in Frames /\ M1(nonce) \in Frames
          BY <4>1, MgmtType, HandshakeType
        <5> HIDE DEF nonce
        <5> QED
          BY <5>1
      <4>4. ap' \in AccessPoint
        BY <4>1, <4>2, RestartType
      <4>5. toSta' \in Seq(Frames)
        BY <4>2, <4>3, SentType
      <4> QED
        BY <1>1, <4>4, <4>5 DEF ApOK, AirOK
    <3> QED
      BY <3>1, <3>2
  <2>3. CASE ApM2(f)
    <3>1. ap' \in AccessPoint
      BY <2>0, <2>3, ApChanges, NoKeyType, ZeroTry DEF ApM2
    <3>2. toSta' \in Seq(Frames)
      <4>1. Sent(<<M3(f.mic)>>) /\ M3(f.mic) \in Frames
        BY <2>0, <2>3, HandshakeType DEF ApM2
      <4> QED
        BY <4>1, SentOne
    <3> QED
      BY <1>1, <3>1, <3>2 DEF ApOK, AirOK
  <2>4. CASE ApAnswered(f)
    <3>1. ap' \in AccessPoint /\ UNCHANGED toSta
      BY <2>0, <2>4, ApChanges, NoKeyType, ZeroTry DEF ApAnswered
    <3> QED
      BY <1>1, <3>1 DEF ApOK, AirOK
  <2>5. CASE ApIgnores(f)
    <3>1. UNCHANGED ap
      BY <2>5 DEF ApIgnores
    <3>2. toSta' \in Seq(Frames)
      <4>1. (IF ap.st = "idle" THEN <<Mgmt("deauth")>> ELSE <<>>) \in Seq(Frames)
        BY MgmtType
      <4> QED
        BY <2>5, <4>1, SentType DEF ApIgnores
    <3> QED
      BY <1>1, <3>1, <3>2 DEF ApOK, AirOK
  <2> QED
    BY <1>3, <2>1, <2>2, <2>3, <2>4, <2>5 DEF ApReceive
<1> QED
  BY <1>2, <1>3

LEMMA TickOfTime ==
    ASSUME StaOK, ApOK, AirOK, Joined, faults \in 0 .. MaxFaults, Tick
    PROVE  StaOK' /\ ApOK' /\ AirOK' /\ Joined' /\ faults' \in 0 .. MaxFaults
<1>1. faults' \in 0 .. MaxFaults
  BY Sizes DEF Tick
<1>2. age' \in Age
  <2>1. \A n \in Nat, bound \in Nat : AtMost(n + 1, bound) \in 0 .. bound
    BY DEF AtMost
  <2>2. age.heard \in Nat /\ age.sent \in Nat /\ age.ran \in Nat
    BY DEF StaOK, Age
  <2> QED
    BY <2>1, <2>2, Sizes DEF Tick, Age
<1>3. StaOK' /\ Joined'
  BY <1>2 DEF Tick, StaOK, Joined
<1>4. ApOK' /\ toSta' \in Seq(Frames)
  <2> DEFINE beacon == <<Frame("beacon", ap.chan, NoKey, NoKey)>>
  <2>1. beacon \in Seq(Frames) /\ Unanswered \in Seq(Frames)
    BY HandshakeType
  <2>2. CASE Unanswered # <<>> /\ ap.try = MaxTry
    <3>1. ap' = Forgotten /\ Sent(beacon \o <<Mgmt("deauth")>>)
      BY <2>2 DEF Tick, ApTick, Forgotten
    <3>2. beacon \o <<Mgmt("deauth")>> \in Seq(Frames)
      <4>1. <<Mgmt("deauth")>> \in Seq(Frames)
        BY MgmtType
      <4> QED
        BY <2>1, <4>1, ConcatProperties
    <3> QED
      BY <3>1, <3>2, SentType, RestartType DEF ApOK
  <2>3. CASE ~(Unanswered # <<>> /\ ap.try = MaxTry)
    <3> DEFINE try == IF Unanswered = <<>> THEN 0 ELSE ap.try + 1
    <3>1. ap' = [ap EXCEPT !.try = try] /\ Sent(beacon \o Unanswered)
      BY <2>3 DEF Tick, ApTick
    <3>2. try \in 0 .. MaxTry
      BY <2>3, ApFields, Sizes
    <3>3. ap' \in AccessPoint
      <4> HIDE DEF try
      <4> QED
        BY <3>1, <3>2, NoKeyType, ApFields, ApChanges
    <3>4. beacon \o Unanswered \in Seq(Frames)
      BY <2>1, ConcatProperties
    <3> QED
      BY <3>1, <3>3, <3>4, SentType DEF ApOK
  <2> QED
    BY <2>2, <2>3
<1>5. UNCHANGED toAp
  BY DEF Tick
<1> QED
  BY <1>1, <1>3, <1>4, <1>5 DEF AirOK

LEMMA RareStep ==
    ASSUME ApOK, AirOK, Lose \/ Refuse \/ Forget \/ Move \/ BeginAnew \/ Rekey
    PROVE  ApOK' /\ AirOK'
<1>1. CASE Lose
  <2>1. toSta # <<>> => Tail(toSta) \in Seq(Frames)
    BY DEF AirOK
  <2>2. toAp # <<>> => Tail(toAp) \in Seq(Frames)
    BY DEF AirOK
  <2> QED
    BY <1>1, <2>1, <2>2 DEF Lose, ApOK, AirOK
<1>6. CASE Refuse
  <2>1. Mgmt("refused") \in Frames
    BY MgmtType
  <2>2. toSta' = Append(toSta, Mgmt("refused")) /\ toAp' \in Seq(Frames) /\ UNCHANGED ap
    BY <1>6 DEF Refuse, AirOK
  <2>3. toSta' \in Seq(Frames)
    BY <2>1, <2>2 DEF AirOK
  <2> QED
    BY <2>2, <2>3 DEF ApOK, AirOK
<1>2. CASE Forget
  BY <1>2, RestartType DEF Forget, ApOK, AirOK
<1>3. CASE Move
  <2>1. PICK c \in 1 .. Channels : ap' = [Forgotten EXCEPT !.chan = c]
    BY <1>3 DEF Move
  <2>2. ap' \in AccessPoint
    BY <2>1, RestartType, ApChanges, NoKeyType, ZeroTry
  <2> QED
    BY <1>3, <2>2 DEF Move, ApOK, AirOK
<1>4. CASE BeginAnew
  <2>1. NextNonce(ap.anonce) \in Nonce
    BY ApFields, NextNonceType
  <2>2. ap' \in AccessPoint
    BY <1>4, <2>1, RestartType DEF BeginAnew
  <2>3. Sent(<<M1(NextNonce(ap.anonce))>>) /\ M1(NextNonce(ap.anonce)) \in Frames /\ UNCHANGED toAp
    BY <1>4, <2>1, HandshakeType DEF BeginAnew
  <2> QED
    BY <2>2, <2>3, SentOne DEF ApOK, AirOK
<1>5. CASE Rekey
  <2> DEFINE gtk == NextNonce(ap.gtk)
  <2>1. gtk \in Nonce
    BY ApFields, NextNonceType
  <2>2. ap' \in AccessPoint
    <3>1. ap' = [ap EXCEPT !.st = "rekey", !.gtk = gtk, !.try = 0]
      BY <1>5 DEF Rekey
    <3> HIDE DEF gtk
    <3> QED
      BY <2>1, <3>1, ApChanges, ApFields, NoKeyType, ZeroTry
  <2>3. Frame("g1", gtk, ap.key, ap.key) \in Frames
    BY <2>1, ApFields, NoKeyType, FrameType DEF Kind
  <2>4. toSta' = Append(toSta, Frame("g1", gtk, ap.key, ap.key)) /\ UNCHANGED toAp
    BY <1>5 DEF Rekey
  <2>5. toSta' \in Seq(Frames)
    BY <2>3, <2>4 DEF AirOK
  <2> QED
    BY <2>2, <2>4, <2>5 DEF ApOK, AirOK
<1> QED
  BY <1>1, <1>2, <1>3, <1>4, <1>5, <1>6

-----------------------------------------------------------------------------
(* The invariant.                                                           *)

LEMMA LinkInit ==
    ASSUME Init
    PROVE  LinkInv
<1>1. StaOK
  BY Sizes, NoKeyType DEF Init, StaOK, Age, Tuning
<1>2. ApOK
  BY Sizes, NoKeyType DEF Init, ApOK, AccessPoint, Nonce
<1> QED
  BY <1>1, <1>2, Sizes DEF Init, LinkInv, AirOK, Joined

LEMMA LinkNext ==
    ASSUME LinkInv, [Next]_vars
    PROVE  LinkInv'
<1> USE DEF LinkInv
<1>1. CASE Turn
  <2>1. StaOK' /\ Joined' /\ toAp' \in Seq(Frames)
    BY <1>1, TickStep, HopStep DEF Turn
  <2> QED
    BY <1>1, <2>1 DEF Turn, ApOK, AirOK
<1>2. CASE rx_dump
  BY <1>2, RxDumpStep DEF rx_dump, ApOK
<1>3. CASE wifi_ccmp_tx
  <2>1. Frame("data", 0, NoKey, mac.tk) \in Frames
    BY NoKeyType, FrameType DEF StaOK, Kind
  <2>2. toAp' \in Seq(Frames)
    BY <1>3, <2>1, TransmitType DEF wifi_ccmp_tx
  <2> QED
    BY <1>3, <2>2 DEF wifi_ccmp_tx, StaOK, ApOK, AirOK, Joined
<1>4. CASE ApReceive
  BY <1>4, ApReceiveStep DEF ApReceive, staVars, StaOK, Joined
<1>5. CASE Tick
  BY <1>5, TickOfTime
<1>6. CASE \/ Rare(Lose) \/ Rare(Refuse) \/ Rare(Forget) \/ Rare(Move)
          \/ Rare(BeginAnew) \/ Rare(Rekey)
  <2>1. Lose \/ Refuse \/ Forget \/ Move \/ BeginAnew \/ Rekey
    BY <1>6 DEF Rare
  <2>2. faults' \in 0 .. MaxFaults /\ UNCHANGED staVars
    BY <1>6, Sizes DEF Rare
  <2> QED
    BY <2>1, <2>2, RareStep DEF staVars, StaOK, Joined
<1>7. CASE UNCHANGED vars
  BY <1>7 DEF vars, StaOK, ApOK, AirOK, Joined
<1> QED
  BY <1>1, <1>2, <1>3, <1>4, <1>5, <1>6, <1>7 DEF Next

LEMMA LinkImplies ==
    ASSUME LinkInv
    PROVE  TypeOK /\ DoneIsKeyed
<1>1. Frames \subseteq [kind : Kind, n : Nat, mic : Key, enc : Key]
  BY DEF Frames
<1>2. toAp \in Seq([kind : Kind, n : Nat, mic : Key, enc : Key])
  BY <1>1, SeqMonotonic DEF LinkInv, AirOK
<1>3. toSta \in Seq([kind : Kind, n : Nat, mic : Key, enc : Key])
  BY <1>1, SeqMonotonic DEF LinkInv, AirOK
<1>4. TypeOK
  BY <1>2, <1>3 DEF LinkInv, StaOK, ApOK, AccessPoint, Age, Tuning, TypeOK
<1>5. DoneIsKeyed
  BY DEF LinkInv, StaOK, Joined, DoneIsKeyed
<1> QED
  BY <1>4, <1>5

\* Every value a variable of the station, of the access point or of the air
\* takes has its type; in particular the code's nonces and channels stay in
\* range whatever the order of its steps (wifi_sta.c, wifi_wpa.c).
THEOREM LinkTypes == Spec => []TypeOK
<1>1. Init => LinkInv
  BY LinkInit
<1>2. LinkInv /\ [Next]_vars => LinkInv'
  BY LinkNext
<1>3. LinkInv => TypeOK
  BY LinkImplies
<1> QED
  BY <1>1, <1>2, <1>3, PTL DEF Spec

\* What net_send takes from wpa_state alone: in DONE the station is associated,
\* tuned to the channel it is locked to, and its pairwise key is in the MAC,
\* for any number of channels, periods and faults.  Joined is what makes it
\* inductive: a handshake exists within an association only, and the key it
\* derives contains a nonce of ours that is never zero.
THEOREM DoneStaysKeyed == Spec => []DoneIsKeyed
<1>1. Init => LinkInv
  BY LinkInit
<1>2. LinkInv /\ [Next]_vars => LinkInv'
  BY LinkNext
<1>3. LinkInv => DoneIsKeyed
  BY LinkImplies
<1> QED
  BY <1>1, <1>2, <1>3, PTL DEF Spec

-----------------------------------------------------------------------------
(* The keys of both ends.                                                   *)

\* The frames of a queue; f is before g on it; q1 is what q became when frames
\* of new were added to it, or frames were taken from its head.
OnAir(q) == {q[i] : i \in 1 .. Len(q)}
Before(q, f, g) == \E i, j \in 1 .. Len(q) : i < j /\ q[i] = f /\ q[j] = g
Grown(q, q1, new) ==
    /\ OnAir(q1) \subseteq OnAir(q) \cup new
    /\ \A f, g \in OnAir(q1) :
          Before(q1, f, g) => g \in new \/ (f \in OnAir(q) /\ g \in OnAir(q) /\ Before(q, f, g))

\* A frame that does not lead the station away from key k; a group message
\* under it; the station, if it is keyed at all, has the group key.
Past(f, k) == f.kind # "m1" /\ (f.kind = "m3" => f.mic = k)
Group(f, k) == f.kind = "g1" /\ f.mic = k
HasGroup == wpa = "DONE" => mac.gtk = ap.gtk

\* The station has key k or none, and nothing that is on its way changes that.
Settled(k) ==
    /\ wpa # "WAIT_M3"
    /\ wpa = "DONE" => hs.ptk = k /\ mac.tk = k
    /\ \A f \in OnAir(toSta) : Past(f, k)

\* The access point has sent message 3 under k. Once it is answered, no
\* message 1 can follow that would start the handshake over.
Waiting(k) ==
    /\ \A f \in OnAir(toSta) : f.mic = k => f.kind # "g1" /\ (f.kind = "m3" => f.n = ap.gtk)
    /\ \A f \in OnAir(toAp) : f.mic = k => f.kind # "g2"
    /\ \A f, g \in OnAir(toSta) :
          Before(toSta, f, g) /\ f.kind = "m3" /\ f.mic = k => Past(g, k)
    /\ (\E f \in OnAir(toAp) : f.kind = "m4" /\ f.mic = k) => Settled(k) /\ HasGroup

\* It has been answered.
Agreed(k) ==
    /\ Settled(k) /\ HasGroup
    /\ \A f \in OnAir(toSta) : Group(f, k) => f.n = ap.gtk

\* It has sent a new group key. Those before it on the way are older.
Rekeying(k) ==
    /\ Settled(k)
    /\ \A f, g \in OnAir(toSta) :
          Before(toSta, f, g) /\ Group(f, k) /\ Group(g, k) /\ f.n = ap.gtk => g.n = ap.gtk
    /\ (\E f \in OnAir(toAp) : f.kind = "g2" /\ f.mic = k /\ f.n = ap.gtk) => Agreed(k)

AgreeInv ==
    /\ ap.st = "m3" => Waiting(ap.key)
    /\ ap.st = "done" => Agreed(ap.key)
    /\ ap.st = "rekey" => Rekeying(ap.key)

\* The access point's nonce is not that of a frame that is still on the air.
\* Those of the code are random; those of the model are used in turn.
NoncesFresh ==
    ap.st = "m1" => /\ \A f \in OnAir(toSta) : f.kind \in {"m3", "g1"} => f.mic[1] # ap.anonce
                    /\ \A f \in OnAir(toAp) : f.kind \in {"m4", "g2"} => f.mic[1] # ap.anonce

Keyed == {"m3", "done", "rekey"}

LEMMA SameGrown == ASSUME NEW q PROVE Grown(q, q, {})
BY DEF Grown

LEMMA TailGrown ==
    ASSUME NEW q \in Seq(Frames), q # <<>>
    PROVE  /\ Grown(q, Tail(q), {})
           /\ Head(q) \in OnAir(q)
           /\ \A g \in OnAir(Tail(q)) : g \in OnAir(q) /\ Before(q, Head(q), g)
<1>1. /\ Len(q) \in Nat /\ Len(q) >= 1 /\ Len(Tail(q)) = Len(q) - 1
      /\ \A i \in 1 .. Len(Tail(q)) : Tail(q)[i] = q[i + 1]
      /\ Head(q) = q[1]
  BY HeadTailProperties, EmptySeq, LenProperties
<1>2. \A i \in 1 .. Len(Tail(q)) : i + 1 \in 1 .. Len(q) /\ 1 < i + 1 /\ 1 \in 1 .. Len(q)
  BY <1>1
<1>3. \A g \in OnAir(Tail(q)) : g \in OnAir(q) /\ Before(q, Head(q), g)
  BY <1>1, <1>2 DEF OnAir, Before
<1>4. Head(q) \in OnAir(q)
  BY <1>1 DEF OnAir
<1>5. ASSUME NEW f \in OnAir(Tail(q)), NEW g \in OnAir(Tail(q)), Before(Tail(q), f, g)
      PROVE  Before(q, f, g)
  <2>1. PICK i, j \in 1 .. Len(Tail(q)) : i < j /\ Tail(q)[i] = f /\ Tail(q)[j] = g
    BY <1>5 DEF Before
  <2>2. i + 1 < j + 1 /\ q[i + 1] = f /\ q[j + 1] = g
    BY <1>1, <2>1
  <2> QED
    BY <1>2, <2>2 DEF Before
<1> QED
  BY <1>3, <1>4, <1>5 DEF Grown

LEMMA ConcatGrown ==
    ASSUME NEW q \in Seq(Frames), NEW s \in Seq(Frames)
    PROVE  Grown(q, q \o s, OnAir(s)) /\ OnAir(q \o s) \subseteq OnAir(q) \cup OnAir(s)
<1> DEFINE r == q \o s
<1>1. /\ Len(q) \in Nat /\ Len(s) \in Nat /\ Len(r) = Len(q) + Len(s)
      /\ \A i \in 1 .. Len(r) : r[i] = IF i <= Len(q) THEN q[i] ELSE s[i - Len(q)]
  BY ConcatProperties, LenProperties
<1> HIDE DEF r
<1>2. \A i \in 1 .. Len(r) : \/ i \in 1 .. Len(q) /\ r[i] = q[i]
                             \/ i - Len(q) \in 1 .. Len(s) /\ r[i] = s[i - Len(q)] /\ i > Len(q)
  BY <1>1
<1>3. OnAir(r) \subseteq OnAir(q) \cup OnAir(s)
  BY <1>2 DEF OnAir
<1>4. ASSUME NEW f, NEW g, Before(r, f, g), g \notin OnAir(s)
      PROVE  f \in OnAir(q) /\ g \in OnAir(q) /\ Before(q, f, g)
  <2>1. PICK i, j \in 1 .. Len(r) : i < j /\ r[i] = f /\ r[j] = g
    BY <1>4 DEF Before
  <2>2. j \in 1 .. Len(q) /\ g = q[j]
    BY <1>2, <1>4, <2>1 DEF OnAir
  <2>3. i \in 1 .. Len(q) /\ f = q[i]
    BY <1>1, <1>2, <2>1, <2>2
  <2> QED
    BY <2>1, <2>2, <2>3 DEF OnAir, Before
<1> QED
  BY <1>3, <1>4 DEF Grown, r

LEMMA OneFrame == ASSUME NEW f PROVE OnAir(<<f>>) = {f}
BY DEF OnAir

LEMMA TwoFrames == ASSUME NEW f, NEW g PROVE OnAir(<<f, g>>) = {f, g}
<1>1. Len(<<f, g>>) = 2 /\ 1 .. 2 = {1, 2}
  OBVIOUS
<1> QED
  BY <1>1 DEF OnAir

LEMMA AppendGrown ==
    ASSUME NEW q \in Seq(Frames), NEW f \in Frames
    PROVE  Grown(q, Append(q, f), {f})
<1>1. <<f>> \in Seq(Frames) /\ Append(q, f) = q \o <<f>>
  OBVIOUS
<1>2. Grown(q, q \o <<f>>, OnAir(<<f>>))
  BY <1>1, ConcatGrown
<1> QED
  BY <1>1, <1>2, OneFrame

LEMMA SentGrown ==
    ASSUME AirOK, NEW fs \in Seq(Frames), Sent(fs)
    PROVE  Grown(toSta, toSta', OnAir(fs))
<1>1. Grown(toSta, toSta \o fs, OnAir(fs))
  BY ConcatGrown DEF AirOK
<1>2. Grown(toSta, toSta, OnAir(fs))
  BY DEF Grown
<1> QED
  BY <1>1, <1>2 DEF Sent

LEMMA Elsewhere == ASSUME ap'.st \notin Keyed PROVE AgreeInv'
BY DEF AgreeInv, Keyed

\* What does no harm to an access point with a key: frames of no handshake, and
\* those it repeats; a station that drops its handshake or leaves its keys alone.
Harmless(f) ==
    /\ f.kind # "m1"
    /\ f.kind = "m3" => ap.st = "m3" /\ f.mic = ap.key /\ f.n = ap.gtk
    /\ f.kind = "g1" => ap.st = "rekey" /\ f.n = ap.gtk
Retreats ==
    \/ wpa' \in {"IDLE", "WAIT_M1"}
    \/ wpa' = wpa /\ hs'.ptk = hs.ptk /\ mac' = mac
SameKeys == ap'.st = ap.st /\ ap'.key = ap.key /\ ap'.gtk = ap.gtk

LEMMA RetreatKeeps ==
    ASSUME AgreeInv, NEW new, NEW newAp, SameKeys, Retreats,
           Grown(toSta, toSta', new), ap.st \in Keyed => \A f \in new : Harmless(f),
           Grown(toAp, toAp', newAp), \A f \in newAp : f.kind \notin {"m4", "g2"}
    PROVE  AgreeInv'
<1> DEFINE k == ap.key
<1>1. CASE ap.st \notin Keyed
  BY <1>1, Elsewhere DEF SameKeys
<1>2. CASE ap.st \in Keyed
  <2>1. \A f \in OnAir(toSta') : f \in OnAir(toSta) \/ Harmless(f)
    BY <1>2 DEF Grown
  <2>2. \A f, g \in OnAir(toSta') :
            Before(toSta', f, g) =>
               Harmless(g) \/ (f \in OnAir(toSta) /\ g \in OnAir(toSta) /\ Before(toSta, f, g))
    BY <1>2 DEF Grown
  <2>3. \A f \in OnAir(toAp') : f \in OnAir(toAp) \/ f.kind \notin {"m4", "g2"}
    BY DEF Grown
  <2>4. HasGroup => HasGroup'
    BY DEF HasGroup, Retreats, SameKeys
  <2>5. ASSUME Settled(k) PROVE Settled(k)'
    <3>1. /\ wpa' # "WAIT_M3"
          /\ wpa' = "DONE" => hs'.ptk = k /\ mac'.tk = k
      BY <2>5 DEF Settled, Retreats
    <3>2. \A f \in OnAir(toSta') : Past(f, k)
      BY <2>1, <2>5 DEF Settled, Past, Harmless
    <3>3. k' = k
      BY DEF SameKeys
    <3> HIDE DEF k
    <3> QED
      BY <3>1, <3>2, <3>3 DEF Settled
  <2>6. CASE ap.st = "m3"
    <3>1. Waiting(k)
      BY <2>6 DEF AgreeInv
    <3>2. Waiting(k)'
      <4>1. \A f \in OnAir(toSta') : f.mic = k => f.kind # "g1" /\ (f.kind = "m3" => f.n = ap.gtk)
        BY <2>1, <2>6, <3>1 DEF Waiting, Harmless
      <4>2. \A f \in OnAir(toAp') : f.mic = k => f.kind # "g2"
        BY <2>3, <3>1 DEF Waiting
      <4>3. \A f, g \in OnAir(toSta') :
                Before(toSta', f, g) /\ f.kind = "m3" /\ f.mic = k => Past(g, k)
        BY <2>2, <2>6, <3>1 DEF Waiting, Harmless, Past
      <4>4. (\E f \in OnAir(toAp') : f.kind = "m4" /\ f.mic = k) => Settled(k)' /\ HasGroup'
        BY <2>3, <2>4, <2>5, <3>1 DEF Waiting
      <4>5. k' = k /\ ap.gtk' = ap.gtk
        BY DEF SameKeys
      <4> QED
        BY <4>1, <4>2, <4>3, <4>4, <4>5 DEF Waiting, Past
    <3> QED
      BY <2>6, <3>2 DEF AgreeInv, SameKeys
  <2>7. ASSUME Agreed(k), ap.st # "m3"
        PROVE  /\ Settled(k)' /\ HasGroup'
               /\ \A f \in OnAir(toSta') : Group(f, k) => f.n = ap.gtk
    <3>1. \A f \in OnAir(toSta') : Group(f, k) => f.n = ap.gtk
      BY <2>1, <2>7 DEF Agreed, Harmless, Group
    <3> QED
      BY <2>4, <2>5, <2>7, <3>1 DEF Agreed
  <2>8. CASE ap.st = "done"
    <3>1. Agreed(k)
      BY <2>8 DEF AgreeInv
    <3>2. Agreed(k)'
      BY <2>7, <2>8, <3>1 DEF Agreed, SameKeys, Group
    <3> QED
      BY <2>8, <3>2 DEF AgreeInv, SameKeys
  <2>9. CASE ap.st = "rekey"
    <3>1. Rekeying(k)
      BY <2>9 DEF AgreeInv
    <3>2. Rekeying(k)'
      <4>1. \A f, g \in OnAir(toSta') :
               Before(toSta', f, g) /\ Group(f, k) /\ Group(g, k) /\ f.n = ap.gtk => g.n = ap.gtk
        BY <2>2, <3>1 DEF Rekeying, Harmless, Group
      <4>2. (\E f \in OnAir(toAp') : f.kind = "g2" /\ f.mic = k /\ f.n = ap.gtk) =>
               /\ Settled(k)' /\ HasGroup'
               /\ \A f \in OnAir(toSta') : Group(f, k) => f.n = ap.gtk
        BY <2>3, <2>7, <2>9, <3>1 DEF Rekeying
      <4>3. Settled(k)'
        BY <2>5, <3>1 DEF Rekeying
      <4>4. k' = k /\ ap.gtk' = ap.gtk
        BY DEF SameKeys
      <4> QED
        BY <4>1, <4>2, <4>3, <4>4 DEF Rekeying, Agreed, Group
    <3> QED
      BY <2>9, <3>2 DEF AgreeInv, SameKeys
  <2> QED
    BY <1>2, <2>6, <2>8, <2>9 DEF Keyed
<1> QED
  BY <1>1, <1>2

\* The same, of what the station does in a step that takes at most one frame
\* from its ring and answers with at most one.
LEMMA StationKeeps ==
    ASSUME LinkInv, AgreeInv, UNCHANGED ap, Retreats,
           toSta' = toSta \/ (toSta # <<>> /\ toSta' = Tail(toSta)),
           toAp' = toAp \/ \E f \in Frames : f.kind \notin {"m4", "g2"} /\ toAp' = Append(toAp, f)
    PROVE  AgreeInv'
<1>1. AirOK
  BY DEF LinkInv
<1>2. Grown(toSta, toSta', {})
  BY <1>1, SameGrown, TailGrown DEF AirOK
<1>3. PICK newAp : Grown(toAp, toAp', newAp) /\ \A f \in newAp : f.kind \notin {"m4", "g2"}
  <2>1. CASE toAp' = toAp
    <3>1. Grown(toAp, toAp', {})
      BY <2>1, SameGrown
    <3> QED
      BY <3>1
  <2>2. CASE \E f \in Frames : f.kind \notin {"m4", "g2"} /\ toAp' = Append(toAp, f)
    <3>1. PICK f \in Frames : f.kind \notin {"m4", "g2"} /\ toAp' = Append(toAp, f)
      BY <2>2
    <3>2. Grown(toAp, toAp', {f})
      BY <1>1, <3>1, AppendGrown DEF AirOK
    <3> QED
      BY <3>1, <3>2
  <2> QED
    BY <2>1, <2>2
<1> QED
  BY <1>2, <1>3, RetreatKeeps DEF SameKeys

LEMMA AgreeTurn == ASSUME LinkInv, AgreeInv, Turn PROVE AgreeInv'
<1>1. Retreats
  BY DEF Turn, wifi_station_tick, TickInit, TickLost, TickRepeat, TickStalled, link_down, Hop, Retreats
<1>2. toAp' = toAp \/ \E f \in Frames : f.kind \notin {"m4", "g2"} /\ toAp' = Append(toAp, f)
  <2>1. CASE TickRepeat
    <3>1. PICK kind \in {"auth", "assoc"} : toAp' = Append(toAp, Mgmt(kind))
      BY <2>1 DEF TickRepeat, Transmit
    <3>2. Mgmt(kind) \in Frames /\ Mgmt(kind).kind = kind
      BY MgmtType DEF Mgmt, Frame
    <3> QED
      BY <3>1, <3>2
  <2>2. CASE ~TickRepeat
    BY <2>2 DEF Turn, wifi_station_tick, TickInit, TickLost, TickStalled, Hop
  <2> QED
    BY <2>1, <2>2
<1>3. UNCHANGED ap /\ toSta' = toSta
  BY DEF Turn
<1> QED
  BY <1>1, <1>2, <1>3, StationKeeps

\* A message 1 starts the handshake over. Nobody who relies on an older key
\* is left: it would have to have been sent before that key was agreed upon.
LEMMA AgreeM1 ==
    ASSUME LinkInv, AgreeInv, UNCHANGED ap, toSta # <<>>, toSta' = Tail(toSta),
           EapolM1(Head(toSta)), handle_m1(Head(toSta))
    PROVE  AgreeInv'
<1> DEFINE f == Head(toSta)
           m2 == send_eapol("m2", hs.snonce, derive_ptk(f.n))
           k == ap.key
<1>1. toSta \in Seq(Frames) /\ toAp \in Seq(Frames) /\ f \in Frames /\ StaOK
  BY HeadTailProperties DEF LinkInv, AirOK
<1>2. /\ f.kind = "m1" /\ f \in OnAir(toSta)
      /\ Grown(toSta, toSta', {})
  BY <1>1, TailGrown DEF EapolM1
<1>3. ~Settled(k)
  BY <1>2 DEF Settled, Past
<1>4. CASE ap.st = "m3"
  <2>1. Waiting(k)
    BY <1>4 DEF AgreeInv
  <2>2. m2 \in Frames /\ m2.kind = "m2" /\ toAp' = Append(toAp, m2)
    <3>1. /\ hs.snonce \in Nat /\ derive_ptk(f.n) \in Key /\ mac.tk \in Key
      BY <1>1, <1>2, NoKeyType DEF StaOK, derive_ptk, Key, Frames
    <3>2. m2 \in Frames
      BY <3>1, FrameType DEF send_eapol, Kind
    <3> QED
      BY <3>2 DEF handle_m1, Transmit, send_eapol, Frame
  <2>3. Grown(toAp, toAp', {m2})
    <3> HIDE DEF m2
    <3> QED
      BY <1>1, <2>2, AppendGrown
  <2>4. \A g \in OnAir(toAp') : g \in OnAir(toAp) \/ g.kind = "m2"
    BY <2>2, <2>3 DEF Grown
  <2>5. ~\E g \in OnAir(toAp) : g.kind = "m4" /\ g.mic = k
    BY <1>3, <2>1 DEF Waiting
  <2>6. /\ OnAir(toSta') \subseteq OnAir(toSta)
        /\ \A g, h \in OnAir(toSta') : Before(toSta', g, h) => Before(toSta, g, h)
    BY <1>2 DEF Grown
  <2>7. Waiting(k)'
    <3>1. \A g \in OnAir(toSta') : g.mic = k => g.kind # "g1" /\ (g.kind = "m3" => g.n = ap.gtk)
      BY <2>1, <2>6 DEF Waiting
    <3>2. \A g \in OnAir(toAp') : g.mic = k => g.kind # "g2" /\ g.kind # "m4"
      BY <2>1, <2>4, <2>5 DEF Waiting
    <3>3. \A g, h \in OnAir(toSta') :
              Before(toSta', g, h) /\ g.kind = "m3" /\ g.mic = k => Past(h, k)
      BY <2>1, <2>6 DEF Waiting
    <3>4. k' = k /\ ap' = ap
      OBVIOUS
    <3> HIDE DEF k
    <3> QED
      BY <3>1, <3>2, <3>3, <3>4 DEF Waiting
  <2> QED
    BY <1>4, <2>7 DEF AgreeInv
<1>5. CASE ap.st \in {"done", "rekey"}
  BY <1>3, <1>5 DEF AgreeInv, Agreed, Rekeying
<1>6. CASE ap.st \notin Keyed
  BY <1>6, Elsewhere
<1> QED
  BY <1>4, <1>5, <1>6 DEF Keyed

\* A message 3 of the key the access point waits under settles the station.
LEMMA AgreeM3 ==
    ASSUME LinkInv, AgreeInv, UNCHANGED ap, toSta # <<>>, toSta' = Tail(toSta),
           EapolM3(Head(toSta)), handle_m3(Head(toSta))
    PROVE  AgreeInv'
<1> DEFINE f == Head(toSta)
           m4 == send_eapol("m4", 0, hs.ptk)
           k == ap.key
<1>1. toSta \in Seq(Frames) /\ toAp \in Seq(Frames) /\ f \in Frames /\ StaOK
  BY HeadTailProperties DEF LinkInv, AirOK
<1>2. /\ f.kind = "m3" /\ f.mic = hs.ptk /\ hs'.ptk = hs.ptk /\ f \in OnAir(toSta)
      /\ Grown(toSta, toSta', {})
      /\ \A g \in OnAir(toSta') : g \in OnAir(toSta) /\ Before(toSta, f, g)
  BY <1>1, TailGrown DEF EapolM3, handle_m3, mic_ok, StaOK
<1>3. CASE wpa = "DONE"
  BY <1>3, StationKeeps DEF handle_m3, Retreats, StaOK, LinkInv
<1>4. CASE wpa # "DONE"
  <2>1. wpa = "WAIT_M3" /\ wpa' = "DONE" /\ mac' = [tk |-> hs.ptk, gtk |-> f.n]
    BY <1>1, <1>4 DEF EapolM3, handle_m3, install_keys, extract_gtk, StaOK
  <2>2. ~Settled(k)
    BY <2>1 DEF Settled
  <2>3. CASE ap.st = "m3"
    <3>1. Waiting(k)
      BY <2>3 DEF AgreeInv
    <3>2. m4 \in Frames /\ m4.kind = "m4" /\ m4.mic = hs.ptk /\ toAp' = Append(toAp, m4)
      <4>1. /\ hs.ptk \in Key /\ mac.tk \in Key
        BY <1>1 DEF StaOK
      <4>2. m4 \in Frames
        BY <4>1, FrameType DEF send_eapol, Kind
      <4> QED
        BY <1>4, <4>2 DEF handle_m3, Transmit, send_eapol, Frame
    <3>3. \A g \in OnAir(toAp') : g \in OnAir(toAp) \/ (g.kind = "m4" /\ g.mic = hs.ptk)
      <4>1. Grown(toAp, toAp', {m4})
        <5> HIDE DEF m4
        <5> QED
          BY <1>1, <3>2, AppendGrown
      <4> QED
        BY <3>2, <4>1 DEF Grown
    <3>4. ~\E g \in OnAir(toAp) : g.kind = "m4" /\ g.mic = k
      BY <2>2, <3>1 DEF Waiting
    <3>5. hs.ptk = k => Settled(k)' /\ HasGroup'
      <4> SUFFICES ASSUME hs.ptk = k PROVE Settled(k)' /\ HasGroup'
        OBVIOUS
      <4>1. \A g \in OnAir(toSta') : Past(g, k)
        BY <1>2, <3>1 DEF Waiting
      <4>2. mac'.gtk = ap.gtk /\ mac'.tk = k /\ hs'.ptk = k
        BY <1>2, <2>1, <3>1 DEF Waiting
      <4>3. k' = k /\ ap' = ap
        OBVIOUS
      <4> HIDE DEF k
      <4> QED
        BY <2>1, <4>1, <4>2, <4>3 DEF Settled, HasGroup
    <3>6. /\ OnAir(toSta') \subseteq OnAir(toSta)
          /\ \A g, h \in OnAir(toSta') : Before(toSta', g, h) => Before(toSta, g, h)
      BY <1>2 DEF Grown
    <3>7. Waiting(k)'
      <4>1. \A g \in OnAir(toSta') : g.mic = k => g.kind # "g1" /\ (g.kind = "m3" => g.n = ap.gtk)
        BY <3>1, <3>6 DEF Waiting
      <4>2. \A g \in OnAir(toAp') : g.mic = k => g.kind # "g2"
        BY <3>1, <3>3 DEF Waiting
      <4>3. \A g, h \in OnAir(toSta') :
                Before(toSta', g, h) /\ g.kind = "m3" /\ g.mic = k => Past(h, k)
        BY <3>1, <3>6 DEF Waiting
      <4>4. (\E g \in OnAir(toAp') : g.kind = "m4" /\ g.mic = k) => Settled(k)' /\ HasGroup'
        BY <3>3, <3>4, <3>5
      <4>5. k' = k /\ ap' = ap
        OBVIOUS
      <4> HIDE DEF k
      <4> QED
        BY <4>1, <4>2, <4>3, <4>4, <4>5 DEF Waiting
    <3> QED
      BY <2>3, <3>7 DEF AgreeInv
  <2>4. CASE ap.st \in {"done", "rekey"}
    BY <2>2, <2>4 DEF AgreeInv, Agreed, Rekeying
  <2>5. CASE ap.st \notin Keyed
    BY <2>5, Elsewhere
  <2> QED
    BY <2>3, <2>4, <2>5 DEF Keyed
<1> QED
  BY <1>3, <1>4

\* A group message is taken in DONE alone, in the order in which it was sent.
LEMMA AgreeGroup ==
    ASSUME LinkInv, AgreeInv, UNCHANGED ap, toSta # <<>>, toSta' = Tail(toSta),
           wifi_wpa_eapol(Head(toSta))
    PROVE  AgreeInv'
<1> DEFINE f == Head(toSta)
           g2 == send_eapol("g2", f.n, hs.ptk)
           k == ap.key
<1>1. toSta \in Seq(Frames) /\ toAp \in Seq(Frames) /\ f \in Frames /\ StaOK
  BY HeadTailProperties DEF LinkInv, AirOK
<1>2. /\ f.kind = "g1" /\ f.mic = hs.ptk /\ wpa = "DONE" /\ wpa' = "DONE"
      /\ hs'.ptk = hs.ptk /\ mac'.tk = mac.tk /\ mac'.gtk = f.n
  BY <1>1 DEF wifi_wpa_eapol, handle_group_m1, mic_ok, install_gtk, extract_gtk, Stays, StaOK
<1>3. /\ f \in OnAir(toSta) /\ Grown(toSta, toSta', {})
      /\ \A g \in OnAir(toSta') : g \in OnAir(toSta) /\ Before(toSta, f, g)
  BY <1>1, TailGrown
<1>4. /\ OnAir(toSta') \subseteq OnAir(toSta)
      /\ \A g, h \in OnAir(toSta') : Before(toSta', g, h) => Before(toSta, g, h)
  BY <1>3 DEF Grown
<1>5. g2 \in Frames /\ g2.kind = "g2" /\ g2.mic = hs.ptk /\ g2.n = f.n /\ toAp' = Append(toAp, g2)
  <2>1. hs.ptk \in Key /\ mac.tk \in Key /\ f.n \in Nat
    BY <1>1 DEF StaOK, Frames
  <2>2. g2 \in Frames
    BY <2>1, FrameType DEF send_eapol, Kind
  <2> QED
    BY <2>2 DEF wifi_wpa_eapol, handle_group_m1, Transmit, send_eapol, Frame
<1>6. \A g \in OnAir(toAp') : g \in OnAir(toAp) \/ (g.kind = "g2" /\ g.mic = hs.ptk /\ g.n = f.n)
  <2>1. Grown(toAp, toAp', {g2})
    <3> HIDE DEF g2
    <3> QED
      BY <1>1, <1>5, AppendGrown
  <2> QED
    BY <1>5, <2>1 DEF Grown
<1>7. k' = k /\ ap' = ap
  OBVIOUS
<1> HIDE DEF f, g2, k
<1>8. ASSUME Settled(k) PROVE Settled(k)' /\ hs.ptk = k
  BY <1>2, <1>4, <1>7, <1>8 DEF Settled
<1>9. CASE ap.st = "m3"
  <2>1. Waiting(k)
    BY <1>9 DEF AgreeInv, k
  <2>2. hs.ptk # k
    BY <1>2, <1>3, <2>1 DEF Waiting
  <2>3. ~Settled(k)
    BY <1>8, <2>2
  <2>4. Waiting(k)'
    <3>1. \A g \in OnAir(toSta') : g.mic = k => g.kind # "g1" /\ (g.kind = "m3" => g.n = ap.gtk)
      BY <1>4, <2>1 DEF Waiting
    <3>2. \A g \in OnAir(toAp') : g.mic = k => g.kind # "g2" /\ g.kind # "m4"
      BY <1>6, <2>1, <2>2, <2>3 DEF Waiting
    <3>3. \A g, h \in OnAir(toSta') :
              Before(toSta', g, h) /\ g.kind = "m3" /\ g.mic = k => Past(h, k)
      BY <1>4, <2>1 DEF Waiting
    <3> QED
      BY <1>7, <3>1, <3>2, <3>3 DEF Waiting
  <2> QED
    BY <1>9, <2>4 DEF AgreeInv, k
<1>10. CASE ap.st = "done"
  <2>1. Agreed(k)
    BY <1>10 DEF AgreeInv, k
  <2>2. f.n = ap.gtk
    BY <1>2, <1>3, <1>8, <2>1 DEF Agreed, Group
  <2>3. Agreed(k)'
    BY <1>2, <1>4, <1>7, <1>8, <2>1, <2>2 DEF Agreed, HasGroup
  <2> QED
    BY <1>10, <2>3 DEF AgreeInv, k
<1>11. CASE ap.st = "rekey"
  <2>1. Rekeying(k)
    BY <1>11 DEF AgreeInv, k
  <2>2. Settled(k)' /\ hs.ptk = k
    BY <1>8, <2>1 DEF Rekeying
  <2>3. \A g, h \in OnAir(toSta') :
           Before(toSta', g, h) /\ Group(g, k) /\ Group(h, k) /\ g.n = ap.gtk => h.n = ap.gtk
    BY <1>4, <2>1 DEF Rekeying
  <2>4. (\E g \in OnAir(toAp') : g.kind = "g2" /\ g.mic = k /\ g.n = ap.gtk) => Agreed(k)'
    <3>1. ASSUME f.n = ap.gtk PROVE Agreed(k)'
      <4>1. \A g \in OnAir(toSta') : Group(g, k) => g.n = ap.gtk
        BY <1>2, <1>3, <2>1, <2>2, <3>1 DEF Rekeying, Group
      <4> QED
        BY <1>2, <1>7, <2>2, <3>1, <4>1 DEF Agreed, HasGroup
    <3>2. ASSUME f.n # ap.gtk PROVE ~\E g \in OnAir(toAp') : g.kind = "g2" /\ g.mic = k /\ g.n = ap.gtk
      <4>1. ~Agreed(k)
        BY <1>2, <1>3, <2>2, <3>2 DEF Agreed, Group
      <4> QED
        BY <1>6, <2>1, <3>2, <4>1 DEF Rekeying
    <3> QED
      BY <3>1, <3>2
  <2>5. Rekeying(k)'
    BY <1>7, <2>2, <2>3, <2>4 DEF Rekeying
  <2> QED
    BY <1>11, <2>5 DEF AgreeInv, k
<1>12. CASE ap.st \notin Keyed
  BY <1>12, Elsewhere
<1> QED
  BY <1>9, <1>10, <1>11, <1>12 DEF Keyed

LEMMA AgreeRx == ASSUME LinkInv, AgreeInv, rx_dump PROVE AgreeInv'
<1> DEFINE f == Head(toSta)
<1>1. UNCHANGED ap /\ toSta # <<>> /\ toSta' = Tail(toSta) /\ StaOK
  BY DEF rx_dump, LinkInv
<1>2. CASE wifi_ap_observe(f)
  BY <1>1, <1>2, StationKeeps DEF wifi_ap_observe, Stays, Retreats
<1>3. CASE wifi_sta_input(f)
  <2>1. CASE InputDeauth(f)
    BY <1>1, <2>1, StationKeeps DEF InputDeauth, link_down, Stays, Retreats
  <2>2. CASE InputAuth(f)
    BY <1>1, <2>2, StationKeeps DEF InputAuth, Retreats
  <2>3. CASE InputAssoc(f)
    BY <1>1, <2>3, StationKeeps DEF InputAssoc, wpa_begin, Stays, Retreats
  <2> QED
    BY <1>3, <2>1, <2>2, <2>3 DEF wifi_sta_input
<1>4. CASE wifi_wpa_input(f)
  BY <1>1, <1>4, AgreeM1, AgreeM3 DEF wifi_wpa_input
<1>5. CASE wifi_wpa_eapol(f)
  BY <1>1, <1>5, AgreeGroup
<1>6. CASE Ignored(f)
  BY <1>1, <1>6, StationKeeps DEF Ignored, Stays, Retreats
<1> QED
  BY <1>2, <1>3, <1>4, <1>5, <1>6 DEF rx_dump

\* The access point takes message 2 for its own nonce: whatever else is on the
\* air under the key of the two belongs to this handshake, so there is nothing.
LEMMA AgreeM2 ==
    ASSUME LinkInv, AgreeInv, NoncesFresh, toAp # <<>>, toAp' = Tail(toAp), UNCHANGED staVars,
           ApM2(Head(toAp))
    PROVE  AgreeInv'
<1> DEFINE f == Head(toAp)
           m3 == M3(f.mic)
<1>1. /\ toSta \in Seq(Frames) /\ toAp \in Seq(Frames) /\ f \in Frames /\ AirOK /\ ApOK
  BY HeadTailProperties DEF LinkInv, AirOK
<1>2. /\ ap.st = "m1" /\ f.mic = <<ap.anonce, f.n>> /\ f.mic[1] = ap.anonce
      /\ ap'.st = "m3" /\ ap'.key = f.mic /\ ap'.gtk = ap.gtk
  BY <1>1 DEF ApM2, ApOK, AccessPoint
<1>3. m3 \in Frames /\ m3.kind = "m3" /\ m3.mic = f.mic /\ m3.n = ap.gtk
  <2>1. m3 \in Frames
    BY <1>1, HandshakeType DEF Frames
  <2> QED
    BY <2>1 DEF M3, Frame
<1>4. Grown(toSta, toSta', {m3}) /\ Grown(toAp, toAp', {})
  <2>1. Sent(<<m3>>)
    BY DEF ApM2
  <2> HIDE DEF m3
  <2>2. <<m3>> \in Seq(Frames)
    BY <1>3
  <2> QED
    BY <1>1, <2>1, <2>2, SentGrown, OneFrame, TailGrown
<1> DEFINE k == f.mic
<1>5. k = ap.key'
  BY <1>2
<1> HIDE DEF m3, k
<1>6. /\ \A g \in OnAir(toSta) : g.kind \in {"m3", "g1"} => g.mic # k
      /\ \A g \in OnAir(toAp) : g.kind \in {"m4", "g2"} => g.mic # k
  BY <1>2 DEF NoncesFresh, k
<1>7. Waiting(ap.key)'
  <2>1. \A g \in OnAir(toSta') : g.mic = k => g.kind # "g1" /\ (g.kind = "m3" => g.n = ap.gtk)
    BY <1>3, <1>4, <1>6 DEF Grown
  <2>2. \A g \in OnAir(toAp') : g.mic = k => g.kind # "g2" /\ g.kind # "m4"
    BY <1>4, <1>6 DEF Grown
  <2>3. \A g, h \in OnAir(toSta') : Before(toSta', g, h) /\ g.kind = "m3" /\ g.mic = k => Past(h, k)
    BY <1>3, <1>4, <1>6 DEF Grown, Past, k
  <2> QED
    BY <1>2, <1>5, <2>1, <2>2, <2>3 DEF Waiting
<1> QED
  BY <1>2, <1>7 DEF AgreeInv

\* An answer under its key shows that the station is settled.
LEMMA AgreeAnswered ==
    ASSUME LinkInv, AgreeInv, toAp # <<>>, UNCHANGED staVars, ApAnswered(Head(toAp))
    PROVE  AgreeInv'
<1> DEFINE f == Head(toAp)
           k == ap.key
<1>1. f \in OnAir(toAp) /\ ApOK
  BY TailGrown DEF LinkInv, AirOK
<1>2. /\ f.mic = k /\ ap'.st = "done" /\ ap'.key = k /\ ap'.gtk = ap.gtk /\ toSta' = toSta
      /\ (f.kind = "m4" /\ ap.st = "m3") \/ (f.kind = "g2" /\ ap.st = "rekey" /\ f.n = ap.gtk)
  BY <1>1 DEF ApAnswered, ApOK, AccessPoint
<1>3. Agreed(k)
  <2>1. CASE f.kind = "m4" /\ ap.st = "m3"
    BY <1>1, <1>2, <2>1 DEF AgreeInv, Waiting, Agreed, Group
  <2>2. CASE f.kind = "g2" /\ ap.st = "rekey" /\ f.n = ap.gtk
    BY <1>1, <1>2, <2>2 DEF AgreeInv, Rekeying
  <2> QED
    BY <1>2, <2>1, <2>2
<1>4. Agreed(ap.key)'
  <2>1. wpa' = wpa /\ hs' = hs /\ mac' = mac
    BY DEF staVars
  <2> QED
    BY <1>2, <1>3, <2>1 DEF Agreed, Settled, HasGroup
<1> QED
  BY <1>2, <1>4 DEF AgreeInv

\* The same access point, with what it has sent.
LEMMA AccessPointKeeps ==
    ASSUME LinkInv, AgreeInv, SameKeys, UNCHANGED <<wpa, hs, mac>>,
           NEW new, Grown(toSta, toSta', new), ap.st \in Keyed => \A f \in new : Harmless(f),
           toAp' = toAp \/ (toAp # <<>> /\ toAp' = Tail(toAp))
    PROVE  AgreeInv'
<1>1. Grown(toAp, toAp', {})
  BY SameGrown, TailGrown DEF LinkInv, AirOK
<1>2. Retreats
  BY DEF Retreats
<1> QED
  BY <1>1, <1>2, RetreatKeeps

LEMMA AgreeApReceive ==
    ASSUME LinkInv, AgreeInv, NoncesFresh, ApReceive
    PROVE  AgreeInv'
<1> DEFINE f == Head(toAp)
<1>1. /\ UNCHANGED staVars /\ UNCHANGED <<wpa, hs, mac>> /\ toAp # <<>> /\ toAp' = Tail(toAp)
      /\ ApOK /\ AirOK
  BY DEF ApReceive, staVars, LinkInv
<1>2. ASSUME UNCHANGED ap, toSta' = toSta PROVE AgreeInv'
  <2>1. Grown(toSta, toSta', {})
    BY <1>2, SameGrown
  <2> QED
    BY <1>1, <1>2, <2>1, AccessPointKeeps DEF SameKeys
<1>3. ASSUME UNCHANGED ap, Sent(<<Mgmt("deauth")>>) PROVE AgreeInv'
  <2>1. Mgmt("deauth") \in Frames /\ Harmless(Mgmt("deauth"))
    BY MgmtType DEF Mgmt, Frame, Harmless
  <2>2. Grown(toSta, toSta', {Mgmt("deauth")})
    <3>1. <<Mgmt("deauth")>> \in Seq(Frames)
      BY <2>1
    <3> QED
      BY <1>1, <1>3, <3>1, SentGrown, OneFrame
  <2> QED
    BY <1>1, <1>3, <2>1, <2>2, AccessPointKeeps DEF SameKeys
<1>4. CASE ApAuth(f)
  BY <1>1, <1>4, Elsewhere DEF ApAuth, Keyed, ApOK, AccessPoint
<1>5. CASE ApAssoc(f)
  <2>1. CASE ap.st = "idle"
    BY <1>3, <1>5, <2>1 DEF ApAssoc
  <2>2. CASE ap.st # "idle"
    BY <1>1, <1>5, <2>2, Elsewhere DEF ApAssoc, Keyed, ApOK, AccessPoint
  <2> QED
    BY <2>1, <2>2
<1>6. CASE ApM2(f)
  BY <1>1, <1>6, AgreeM2
<1>7. CASE ApAnswered(f)
  BY <1>1, <1>7, AgreeAnswered
<1>8. CASE ApIgnores(f)
  <2>1. CASE ap.st = "idle"
    BY <1>3, <1>8, <2>1 DEF ApIgnores
  <2>2. CASE ap.st # "idle"
    <3>1. UNCHANGED ap /\ Sent(<<>>)
      BY <1>8, <2>2 DEF ApIgnores
    <3>2. toSta' = toSta
      BY <1>1, <3>1, ConcatEmptySeq DEF Sent, AirOK
    <3> QED
      BY <1>2, <3>1, <3>2
  <2> QED
    BY <2>1, <2>2
<1>9. CASE chan.tuned # ap.chan
  BY <1>2, <1>9 DEF ApReceive
<1> QED
  BY <1>4, <1>5, <1>6, <1>7, <1>8, <1>9 DEF ApReceive

\* What an access point with a key sends again as time passes.
LEMMA AgreeTick == ASSUME LinkInv, AgreeInv, Tick PROVE AgreeInv'
<1> DEFINE beacon == Frame("beacon", ap.chan, NoKey, NoKey)
<1>1. /\ UNCHANGED <<wpa, hs, mac>> /\ toAp' = toAp /\ ApOK /\ AirOK /\ ApTick
  BY DEF Tick, LinkInv
<1>2. beacon \in Frames /\ Harmless(beacon) /\ Unanswered \in Seq(Frames)
  BY <1>1, HandshakeType DEF Frame, Harmless
<1>3. CASE Unanswered # <<>> /\ ap.try = MaxTry
  BY <1>1, <1>3, Elsewhere DEF ApTick, Keyed, ApOK, AccessPoint
<1>4. CASE ~(Unanswered # <<>> /\ ap.try = MaxTry)
  <2>1. Sent(<<beacon>> \o Unanswered)
    BY <1>1, <1>4 DEF ApTick
  <2>2. SameKeys
    BY <1>1, <1>4 DEF ApTick, SameKeys, ApOK, AccessPoint
  <2>3. ap.st \in Keyed => \A f \in OnAir(Unanswered) : Harmless(f)
    <3>1. CASE ap.st = "m3"
      <4>1. OnAir(Unanswered) = {M3(ap.key)}
        BY <3>1, OneFrame DEF Unanswered
      <4> QED
        BY <3>1, <4>1 DEF M3, Frame, Harmless
    <3>2. CASE ap.st = "rekey"
      <4>1. OnAir(Unanswered) = {G1}
        BY <3>2, OneFrame DEF Unanswered
      <4> QED
        BY <3>2, <4>1 DEF G1, Frame, Harmless
    <3>3. CASE ap.st = "done"
      <4>1. Unanswered = <<>>
        BY <3>3 DEF Unanswered
      <4> QED
        BY <4>1 DEF OnAir
    <3> QED
      BY <3>1, <3>2, <3>3 DEF Keyed
  <2> HIDE DEF beacon
  <2>4. /\ <<beacon>> \o Unanswered \in Seq(Frames)
        /\ OnAir(<<beacon>> \o Unanswered) \subseteq {beacon} \cup OnAir(Unanswered)
    <3>1. <<beacon>> \in Seq(Frames)
      BY <1>2
    <3> QED
      BY <1>2, <3>1, ConcatGrown, ConcatProperties, OneFrame
  <2> DEFINE new == OnAir(<<beacon>> \o Unanswered)
  <2>5. Grown(toSta, toSta', new)
    BY <1>1, <2>1, <2>4, SentGrown
  <2>6. ap.st \in Keyed => \A f \in new : Harmless(f)
    BY <1>2, <2>3, <2>4
  <2> HIDE DEF new
  <2> QED
    BY <1>1, <2>2, <2>5, <2>6, AccessPointKeeps
<1> QED
  BY <1>3, <1>4

\* A new group key: what is on the air under the old one is before it.
LEMMA AgreeRekey == ASSUME LinkInv, AgreeInv, Rekey, UNCHANGED staVars PROVE AgreeInv'
<1> DEFINE gtk == NextNonce(ap.gtk)
           g1 == Frame("g1", gtk, ap.key, ap.key)
           k == ap.key
<1>1. /\ AirOK /\ ApOK /\ ap.st = "done" /\ toAp = <<>> /\ toAp' = <<>>
      /\ ap' = [ap EXCEPT !.st = "rekey", !.gtk = gtk, !.try = 0]
      /\ toSta' = Append(toSta, g1)
      /\ wpa' = wpa /\ hs' = hs /\ mac' = mac
  BY DEF Rekey, staVars, LinkInv
<1>2. g1 \in Frames /\ g1.kind = "g1" /\ g1.mic = k /\ g1.n = gtk
  <2>1. gtk \in Nonce
    BY <1>1, ApFields, NextNonceType
  <2> HIDE DEF gtk
  <2>2. g1 \in Frames
    BY <1>1, <2>1, ApFields, NoKeyType, FrameType DEF Kind
  <2> QED
    BY <2>2 DEF Frame
<1>3. Agreed(k)
  BY <1>1 DEF AgreeInv
<1> HIDE DEF gtk, g1
<1>4. ap'.st = "rekey" /\ ap'.key = k /\ ap'.gtk = gtk
  BY <1>1 DEF ApOK, AccessPoint
<1>5. Grown(toSta, toSta', {g1})
  BY <1>1, <1>2, AppendGrown DEF AirOK
<1>6. OnAir(toAp') = {}
  BY <1>1 DEF OnAir
<1>7. /\ wpa' # "WAIT_M3" /\ (wpa' = "DONE" => hs'.ptk = k /\ mac'.tk = k)
      /\ \A f \in OnAir(toSta') : Past(f, k)
  BY <1>1, <1>2, <1>3, <1>5 DEF Agreed, Settled, Grown, Past
<1>8. \A f, g \in OnAir(toSta') :
         Before(toSta', f, g) /\ Group(f, k) /\ Group(g, k) /\ f.n = gtk => g.n = gtk
  BY <1>2, <1>3, <1>5 DEF Agreed, Grown, Group
<1>9. k = ap.key'
  BY <1>4
<1> HIDE DEF k
<1>10. Rekeying(ap.key)'
  BY <1>4, <1>6, <1>7, <1>8, <1>9 DEF Rekeying, Settled
<1> QED
  BY <1>4, <1>10 DEF AgreeInv

LEMMA AgreeLose == ASSUME LinkInv, AgreeInv, Lose, UNCHANGED staVars PROVE AgreeInv'
<1>1. AirOK /\ UNCHANGED <<wpa, hs, mac>> /\ SameKeys
  BY DEF Lose, staVars, SameKeys, LinkInv
<1>2. Grown(toSta, toSta', {})
  BY <1>1, SameGrown, TailGrown DEF Lose, AirOK
<1> QED
  BY <1>1, <1>2, AccessPointKeeps DEF Lose

LEMMA AgreeRefuse == ASSUME LinkInv, AgreeInv, Refuse, UNCHANGED staVars PROVE AgreeInv'
<1>1. /\ AirOK /\ UNCHANGED <<wpa, hs, mac>> /\ SameKeys
      /\ toSta' = Append(toSta, Mgmt("refused")) /\ toAp # <<>> /\ toAp' = Tail(toAp)
  BY DEF Refuse, staVars, SameKeys, LinkInv
<1>2. Mgmt("refused") \in Frames /\ Harmless(Mgmt("refused"))
  BY MgmtType DEF Mgmt, Frame, Harmless
<1>3. Grown(toSta, toSta', {Mgmt("refused")})
  BY <1>1, <1>2, AppendGrown DEF AirOK
<1> QED
  BY <1>1, <1>2, <1>3, AccessPointKeeps

LEMMA AgreeInit == ASSUME Init PROVE AgreeInv
BY DEF Init, AgreeInv

LEMMA AgreeNext ==
    ASSUME LinkInv, AgreeInv, NoncesFresh, [Next]_vars
    PROVE  AgreeInv'
<1>1. AirOK /\ ApOK
  BY DEF LinkInv
<1>2. CASE Turn
  BY <1>2, AgreeTurn
<1>3. CASE rx_dump
  BY <1>3, AgreeRx
<1>4. CASE wifi_ccmp_tx
  <2> DEFINE data == Frame("data", 0, NoKey, mac.tk)
  <2>1. data \in Frames /\ data.kind = "data"
    BY NoKeyType, FrameType DEF LinkInv, StaOK, Kind, Frame
  <2>2. UNCHANGED <<ap, toSta, wpa, hs, mac>> /\ toAp' = Append(toAp, data)
    BY <1>4 DEF wifi_ccmp_tx, Transmit
  <2> HIDE DEF data
  <2> QED
    BY <2>1, <2>2, StationKeeps DEF Retreats
<1>5. CASE ApReceive
  BY <1>5, AgreeApReceive
<1>6. CASE Tick
  BY <1>6, AgreeTick
<1>7. CASE Rare(Lose) \/ Rare(Refuse) \/ Rare(Rekey)
  BY <1>7, AgreeLose, AgreeRefuse, AgreeRekey DEF Rare
<1>8. CASE Rare(Forget) \/ Rare(Move) \/ Rare(BeginAnew)
  <2>1. Forgotten \in AccessPoint /\ Forgotten.st = "idle"
    BY <1>1, RestartType DEF Forgotten, ApOK, AccessPoint
  <2>2. CASE Rare(Forget)
    BY <2>1, <2>2, Elsewhere DEF Rare, Forget, Keyed
  <2>3. CASE Rare(Move)
    <3>1. PICK c \in 1 .. Channels : ap' = [Forgotten EXCEPT !.chan = c]
      BY <2>3 DEF Rare, Move
    <3>2. ap'.st = "idle"
      BY <2>1, <3>1 DEF AccessPoint
    <3> QED
      BY <3>2, Elsewhere DEF Keyed
  <2>4. CASE Rare(BeginAnew)
    BY <1>1, <2>4, Elsewhere DEF Rare, BeginAnew, Restarted, Keyed, ApOK, AccessPoint
  <2> QED
    BY <1>8, <2>2, <2>3, <2>4
<1>9. CASE UNCHANGED vars
  BY <1>9, StationKeeps DEF vars, Retreats
<1> QED
  BY <1>2, <1>3, <1>4, <1>5, <1>6, <1>7, <1>8, <1>9 DEF Next

\* When both ends believe the handshakes are over they hold the same keys, for
\* any number of channels, faults and repetitions: a message of a handshake
\* that is gone is never taken for one of this (wifi_wpa_input, handle_m3,
\* handle_group_m1). The code tells handshakes apart by random nonces, and so
\* the hypothesis is that no nonce recurs while a frame made with it is under way.
THEOREM BothEndsAgree == Spec /\ []NoncesFresh => []KeysAgree
<1>1. Init => LinkInv /\ AgreeInv
  BY LinkInit, AgreeInit
<1>2. LinkInv /\ AgreeInv /\ NoncesFresh /\ [Next]_vars => (LinkInv /\ AgreeInv)'
  BY LinkNext, AgreeNext
<1>3. LinkInv /\ AgreeInv => KeysAgree
  BY DEF LinkInv, StaOK, AgreeInv, Agreed, Settled, HasGroup, KeysAgree, Up
<1> QED
  BY <1>1, <1>2, <1>3, PTL DEF Spec
=============================================================================
