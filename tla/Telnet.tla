------------------------------- MODULE Telnet -------------------------------
(***************************************************************************)
(* A telnet session: the device that takes the protocol out of the stream  *)
(* (device/net/telnet.c), the terminal on top of it (app/term/             *)
(* term_session.c) and the process that serves one connection after        *)
(* another (app/telnet.c).                                                 *)
(*                                                                         *)
(* Bytes are named for the code that tells them apart.  The connection     *)
(* carries bytes to the machine, cut into reads anywhere, and tokens (an   *)
(* echoed byte, an erasure, a negotiation) back.  One process reads,       *)
(* answers and echoes, so what it does with one read is one step.  The     *)
(* peer is external: it negotiates by the rules of RFC 1143 without the    *)
(* queue, hangs up when it likes and keeps track of the line it has typed. *)
(***************************************************************************)
EXTENDS Integers, Sequences, SequencesExt

CONSTANTS
    ReadChunk,    \* READ_CHUNK
    LineMax,      \* TERM_LINE_MAX
    ExitLine,     \* the line that names the exit command
    MaxWire,      \* the peer types while less than this is on its way
    MaxActs       \* bound on its connections, keys and requests together

ASSUME TelnetAssumption ==
    /\ {ReadChunk, LineMax} \subseteq Nat \ {0}
    /\ {MaxWire, MaxActs} \subseteq Nat
    /\ ExitLine # <<>>

VARIABLES
    tel,     \* telnet.c: state, command, local_options, remote_options
    term,    \* struct term: state, line
    at,      \* telnet_proc: in accept or in a session
    toHost,  \* bytes on the connection
    toPeer,  \* tokens on the connection
    peer,    \* the peer's view of the options, its line and its screen
    clean,   \* the line was begun and typed with the echo settled
    acts

vars == <<tel, term, at, toHost, toPeer, peer, clean, acts>>

Option == {"ECHO", "SGA"}
AnyOption == Option \cup {"OTHER"}
offered(option) == option \in {"ECHO", "SGA"}
accepted(option) == option = "SGA"
Negotiation == {"WILL", "WONT", "DO", "DONT"}
Printable == {"x", "[", "O", "0"}
\* What ends an escape sequence; "0" is the byte of a parameter.
Final == Printable \ {"0"}

\* The option's state belongs to the side that performs it.
get_option_side(command) == IF command \in {"WILL", "WONT"} THEN "remote" ELSE "local"
get_option_state(t, side, option) == IF option \in Option THEN t[side][option] ELSE "UNKNOWN"
set_option_state(t, side, option, state) ==
    IF option \in Option THEN [t EXCEPT ![side][option] = state] ELSE t

\* A machine that parses: the device's memory, what it has to send, the data
\* it has found.
Machine(t, out, data) == [tel |-> t, out |-> out, data |-> data]
Became(m, state) == [m EXCEPT !.tel.state = state]
Reply(m, command, option) == [m EXCEPT !.out = Append(@, <<command, option>>)]
Found(m, c) == [m EXCEPT !.data = Append(@, c)]
Set(m, side, option, state) == [m EXCEPT !.tel = set_option_state(@, side, option, state)]

enable_option(m, side, option) ==
    IF get_option_state(m.tel, side, option) # "NO" THEN m
    ELSE Reply(Set(m, side, option, "WANT_YES"), IF side = "local" THEN "WILL" ELSE "DO", option)

(***************************************************************************)
(* telnet.c: one byte.                                                     *)
(***************************************************************************)
process_data(m, c) == IF c = "IAC" THEN Became(m, "COMMAND") ELSE Found(m, c)

process_command(m, c) ==
    CASE c = "IAC" -> Found(Became(m, "DATA"), c)
      [] c \in Negotiation -> [Became(m, "OPTION") EXCEPT !.tel.command = c]
      [] c = "SB" -> Became(m, "SUBNEGOTIATION")
      [] OTHER -> Became(m, "DATA")

Refuse(m, side, option, old, reply) ==
    LET off == Set(m, side, option, "NO")
    IN  IF old = "YES" THEN Reply(off, reply, option) ELSE off

\* Answers to a request of ours get no reply; WANT_NO is never set.
Agree(m, side, option, old, agreed, yes, no) ==
    CASE old = "WANT_NO" -> Set(m, side, option, "NO")
      [] old \in {"WANT_YES", "YES"} -> Set(m, side, option, "YES")
      [] OTHER -> IF agreed THEN Reply(Set(m, side, option, "YES"), yes, option)
                  ELSE Reply(m, no, option)

process_option(m0, option) ==
    LET m == Became(m0, "DATA")
        command == m.tel.command
        side == get_option_side(command)
        old == get_option_state(m.tel, side, option)
    IN  CASE command = "DONT" -> Refuse(m, side, option, old, "WONT")
          [] command = "WONT" -> Refuse(m, side, option, old, "DONT")
          [] command = "DO"   -> Agree(m, side, option, old, offered(option), "WILL", "WONT")
          [] command = "WILL" -> Agree(m, side, option, old, accepted(option), "DO", "DONT")

process_subnegotiation(m, c) ==
    IF c = "IAC" THEN Became(m, "SUBNEGOTIATION_COMMAND") ELSE m

process_subnegotiation_command(m, c) ==
    Became(m, IF c = "SE" THEN "DATA" ELSE "SUBNEGOTIATION")

process(m, c) ==
    CASE m.tel.state = "DATA" -> process_data(m, c)
      [] m.tel.state = "COMMAND" -> process_command(m, c)
      [] m.tel.state = "OPTION" -> process_option(m, c)
      [] m.tel.state = "SUBNEGOTIATION" -> process_subnegotiation(m, c)
      [] m.tel.state = "SUBNEGOTIATION_COMMAND" -> process_subnegotiation_command(m, c)

Cleared == [state |-> "DATA", command |-> "NONE",
            local |-> [o \in Option |-> "NO"], remote |-> [o \in Option |-> "NO"]]

\* The memory of an earlier connection is gone, and the two offers are sent.
telnet_open_Stale(t) ==
    enable_option(enable_option(Machine(t, <<>>, <<>>), "local", "ECHO"), "local", "SGA")

telnet_open(t) ==
    enable_option(enable_option(Machine(Cleared, <<>>, <<>>), "local", "ECHO"), "local", "SGA")

\* telnet_read: the protocol is taken out of the bytes of one read.
telnet_read(t, chunk) ==
    LET after[i \in 0 .. Len(chunk)] ==
            IF i = 0 THEN Machine(t, <<>>, <<>>) ELSE process(after[i - 1], chunk[i])
    IN  after[Len(chunk)]

option_enabled(t, side, option) == get_option_state(t, side, option) \in {"YES", "WANT_NO"}
telnet_echo_enabled(t) == option_enabled(t, "local", "ECHO")

(***************************************************************************)
(* term_session.c: one key, on the terminal and what it puts out.  t is    *)
(* the device's memory, which echo_enabled looks into.                     *)
(***************************************************************************)
Screen(s, out) == [term |-> s, out |-> out]
Put(d, token) == [d EXCEPT !.out = Append(@, <<token>>)]
Times(token, n) == [i \in 1 .. n |-> <<token>>]

run_line(d) ==
    CASE d.term.line = <<>> -> d
      [] d.term.line = ExitLine -> [d EXCEPT !.term.state = "DONE"]
      [] OTHER -> Put(d, "text")

\* A kill takes the line's length to zero, a backspace takes one off it; both
\* then erase what is too much on the screen.
Shorten_ByOne(d, len, t) ==
    LET s == [d EXCEPT !.term.line = SubSeq(@, 1, len)]
    IN  IF telnet_echo_enabled(t) THEN Put(s, "erase") ELSE s

Shorten(d, len, t) ==
    [d EXCEPT !.term.line = SubSeq(@, 1, len),
              !.out = IF telnet_echo_enabled(t)
                      THEN @ \o Times("erase", Len(d.term.line) - len) ELSE @]

EndLine(d, t) ==
    LET ran == run_line(IF telnet_echo_enabled(t) THEN Put(d, "newline") ELSE d)
        emptied == [ran EXCEPT !.term.line = <<>>]
    IN  IF emptied.term.state = "DONE" THEN emptied ELSE Put(emptied, "prompt")

Type_Full(d, c, t) ==
    IF c \in Printable /\ Len(d.term.line) < LineMax
    THEN LET typed == [d EXCEPT !.term.line = Append(@, c)]
         IN  IF telnet_echo_enabled(t) THEN Put(typed, c) ELSE typed
    ELSE d

Type(d, c, t) ==
    IF c \in Printable /\ Len(d.term.line) < LineMax - 1
    THEN LET typed == [d EXCEPT !.term.line = Append(@, c)]
         IN  IF telnet_echo_enabled(t) THEN Put(typed, c) ELSE typed
    ELSE d

term_handle_normal(d, c, t) ==
    LET len == Len(d.term.line)
    IN  CASE c = "KILL" -> Shorten(d, 0, t)
          [] c = "BS"   -> Shorten(d, IF len > 0 THEN len - 1 ELSE 0, t)
          [] c = "CR"   -> EndLine([d EXCEPT !.term.state = "LINE_END"], t)
          [] c = "LF"   -> EndLine(d, t)
          [] c = "ESC"  -> [d EXCEPT !.term.state = "ESCAPE"]
          [] OTHER      -> Type(d, c, t)

term_handle_line_end(d, c, t) ==
    LET normal == [d EXCEPT !.term.state = "NORMAL"]
    IN  IF c = "LF" THEN normal ELSE term_handle_normal(normal, c, t)

term_handle_escape(d, c) ==
    [d EXCEPT !.term.state = CASE c = "[" -> "CSI" [] c = "O" -> "SS3" [] OTHER -> "NORMAL"]

\* The bytes 0x40 to 0x7e end a sequence, those before the last are swallowed;
\* CSI and SS3 are handled alike.
term_handle_csi(d, c) == IF c \in Final THEN [d EXCEPT !.term.state = "NORMAL"] ELSE d

term_handle_key(d, c, t) ==
    CASE d.term.state = "NORMAL" -> term_handle_normal(d, c, t)
      [] d.term.state = "LINE_END" -> term_handle_line_end(d, c, t)
      [] d.term.state = "ESCAPE" -> term_handle_escape(d, c)
      [] d.term.state \in {"CSI", "SS3"} -> term_handle_csi(d, c)
      [] d.term.state = "DONE" -> d

term_parse_buf(d, buf, t) ==
    LET after[i \in 0 .. Len(buf)] ==
            IF i = 0 THEN d ELSE term_handle_key(after[i - 1], buf[i], t)
    IN  after[Len(buf)]

(***************************************************************************)
(* telnet_proc.                                                            *)
(***************************************************************************)
Fresh == [up |-> TRUE, him |-> [o \in AnyOption |-> "NO"], us |-> [o \in AnyOption |-> "NO"],
          want |-> <<>>, screen |-> <<>>]

Init ==
    /\ tel = Cleared
    /\ term = [state |-> "NORMAL", line |-> <<>>]
    /\ at = "accept"
    /\ toHost = <<>> /\ toPeer = <<>>
    /\ peer = [Fresh EXCEPT !.up = FALSE]
    /\ acts = 0 /\ clean = FALSE

Acts == acts < MaxActs /\ acts' = acts + 1

Accept ==
    /\ at = "accept" /\ Acts
    /\ LET opened == telnet_open(tel)
       IN  tel' = opened.tel /\ toPeer' = Append(opened.out, <<"prompt">>)
    /\ term' = [state |-> "NORMAL", line |-> <<>>]
    /\ at' = "session" /\ toHost' = <<>> /\ peer' = Fresh

\* One read of n bytes: the device first takes the protocol out of all of
\* them, then the terminal sees what is left.
Read(n) ==
    LET m == telnet_read(tel, SubSeq(toHost, 1, n))
        d == term_parse_buf(Screen(term, <<>>), m.data, m.tel)
    IN  /\ toHost' = SubSeq(toHost, n + 1, Len(toHost))
        /\ tel' = m.tel /\ term' = d.term
        /\ toPeer' = IF peer.up THEN toPeer \o m.out \o d.out ELSE toPeer
        /\ at' = IF d.term.state = "DONE" THEN "accept" ELSE "session"

term_session ==
    /\ at = "session"
    /\ \E n \in 1 .. ReadChunk : n <= Len(toHost) /\ Read(n)
    /\ UNCHANGED <<peer, acts>>

HungUp ==
    /\ at = "session" /\ ~peer.up /\ toHost = <<>>
    /\ at' = "accept"
    /\ UNCHANGED <<tel, term, toHost, toPeer, peer, acts>>

(***************************************************************************)
(* The peer.                                                               *)
(***************************************************************************)
\* What the peer sends for a key, and for what is no key at all.
Keys ==
    {<<"x", <<"x">>>>, <<"BS", <<"BS">>>>, <<"KILL", <<"KILL">>>>,
     <<"RETURN", <<"CR", "LF">>>>, <<"RETURN", <<"CR", "NUL">>>>, <<"RETURN", <<"LF">>>>,
     <<"none", <<"ESC", "[", "0", "x">>>>, <<"none", <<"ESC", "O", "x">>>>,
     <<"none", <<"IAC", "IAC">>>>, <<"none", <<"IAC", "NOP">>>>,
     <<"none", <<"IAC", "SB", "OTHER", "IAC", "IAC", "x", "IAC", "SE">>>>}

Typed(line, key) ==
    CASE key = "x" -> IF Len(line) < LineMax - 1 THEN Append(line, "x") ELSE line
      [] key = "BS" -> IF line = <<>> THEN line ELSE Front(line)
      [] key \in {"KILL", "RETURN"} -> <<>>
      [] OTHER -> line

PeerTypes ==
    /\ peer.up /\ at = "session" /\ Len(toHost) < MaxWire /\ Acts
    /\ \E key \in Keys :
        /\ toHost' = toHost \o key[2]
        /\ peer' = [peer EXCEPT !.want = Typed(@, key[1])]
    /\ UNCHANGED <<tel, term, at, toPeer>>

\* Erasing past the beginning of the line takes the prompt away.
Shown(screen, token) ==
    CASE token \in {"newline", "prompt", "text"} -> <<>>
      [] token = "erase" -> IF screen = <<>> THEN <<"hole">> ELSE Front(screen)
      [] OTHER -> Append(screen, token)

\* The answer to a command about an option that is in state old: the option's
\* new state and what is sent, or nothing.
Negotiated(old, on, yes, no) ==
    IF on THEN CASE old = "NO" -> {<<"YES", <<yes>>>>, <<"NO", <<no>>>>}
                 [] old \in {"YES", "WANT_YES"} -> {<<"YES", <<>>>>}
                 [] old = "WANT_NO" -> {<<"NO", <<>>>>}
    ELSE IF old = "YES" THEN {<<"NO", <<no>>>>} ELSE {<<"NO", <<>>>>}

Sent(command, option) == <<"IAC", command, option>>
AnswerTo(command, option) ==
    LET side == IF command \in {"WILL", "WONT"} THEN "him" ELSE "us"
        yes == IF side = "him" THEN "DO" ELSE "WILL"
        no == IF side = "him" THEN "DONT" ELSE "WONT"
    IN  \E r \in Negotiated(peer[side][option], command \in {"WILL", "DO"}, yes, no) :
            /\ peer' = [peer EXCEPT ![side][option] = r[1]]
            /\ toHost' = IF r[2] = <<>> THEN toHost ELSE toHost \o Sent(r[2][1], option)

PeerReceives ==
    /\ peer.up /\ toPeer # <<>>
    /\ toPeer' = Tail(toPeer)
    /\ IF Len(Head(toPeer)) = 1
       THEN peer' = [peer EXCEPT !.screen = Shown(@, Head(toPeer)[1])] /\ UNCHANGED toHost
       ELSE AnswerTo(Head(toPeer)[1], Head(toPeer)[2])
    /\ UNCHANGED <<tel, term, at, acts>>

PeerAsks(side, option) ==
    /\ peer.up /\ at = "session" /\ Acts
    /\ \/ /\ peer[side][option] = "NO"
          /\ peer' = [peer EXCEPT ![side][option] = "WANT_YES"]
          /\ toHost' = toHost \o Sent(IF side = "him" THEN "DO" ELSE "WILL", option)
       \/ /\ peer[side][option] = "YES"
          /\ peer' = [peer EXCEPT ![side][option] = "WANT_NO"]
          /\ toHost' = toHost \o Sent(IF side = "him" THEN "DONT" ELSE "WONT", option)
    /\ UNCHANGED <<tel, term, at, toPeer>>

\* What was on its way may be cut off anywhere.
PeerHangsUp ==
    /\ peer.up /\ at = "session"
    /\ peer' = [peer EXCEPT !.up = FALSE]
    /\ \E n \in 0 .. Len(toHost) : toHost' = SubSeq(toHost, 1, n)
    /\ toPeer' = <<>>
    /\ UNCHANGED <<tel, term, at, acts>>

Quiet == at = "session" /\ peer.up /\ toHost = <<>> /\ toPeer = <<>>
EchoSettled == tel.local["ECHO"] = "YES" /\ peer.him["ECHO"] = "YES"

Step ==
    \/ Accept \/ term_session \/ HungUp
    \/ PeerTypes \/ PeerReceives \/ PeerHangsUp
    \/ \E side \in {"him", "us"}, option \in AnyOption : PeerAsks(side, option)

Next ==
    /\ Step
    /\ clean' = (EchoSettled' /\ (clean \/ (Quiet' /\ peer'.want = <<>> /\ peer'.screen = <<>>)))

Spec == Init /\ [][Next]_vars

(***************************************************************************)
(* What a user relies on.                                                  *)
(***************************************************************************)
OptionState == {"NO", "YES", "WANT_YES", "WANT_NO"}

\* Types; a line leaves room for the terminator that run_line writes behind it.
TypeOK ==
    /\ tel \in [state : {"DATA", "COMMAND", "OPTION", "SUBNEGOTIATION", "SUBNEGOTIATION_COMMAND"},
                command : Negotiation \cup {"NONE"},
                local : [Option -> OptionState], remote : [Option -> OptionState]]
    /\ tel.state = "OPTION" => tel.command # "NONE"
    /\ term.state \in {"NORMAL", "LINE_END", "ESCAPE", "CSI", "SS3", "DONE"}
    /\ term.line \in Seq(Printable) /\ Len(term.line) <= LineMax - 1
    /\ at \in {"accept", "session"} /\ {peer.up, clean} \subseteq BOOLEAN
    /\ peer.him \in [AnyOption -> OptionState] /\ peer.us \in [AnyOption -> OptionState]

\* When nothing is on its way, both ends agree on every option and neither
\* waits for an answer: requests that cross, refusals, options the device does
\* not know, and whatever an earlier connection left behind notwithstanding
\* (process_option, enable_option, telnet_open).
OptionsAgree ==
    Quiet =>
        /\ \A o \in Option : tel.local[o] = peer.him[o] /\ tel.remote[o] = peer.us[o]
        /\ \A o \in AnyOption : {peer.him[o], peer.us[o]} \subseteq {"NO", "YES"}

\* However the stream is cut into reads, and whatever is negotiated in the
\* middle of it, the line that will be run is the one the user typed; when the
\* echo was agreed on before it was begun, it is also the line on the screen
\* (process and its states, term_handle_key, the erasures of
\* term_handle_normal).
LineAsTyped ==
    Quiet => term.line = peer.want /\ (clean => peer.screen = peer.want)
=============================================================================
