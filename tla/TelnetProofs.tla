---------------------------- MODULE TelnetProofs ----------------------------
(***************************************************************************)
(* Proofs about Telnet: its types, the agreement on the options and the    *)
(* line, for every length of a read, every length of a line and every      *)
(* number of acts of the peer.                                             *)
(*                                                                         *)
(* What the bytes on their way will make of the device and the terminal    *)
(* does not depend on how they are cut into reads, so the invariant looks  *)
(* at it already: from a glimpse of both memories and of the answers that  *)
(* are owed, the bytes foresee a later glimpse, and it is that one which   *)
(* has to agree with the peer.  Sees is this relation, Ends what must hold *)
(* of its far end (Fits, option by option, and Lined), and Draws says what *)
(* the tokens on their way back make of the screen.                        *)
(***************************************************************************)
EXTENDS Telnet, SequenceTheorems, WellFoundedInduction, TLAPS

\* The bytes of the connection, what the device says of an option, and what the
\* terminal prints.
Byte == {"IAC", "NOP", "SB", "SE", "NUL", "CR", "LF", "ESC", "KILL", "BS"}
            \cup Printable \cup Negotiation \cup AnyOption
Answer == Negotiation \X AnyOption
Painted == Printable \cup {"newline", "prompt", "text", "erase"}
OnScreen == {<<c>> : c \in Painted}
Token == Answer \cup OnScreen

\* The device's memory and the terminal's.
Memory ==
    {t \in [state : {"DATA", "COMMAND", "OPTION", "SUBNEGOTIATION", "SUBNEGOTIATION_COMMAND"},
            command : Negotiation \cup {"NONE"},
            local : [Option -> OptionState], remote : [Option -> OptionState]] :
        t.state = "OPTION" => t.command # "NONE"}
Terminal ==
    {s \in [state : {"NORMAL", "LINE_END", "ESCAPE", "CSI", "SS3", "DONE"}, line : Seq(Printable)] :
        Len(s.line) <= LineMax - 1}
Parsing == [tel : Memory, out : Seq(Answer), data : Seq(Byte)]
Painting == [term : Terminal, out : Seq(OnScreen)]

-----------------------------------------------------------------------------
(* Sequences.                                                              *)

LEMMA AppendToEmpty == ASSUME NEW c PROVE Append(<<>>, c) = <<c>>
OBVIOUS

LEMMA ConcatOne ==
    ASSUME NEW S, NEW q \in Seq(S), NEW c \in S
    PROVE  q \o <<c>> = Append(q, c)
BY AppendIsConcat

LEMMA ConcatAppend ==
    ASSUME NEW S, NEW q \in Seq(S), NEW r \in Seq(S), NEW c \in S
    PROVE  q \o Append(r, c) = Append(q \o r, c)
<1>1. Append(r, c) = r \o <<c>> /\ <<c>> \in Seq(S)
    BY AppendIsConcat
<1>2. q \o (r \o <<c>>) = (q \o r) \o <<c>>
    BY <1>1, ConcatAssociative
<1>3. q \o r \in Seq(S)
    BY ConcatProperties
<1> QED
    BY <1>1, <1>2, <1>3, AppendIsConcat

-----------------------------------------------------------------------------
(* One byte, for the device.                                               *)

LEMMA SetKeeps ==
    ASSUME NEW t \in Memory, NEW side \in {"local", "remote"}, NEW option \in AnyOption,
           NEW v \in OptionState
    PROVE  /\ set_option_state(t, side, option, v) \in Memory
           /\ set_option_state(t, side, option, v).state = t.state
           /\ set_option_state(t, side, option, v).command = t.command
<1>1. CASE side = "local"
    BY <1>1 DEF Memory, set_option_state, Option
<1>2. CASE side = "remote"
    BY <1>2 DEF Memory, set_option_state, Option
<1> QED
    BY <1>1, <1>2

\* What the device makes of a byte it finds in m: it may say something of an
\* option, and it may pass a byte on.
Makes(m, r, h) ==
    /\ r \in Parsing /\ h \in Parsing /\ r.tel = h.tel
    /\ \/ h.out = <<>> /\ r.out = m.out
       \/ \E k \in Answer : h.out = <<k>> /\ r.out = Append(m.out, k)
    /\ \/ h.data = <<>> /\ r.data = m.data
       \/ \E b \in Byte : h.data = <<b>> /\ r.data = Append(m.data, b)

\* What it makes of a byte when it is taken by itself.
Heard(t, c) == process(Machine(t, <<>>, <<>>), c)

LEMMA AloneParses ==
    ASSUME NEW t \in Memory
    PROVE  /\ Machine(t, <<>>, <<>>) \in Parsing
           /\ Machine(t, <<>>, <<>>).tel = t
           /\ Machine(t, <<>>, <<>>).out = <<>> /\ Machine(t, <<>>, <<>>).data = <<>>
BY DEF Machine, Parsing

LEMMA BecameIs ==
    ASSUME NEW m \in Parsing, NEW state, [m.tel EXCEPT !.state = state] \in Memory
    PROVE  /\ Became(m, state) \in Parsing
           /\ Became(m, state).tel = [m.tel EXCEPT !.state = state]
           /\ Became(m, state).out = m.out /\ Became(m, state).data = m.data
BY DEF Became, Parsing, Memory

LEMMA FoundIs ==
    ASSUME NEW m \in Parsing, NEW c \in Byte
    PROVE  /\ Found(m, c) \in Parsing
           /\ Found(m, c).tel = m.tel /\ Found(m, c).out = m.out
           /\ Found(m, c).data = Append(m.data, c)
<1>1. Append(m.data, c) \in Seq(Byte)
    BY AppendProperties DEF Parsing
<1> QED
    BY <1>1 DEF Found, Parsing

LEMMA HearsData ==
    ASSUME NEW m \in Parsing, NEW n \in Parsing, n.tel = m.tel, n.out = <<>>, n.data = <<>>,
           NEW c \in Byte
    PROVE  Makes(m, process_data(m, c), process_data(n, c))
<1>1. CASE c = "IAC"
    BY <1>1 DEF process_data, Became, Makes, Parsing, Memory
<1>2. CASE c # "IAC"
    <2>1. process_data(m, c) = [m EXCEPT !.data = Append(m.data, c)]
        BY <1>2 DEF process_data, Found
    <2>2. process_data(n, c) = [n EXCEPT !.data = Append(n.data, c)]
        BY <1>2 DEF process_data, Found
    <2>3. Append(n.data, c) = <<c>> /\ Append(n.data, c) \in Seq(Byte) /\ Append(m.data, c) \in Seq(Byte)
        BY AppendProperties DEF Parsing
    <2> QED BY <2>1, <2>2, <2>3 DEF Makes, Parsing
<1> QED
    BY <1>1, <1>2

LEMMA HearsCommand ==
    ASSUME NEW m \in Parsing, NEW n \in Parsing, n.tel = m.tel, n.out = <<>>, n.data = <<>>,
           NEW c \in Byte
    PROVE  Makes(m, process_command(m, c), process_command(n, c))
<1>1. CASE c = "IAC"
    <2> DEFINE t == [m.tel EXCEPT !.state = "DATA"]
    <2>1. t \in Memory
        BY DEF Parsing, Memory
    <2>2. process_command(m, c) = Found(Became(m, "DATA"), c)
        BY <1>1 DEF process_command, Negotiation
    <2>3. process_command(n, c) = Found(Became(n, "DATA"), c)
        BY <1>1 DEF process_command, Negotiation
    <2>4. /\ Became(m, "DATA") \in Parsing /\ Became(m, "DATA").tel = t
          /\ Became(m, "DATA").out = m.out /\ Became(m, "DATA").data = m.data
        BY <2>1, BecameIs
    <2>5. /\ Became(n, "DATA") \in Parsing /\ Became(n, "DATA").tel = t
          /\ Became(n, "DATA").out = <<>> /\ Became(n, "DATA").data = <<>>
        BY <2>1, BecameIs
    <2>6. /\ process_command(m, c) \in Parsing /\ process_command(m, c).tel = t
          /\ process_command(m, c).out = m.out /\ process_command(m, c).data = Append(m.data, c)
        BY <2>2, <2>4, FoundIs
    <2>7. /\ process_command(n, c) \in Parsing /\ process_command(n, c).tel = t
          /\ process_command(n, c).out = <<>> /\ process_command(n, c).data = <<c>>
        BY <2>3, <2>5, FoundIs, AppendToEmpty
    <2> HIDE DEF t
    <2> QED BY <2>6, <2>7 DEF Makes
<1>2. CASE c \in Negotiation
    <2> DEFINE t == [m.tel EXCEPT !.state = "OPTION", !.command = c]
    <2>1. t \in Memory
        BY <1>2 DEF Parsing, Memory, Negotiation
    <2>2. process_command(m, c) = [m EXCEPT !.tel = t]
        BY <1>2 DEF process_command, Became, Parsing, Negotiation
    <2>3. process_command(n, c) = [n EXCEPT !.tel = t]
        BY <1>2 DEF process_command, Became, Parsing, Negotiation
    <2> HIDE DEF t
    <2> QED BY <2>1, <2>2, <2>3 DEF Makes, Parsing
<1>3. CASE c \notin Negotiation /\ c # "IAC"
    <2> DEFINE t == [m.tel EXCEPT !.state = IF c = "SB" THEN "SUBNEGOTIATION" ELSE "DATA"]
    <2>1. t \in Memory
        BY DEF Parsing, Memory
    <2>2. process_command(m, c) = [m EXCEPT !.tel = t]
        BY <1>3 DEF process_command, Became, Parsing
    <2>3. process_command(n, c) = [n EXCEPT !.tel = t]
        BY <1>3 DEF process_command, Became, Parsing
    <2> HIDE DEF t
    <2> QED BY <2>1, <2>2, <2>3 DEF Makes, Parsing
<1> QED
    BY <1>1, <1>2, <1>3

LEMMA HearsSubnegotiation ==
    ASSUME NEW m \in Parsing, NEW n \in Parsing, n.tel = m.tel, n.out = <<>>, n.data = <<>>,
           NEW c \in Byte
    PROVE  /\ Makes(m, process_subnegotiation(m, c), process_subnegotiation(n, c))
           /\ Makes(m, process_subnegotiation_command(m, c), process_subnegotiation_command(n, c))
<1>1. Makes(m, process_subnegotiation(m, c), process_subnegotiation(n, c))
    BY DEF process_subnegotiation, Became, Makes, Parsing, Memory
<1>2. Makes(m, process_subnegotiation_command(m, c), process_subnegotiation_command(n, c))
    BY DEF process_subnegotiation_command, Became, Makes, Parsing, Memory
<1> QED
    BY <1>1, <1>2

LEMMA SetIs ==
    ASSUME NEW m \in Parsing, NEW side \in {"local", "remote"}, NEW option \in AnyOption,
           NEW v \in OptionState
    PROVE  /\ Set(m, side, option, v) \in Parsing
           /\ Set(m, side, option, v).tel = set_option_state(m.tel, side, option, v)
           /\ Set(m, side, option, v).out = m.out /\ Set(m, side, option, v).data = m.data
<1>1. m.tel \in Memory
    BY DEF Parsing
<1>2. set_option_state(m.tel, side, option, v) \in Memory
    BY <1>1, SetKeeps
<1>3. Set(m, side, option, v) = [m EXCEPT !.tel = set_option_state(m.tel, side, option, v)]
    BY DEF Set
<1> QED
    BY <1>2, <1>3 DEF Parsing

LEMMA ReplyIs ==
    ASSUME NEW m \in Parsing, NEW command \in Negotiation, NEW option \in AnyOption
    PROVE  /\ Reply(m, command, option) \in Parsing
           /\ Reply(m, command, option).tel = m.tel
           /\ Reply(m, command, option).out = Append(m.out, <<command, option>>)
           /\ Reply(m, command, option).data = m.data
<1>1. <<command, option>> \in Answer
    BY DEF Answer
<1>2. Append(m.out, <<command, option>>) \in Seq(Answer)
    BY <1>1, AppendProperties DEF Parsing
<1> QED
    BY <1>2 DEF Reply, Parsing

LEMMA ReplyMakes ==
    ASSUME NEW m0 \in Parsing, NEW m \in Parsing, NEW n \in Parsing, n.tel = m.tel,
           m.out = m0.out, m.data = m0.data, n.out = <<>>, n.data = <<>>,
           NEW command \in Negotiation, NEW option \in AnyOption
    PROVE  Makes(m0, Reply(m, command, option), Reply(n, command, option))
<1> DEFINE k == <<command, option>>
           r == Reply(m, command, option)
           h == Reply(n, command, option)
<1>1. k \in Answer
    BY DEF Answer
<1>2. r \in Parsing /\ r.tel = m.tel /\ r.out = Append(m0.out, k) /\ r.data = m0.data
    BY ReplyIs
<1>3. h \in Parsing /\ h.tel = m.tel /\ h.out = Append(<<>>, k) /\ h.data = <<>>
    <2>1. h \in Parsing /\ h.tel = n.tel /\ h.out = Append(n.out, k) /\ h.data = n.data
        BY ReplyIs
    <2> HIDE DEF h, k
    <2> QED BY <2>1
<1>4. Append(<<>>, k) = <<k>>
    BY AppendToEmpty
<1> HIDE DEF k, r, h
<1>5. Makes(m0, r, h)
    BY <1>1, <1>2, <1>3, <1>4 DEF Makes
<1> QED
    BY <1>5 DEF r, h

LEMMA HearsOption ==
    ASSUME NEW m0 \in Parsing, NEW n0 \in Parsing, n0.tel = m0.tel, n0.out = <<>>, n0.data = <<>>,
           m0.tel.state = "OPTION", NEW option \in AnyOption
    PROVE  Makes(m0, process_option(m0, option), process_option(n0, option))
<1> DEFINE m == Became(m0, "DATA")
           n == Became(n0, "DATA")
           side == get_option_side(m.tel.command)
           old == get_option_state(m.tel, side, option)
<1>1. [m0.tel EXCEPT !.state = "DATA"] \in Memory
    BY DEF Parsing, Memory
<1>2. /\ m \in Parsing /\ n \in Parsing /\ n.tel = m.tel
      /\ n.out = <<>> /\ n.data = <<>> /\ m.out = m0.out /\ m.data = m0.data
    BY <1>1, BecameIs
<1>3. m.tel.command \in Negotiation
    BY <1>1, BecameIs DEF Parsing, Memory
<1>4. side \in {"local", "remote"}
    BY DEF get_option_side
<1>5. n.tel.command = m.tel.command /\ get_option_state(n.tel, side, option) = old
    BY <1>2
<1> HIDE DEF m, n, side, old
<1>6. Makes(m0, m, n)
    BY <1>2 DEF Makes
<1>7. ASSUME NEW v \in OptionState
      PROVE  Makes(m0, Set(m, side, option, v), Set(n, side, option, v))
    BY <1>2, <1>4, SetIs DEF Makes
<1>8. ASSUME NEW command \in Negotiation
      PROVE  Makes(m0, Reply(m, command, option), Reply(n, command, option))
    BY <1>2, ReplyMakes
<1>9. ASSUME NEW v \in OptionState, NEW command \in Negotiation
      PROVE  Makes(m0, Reply(Set(m, side, option, v), command, option),
                       Reply(Set(n, side, option, v), command, option))
    <2>1. /\ Set(m, side, option, v) \in Parsing /\ Set(n, side, option, v) \in Parsing
          /\ Set(m, side, option, v).tel = Set(n, side, option, v).tel
          /\ Set(m, side, option, v).out = m0.out /\ Set(m, side, option, v).data = m0.data
          /\ Set(n, side, option, v).out = <<>> /\ Set(n, side, option, v).data = <<>>
        BY <1>2, <1>4, SetIs
    <2> QED BY <2>1, ReplyMakes
<1>10. {"NO", "YES"} \subseteq OptionState /\ {"WILL", "WONT", "DO", "DONT"} = Negotiation
    BY DEF OptionState, Negotiation
<1>11. ASSUME NEW reply \in Negotiation
       PROVE  Makes(m0, Refuse(m, side, option, old, reply), Refuse(n, side, option, old, reply))
    BY <1>7, <1>9, <1>10 DEF Refuse
<1>12. process_option(m0, option) =
          CASE m.tel.command = "DONT" -> Refuse(m, side, option, old, "WONT")
            [] m.tel.command = "WONT" -> Refuse(m, side, option, old, "DONT")
            [] m.tel.command = "DO"   -> Agree(m, side, option, old, offered(option), "WILL", "WONT")
            [] m.tel.command = "WILL" -> Agree(m, side, option, old, accepted(option), "DO", "DONT")
    BY DEF process_option, m, side, old
<1>13. process_option(n0, option) =
          CASE m.tel.command = "DONT" -> Refuse(n, side, option, old, "WONT")
            [] m.tel.command = "WONT" -> Refuse(n, side, option, old, "DONT")
            [] m.tel.command = "DO"   -> Agree(n, side, option, old, offered(option), "WILL", "WONT")
            [] m.tel.command = "WILL" -> Agree(n, side, option, old, accepted(option), "DO", "DONT")
    BY <1>5, <1>2 DEF process_option, n, m, side, old
<1>14. CASE m.tel.command = "DONT" \/ m.tel.command = "WONT"
    BY <1>10, <1>11, <1>12, <1>13, <1>14
<1>15. CASE m.tel.command = "DO"
    <2>1. /\ process_option(m0, option) = Agree(m, side, option, old, offered(option), "WILL", "WONT")
          /\ process_option(n0, option) = Agree(n, side, option, old, offered(option), "WILL", "WONT")
        BY <1>12, <1>13, <1>15
    <2>2. CASE old \in {"WANT_NO", "WANT_YES", "YES"}
        BY <2>1, <2>2, <1>7, <1>10 DEF Agree
    <2>3. CASE old \notin {"WANT_NO", "WANT_YES", "YES"} /\ offered(option)
        BY <2>1, <2>3, <1>9, <1>10 DEF Agree
    <2>4. CASE old \notin {"WANT_NO", "WANT_YES", "YES"} /\ ~offered(option)
        BY <2>1, <2>4, <1>8, <1>10 DEF Agree
    <2> QED BY <2>2, <2>3, <2>4
<1>16. CASE m.tel.command = "WILL"
    <2>1. /\ process_option(m0, option) = Agree(m, side, option, old, accepted(option), "DO", "DONT")
          /\ process_option(n0, option) = Agree(n, side, option, old, accepted(option), "DO", "DONT")
        BY <1>12, <1>13, <1>16
    <2>2. CASE old \in {"WANT_NO", "WANT_YES", "YES"}
        BY <2>1, <2>2, <1>7, <1>10 DEF Agree
    <2>3. CASE old \notin {"WANT_NO", "WANT_YES", "YES"} /\ accepted(option)
        BY <2>1, <2>3, <1>9, <1>10 DEF Agree
    <2>4. CASE old \notin {"WANT_NO", "WANT_YES", "YES"} /\ ~accepted(option)
        BY <2>1, <2>4, <1>8, <1>10 DEF Agree
    <2> QED BY <2>2, <2>3, <2>4
<1> QED
    BY <1>3, <1>14, <1>15, <1>16 DEF Negotiation

\* One byte: what the device finds in it does not depend on what it has found.
LEMMA Hears ==
    ASSUME NEW m \in Parsing, NEW c \in Byte, m.tel.state = "OPTION" => c \in AnyOption
    PROVE  Makes(m, process(m, c), Heard(m.tel, c))
<1> DEFINE n == Machine(m.tel, <<>>, <<>>)
<1>1. /\ n \in Parsing /\ n.tel = m.tel /\ n.out = <<>> /\ n.data = <<>>
    BY AloneParses DEF Parsing
<1>2. Heard(m.tel, c) = process(n, c)
    BY DEF Heard
<1> HIDE DEF n
<1>3. m.tel.state \in {"DATA", "COMMAND", "OPTION", "SUBNEGOTIATION", "SUBNEGOTIATION_COMMAND"}
    BY DEF Parsing, Memory
<1>4. CASE m.tel.state = "DATA"
    <2>1. process(m, c) = process_data(m, c) /\ process(n, c) = process_data(n, c)
        BY <1>1, <1>4 DEF process
    <2> QED BY <1>1, <1>2, <2>1, HearsData
<1>5. CASE m.tel.state = "COMMAND"
    <2>1. process(m, c) = process_command(m, c) /\ process(n, c) = process_command(n, c)
        BY <1>1, <1>5 DEF process
    <2> QED BY <1>1, <1>2, <2>1, HearsCommand
<1>6. CASE m.tel.state = "OPTION"
    <2>1. process(m, c) = process_option(m, c) /\ process(n, c) = process_option(n, c)
        BY <1>1, <1>6 DEF process
    <2> QED BY <1>1, <1>2, <1>6, <2>1, HearsOption
<1>7. CASE m.tel.state = "SUBNEGOTIATION"
    <2>1. /\ process(m, c) = process_subnegotiation(m, c)
          /\ process(n, c) = process_subnegotiation(n, c)
        BY <1>1, <1>7 DEF process
    <2> QED BY <1>1, <1>2, <2>1, HearsSubnegotiation
<1>8. CASE m.tel.state = "SUBNEGOTIATION_COMMAND"
    <2>1. /\ process(m, c) = process_subnegotiation_command(m, c)
          /\ process(n, c) = process_subnegotiation_command(n, c)
        BY <1>1, <1>8 DEF process
    <2> QED BY <1>1, <1>2, <2>1, HearsSubnegotiation
<1> QED
    BY <1>3, <1>4, <1>5, <1>6, <1>7, <1>8

\* What stands on a line of the peer's screen; a hole is where the prompt was.
Glyph == Printable \cup {"hole"}

\* The tokens of q, as they are received, make a screen that shows s show l.
Drawn(S, s, q) ==
    /\ S \in [0 .. Len(q) -> Seq(Glyph)] /\ S[0] = s
    /\ \A i \in 1 .. Len(q) : S[i] = IF q[i] \in Answer THEN S[i - 1] ELSE Shown(S[i - 1], q[i][1])
Draws(s, q, l) == \E S : Drawn(S, s, q) /\ S[Len(q)] = l

LEMMA TokenKinds ==
    /\ \A k \in Answer : Len(k) = 2 /\ k[1] \in Negotiation /\ k[2] \in AnyOption /\ k = <<k[1], k[2]>>
    /\ \A k \in OnScreen : Len(k) = 1 /\ k[1] \in Painted /\ k \notin Answer /\ k = <<k[1]>>
<1>1. \A k \in Answer : Len(k) = 2 /\ k[1] \in Negotiation /\ k[2] \in AnyOption /\ k = <<k[1], k[2]>>
    BY DEF Answer
<1>2. \A k \in OnScreen : Len(k) = 1 /\ k[1] \in Painted /\ k = <<k[1]>>
    BY DEF OnScreen
<1> QED
    BY <1>1, <1>2

LEMMA ShownKeeps ==
    ASSUME NEW s \in Seq(Glyph), NEW c \in Painted
    PROVE  Shown(s, c) \in Seq(Glyph)
<1>1. CASE c \in {"newline", "prompt", "text"}
    BY <1>1 DEF Shown
<1>2. CASE c = "erase"
    <2>1. CASE s = <<>>
        <3>1. <<"hole">> \in Seq(Glyph)
            BY DEF Glyph
        <3> QED BY <1>2, <2>1, <3>1 DEF Shown
    <2>2. CASE s # <<>>
        <3>1. Len(s) - 1 \in Int /\ \A i \in 1 .. Len(s) - 1 : s[i] \in Glyph
            BY LenProperties, ElementOfSeq
        <3>2. SubSeq(s, 1, Len(s) - 1) \in Seq(Glyph)
            BY <3>1, SubSeqProperties
        <3> QED BY <1>2, <2>2, <3>2 DEF Shown, Front
    <2> QED BY <2>1, <2>2
<1>3. CASE c \in Printable
    <2>1. c \in Glyph /\ c \notin {"newline", "prompt", "text", "erase"}
        BY <1>3 DEF Glyph, Printable
    <2> QED BY <2>1, AppendProperties DEF Shown
<1> QED
    BY <1>1, <1>2, <1>3 DEF Painted

LEMMA DrawNone == ASSUME NEW s \in Seq(Glyph) PROVE Draws(s, <<>>, s)
<1> DEFINE S == [i \in 0 .. 0 |-> s]
<1>1. Len(<<>>) = 0
    OBVIOUS
<1>2. Drawn(S, s, <<>>) /\ S[0] = s
    BY <1>1 DEF Drawn
<1> QED
    BY <1>1, <1>2 DEF Draws

LEMMA DrawsTyped ==
    ASSUME NEW q \in Seq(Token), NEW s, NEW l, Draws(s, q, l)
    PROVE  s \in Seq(Glyph) /\ l \in Seq(Glyph)
<1>1. PICK S : Drawn(S, s, q) /\ S[Len(q)] = l
    BY DEF Draws
<1>2. Len(q) \in Nat /\ 0 \in 0 .. Len(q) /\ Len(q) \in 0 .. Len(q)
    BY LenProperties
<1> QED
    BY <1>1, <1>2 DEF Drawn

LEMMA DrawEmpty ==
    ASSUME NEW s, NEW l, Draws(s, <<>>, l)
    PROVE  s = l
BY DEF Draws, Drawn

LEMMA DrawBoth ==
    ASSUME NEW q \in Seq(Token), NEW r \in Seq(Token), NEW s, NEW l, NEW m,
           Draws(s, q, l), Draws(l, r, m)
    PROVE  Draws(s, q \o r, m)
<1>1. PICK A : Drawn(A, s, q) /\ A[Len(q)] = l
    BY DEF Draws
<1>2. PICK B : Drawn(B, l, r) /\ B[Len(r)] = m
    BY DEF Draws
<1> DEFINE n == Len(q)
           k == Len(r)
           w == q \o r
           S == [i \in 0 .. n + k |-> IF i <= n THEN A[i] ELSE B[i - n]]
<1>3. /\ n \in Nat /\ k \in Nat /\ Len(w) = n + k
      /\ \A i \in 1 .. n + k : w[i] = IF i <= n THEN q[i] ELSE r[i - n]
    BY ConcatProperties, LenProperties
<1>4. /\ A \in [0 .. n -> Seq(Glyph)] /\ A[0] = s /\ A[n] = l
      /\ \A i \in 1 .. n : A[i] = IF q[i] \in Answer THEN A[i - 1] ELSE Shown(A[i - 1], q[i][1])
    BY <1>1 DEF Drawn
<1>5. /\ B \in [0 .. k -> Seq(Glyph)] /\ B[0] = l /\ B[k] = m
      /\ \A i \in 1 .. k : B[i] = IF r[i] \in Answer THEN B[i - 1] ELSE Shown(B[i - 1], r[i][1])
    BY <1>2 DEF Drawn
<1> HIDE DEF n, k, w
<1>6. S \in [0 .. n + k -> Seq(Glyph)]
    BY <1>3, <1>4, <1>5
<1>7. S[0] = s /\ S[n + k] = m
    <2>1. S[0] = A[0]
        BY <1>3
    <2>2. CASE k = 0
        <3>1. n + k = n /\ n \in 0 .. n + k
            BY <1>3, <2>2
        <3>2. S[n] = A[n]
            BY <1>3, <3>1
        <3> QED BY <1>4, <1>5, <2>1, <2>2, <3>1, <3>2
    <2>3. CASE k # 0
        <3>1. ~(n + k <= n) /\ n + k - n = k /\ n + k \in 0 .. n + k
            BY <1>3, <2>3
        <3>2. S[n + k] = B[k]
            BY <1>3, <3>1
        <3> QED BY <1>4, <1>5, <2>1, <3>2
    <2> QED BY <2>2, <2>3
<1>8. ASSUME NEW i \in 1 .. n + k
      PROVE  S[i] = IF w[i] \in Answer THEN S[i - 1] ELSE Shown(S[i - 1], w[i][1])
    <2>1. CASE i <= n
        <3>1. i \in 1 .. n /\ i - 1 <= n /\ i \in 0 .. n + k /\ i - 1 \in 0 .. n + k
            BY <1>3, <2>1
        <3>2. S[i] = A[i] /\ S[i - 1] = A[i - 1] /\ w[i] = q[i]
            BY <1>3, <2>1, <3>1
        <3> QED BY <1>4, <3>1, <3>2
    <2>2. CASE ~(i <= n)
        <3>1. /\ i - n \in 1 .. k /\ i \in 0 .. n + k /\ i - 1 \in 0 .. n + k
              /\ i - n - 1 = i - 1 - n /\ i - 1 <= n => i - 1 = n /\ i - 1 - n = 0
            BY <1>3, <2>2
        <3>2. S[i] = B[i - n] /\ w[i] = r[i - n]
            BY <1>3, <2>2, <3>1
        <3>3. S[i - 1] = B[i - n - 1]
            <4>1. CASE i - 1 <= n
                <5>1. S[i - 1] = A[n] /\ i - n - 1 = 0
                    BY <1>3, <3>1, <4>1
                <5> QED BY <1>4, <1>5, <5>1
            <4>2. CASE ~(i - 1 <= n)
                <5>1. S[i - 1] = B[i - 1 - n]
                    BY <1>3, <3>1, <4>2
                <5> QED BY <1>3, <3>1, <5>1
            <4> QED BY <4>1, <4>2
        <3> QED BY <1>5, <3>1, <3>2, <3>3
    <2> QED BY <2>1, <2>2
<1> HIDE DEF S
<1>9. Drawn(S, s, w) /\ S[Len(w)] = m
    BY <1>3, <1>6, <1>7, <1>8 DEF Drawn
<1>10. Draws(s, w, m)
    BY <1>9 DEF Draws
<1> QED
    BY <1>10 DEF w

\* A token that is printed, and one that says something of an option.
LEMMA DrawOne ==
    ASSUME NEW s \in Seq(Glyph), NEW c \in Painted
    PROVE  Draws(s, <<<<c>>>>, Shown(s, c))
<1> DEFINE S == [i \in 0 .. 1 |-> IF i = 0 THEN s ELSE Shown(s, c)]
           q == <<<<c>>>>
<1>1. Len(q) = 1 /\ q[1] = <<c>> /\ q[1][1] = c
    OBVIOUS
<1>2. q[1] \notin Answer
    BY <1>1, TokenKinds DEF OnScreen
<1>3. S \in [0 .. 1 -> Seq(Glyph)]
    BY ShownKeeps
<1>4. S[0] = s /\ S[1] = Shown(s, c)
    OBVIOUS
<1> HIDE DEF S, q
<1>5. Drawn(S, s, q) /\ S[Len(q)] = Shown(s, c)
    BY <1>1, <1>2, <1>3, <1>4 DEF Drawn
<1>6. Draws(s, q, Shown(s, c))
    BY <1>5 DEF Draws
<1> QED
    BY <1>6 DEF q

LEMMA DrawAnswers ==
    ASSUME NEW s \in Seq(Glyph), NEW q \in Seq(Answer)
    PROVE  Draws(s, q, s)
<1> DEFINE S == [i \in 0 .. Len(q) |-> s]
<1>1. Len(q) \in Nat /\ \A i \in 1 .. Len(q) : q[i] \in Answer
    BY LenProperties, ElementOfSeq
<1>2. S \in [0 .. Len(q) -> Seq(Glyph)] /\ S[0] = s /\ S[Len(q)] = s
    BY <1>1
<1>3. \A i \in 1 .. Len(q) : S[i] = S[i - 1]
    BY <1>1
<1> HIDE DEF S
<1> QED
    BY <1>1, <1>2, <1>3 DEF Drawn, Draws

\* Erasing what is too much leaves the beginning of the line.
LEMMA DrawErase ==
    ASSUME NEW l \in Seq(Printable), NEW len \in 0 .. Len(l)
    PROVE  /\ Times("erase", Len(l) - len) \in Seq(OnScreen)
           /\ Draws(l, Times("erase", Len(l) - len), SubSeq(l, 1, len))
<1> DEFINE n == Len(l) - len
           q == Times("erase", n)
           S == [i \in 0 .. n |-> SubSeq(l, 1, Len(l) - i)]
<1>1. Len(l) \in Nat /\ n \in Nat /\ Len(l) - n = len /\ n <= Len(l)
    BY LenProperties
<1>2. <<"erase">> \in OnScreen
    BY DEF OnScreen, Painted
<1>3. q \in Seq(OnScreen) /\ Len(q) = n /\ \A i \in 1 .. n : q[i] = <<"erase">>
    BY <1>1, <1>2 DEF Times
<1>4. l \in Seq(Glyph)
    BY DEF Glyph
<1>5. ASSUME NEW j \in 0 .. Len(l)
      PROVE  SubSeq(l, 1, j) \in Seq(Glyph) /\ Len(SubSeq(l, 1, j)) = j
    <2>1. \A i \in 1 .. j : l[i] \in Glyph
        BY <1>4, ElementOfSeq, LenProperties
    <2>2. 1 \in Int /\ j \in Int
        BY <1>1
    <2> QED BY <2>1, <2>2, SubSeqProperties
<1>6. S \in [0 .. n -> Seq(Glyph)]
    BY <1>1, <1>5
<1>7. S[0] = l /\ S[n] = SubSeq(l, 1, len)
    BY <1>1, SubSeqFull
<1>8. ASSUME NEW i \in 1 .. n
      PROVE  S[i] = IF q[i] \in Answer THEN S[i - 1] ELSE Shown(S[i - 1], q[i][1])
    <2>1. q[i] \notin Answer /\ q[i][1] = "erase"
        BY <1>2, <1>3, TokenKinds
    <2> DEFINE j == Len(l) - (i - 1)
               p == SubSeq(l, 1, j)
    <2>2. j \in 1 .. Len(l) /\ j - 1 = Len(l) - i /\ i \in 0 .. n /\ i - 1 \in 0 .. n
        BY <1>1
    <2>3. S[i - 1] = p /\ S[i] = SubSeq(l, 1, j - 1)
        BY <2>2
    <2>4. p # <<>> /\ Len(p) = j
        <3>1. j \in 0 .. Len(l) /\ j # 0
            BY <1>1, <2>2
        <3> HIDE DEF j
        <3>2. Len(p) = j
            BY <1>5, <3>1
        <3> HIDE DEF p
        <3>3. Len(<<>>) = 0
            OBVIOUS
        <3> QED BY <3>1, <3>2, <3>3
    <2>5. Front(p) = SubSeq(p, 1, j - 1)
        BY <2>4 DEF Front
    <2>6. SubSeq(p, 1, j - 1) = SubSeq(l, 1, j - 1)
        <3> HIDE DEF j
        <3>1. CASE j = 1
            BY <3>1, SubSeqEmpty
        <3>2. CASE j # 1
            <4>1. 1 \in 1 .. Len(l) /\ 1 \in 1 .. j - 1 + 1 /\ j - 1 \in 1 .. j - 1 + 1
                BY <1>1, <2>2, <3>2
            <4>2. SubSeq(SubSeq(l, 1, j), 1, j - 1) = SubSeq(l, 1 + 1 - 1, 1 + (j - 1) - 1)
                BY <2>2, <4>1, SubSeqOfSubSeq
            <4>3. 1 + 1 - 1 = 1 /\ 1 + (j - 1) - 1 = j - 1
                BY <2>2
            <4> QED BY <4>2, <4>3
        <3> QED BY <3>1, <3>2
    <2> HIDE DEF p, j, S
    <2>7. Shown(p, "erase") = Front(p)
        BY <2>4 DEF Shown
    <2> QED BY <2>1, <2>3, <2>5, <2>6, <2>7
<1> HIDE DEF S, q
<1>9. Drawn(S, l, q) /\ S[Len(q)] = SubSeq(l, 1, len)
    BY <1>3, <1>6, <1>7, <1>8 DEF Drawn
<1>10. q \in Seq(OnScreen) /\ Draws(l, q, SubSeq(l, 1, len))
    BY <1>3, <1>9 DEF Draws
<1> QED
    BY <1>10 DEF q

\* The first token.
LEMMA DrawHead ==
    ASSUME NEW q \in Seq(Token), q # <<>>, NEW s, NEW l, Draws(s, q, l)
    PROVE  Draws(IF Head(q) \in Answer THEN s ELSE Shown(s, Head(q)[1]), Tail(q), l)
<1>1. PICK A : Drawn(A, s, q) /\ A[Len(q)] = l
    BY DEF Draws
<1> DEFINE n == Len(q)
           r == Tail(q)
           S == [i \in 0 .. n - 1 |-> A[i + 1]]
           s1 == IF Head(q) \in Answer THEN s ELSE Shown(s, Head(q)[1])
<1>2. n \in Nat \ {0} /\ Len(r) = n - 1 /\ \A i \in 1 .. n - 1 : r[i] = q[i + 1]
    BY EmptySeq, HeadTailProperties
<1>3. Head(q) = q[1]
    OBVIOUS
<1>4. /\ A \in [0 .. n -> Seq(Glyph)] /\ A[0] = s /\ A[n] = l
      /\ \A i \in 1 .. n : A[i] = IF q[i] \in Answer THEN A[i - 1] ELSE Shown(A[i - 1], q[i][1])
    BY <1>1 DEF Drawn
<1> HIDE DEF n, r
<1>5. S \in [0 .. n - 1 -> Seq(Glyph)] /\ S[n - 1] = l
    BY <1>2, <1>4
<1>6. S[0] = s1
    <2>1. 1 \in 1 .. n /\ 1 - 1 = 0 /\ 0 \in 0 .. n - 1 /\ 0 + 1 = 1
        BY <1>2
    <2>2. S[0] = A[1]
        BY <2>1
    <2> QED BY <1>3, <1>4, <2>1, <2>2
<1>7. ASSUME NEW i \in 1 .. n - 1
      PROVE  S[i] = IF r[i] \in Answer THEN S[i - 1] ELSE Shown(S[i - 1], r[i][1])
    <2>1. i \in 0 .. n - 1 /\ i - 1 \in 0 .. n - 1 /\ i + 1 \in 1 .. n /\ i + 1 - 1 = i /\ i - 1 + 1 = i
        BY <1>2
    <2>2. S[i] = A[i + 1] /\ S[i - 1] = A[i] /\ r[i] = q[i + 1]
        BY <1>2, <2>1
    <2> QED BY <1>4, <2>1, <2>2
<1> HIDE DEF S, s1
<1>8. Drawn(S, s1, r) /\ S[Len(r)] = l
    BY <1>2, <1>5, <1>6, <1>7 DEF Drawn
<1>9. Draws(s1, r, l)
    BY <1>8 DEF Draws
<1> QED
    BY <1>9 DEF s1, r

\* What is put out from p to r makes a screen that shows l show m.
Paints(p, l, r, m) == \E o \in Seq(OnScreen) : r = p \o o /\ Draws(l, o, m)

\* What the terminal makes of a key it finds in d: when the device echoes, the
\* screen goes on showing the line.
Edits(d, e, t) ==
    /\ e \in Painting
    /\ \E m : Paints(d.out, d.term.line, e.out, m) /\ (telnet_echo_enabled(t) => m = e.term.line)

Ended(s) == [state |-> IF s.line # <<>> /\ s.line = ExitLine THEN "DONE" ELSE s.state, line |-> <<>>]

LEMMA OnScreenTokens == Seq(OnScreen) \subseteq Seq(Token) /\ Seq(Answer) \subseteq Seq(Token)
BY DEF Token

LEMMA LinesShow == Seq(Printable) \subseteq Seq(Glyph)
BY DEF Glyph

LEMMA PaintsNothing ==
    ASSUME NEW p \in Seq(OnScreen), NEW l \in Seq(Glyph)
    PROVE  Paints(p, l, p, l)
<1>1. <<>> \in Seq(OnScreen) /\ p = p \o <<>>
    BY EmptySeq, ConcatEmptySeq
<1> QED
    BY <1>1, DrawNone DEF Paints

LEMMA PaintsOne ==
    ASSUME NEW p \in Seq(OnScreen), NEW l, NEW r \in Seq(OnScreen), NEW m, Paints(p, l, r, m),
           NEW c \in Painted
    PROVE  Paints(p, l, Append(r, <<c>>), Shown(m, c))
<1>1. PICK o \in Seq(OnScreen) : r = p \o o /\ Draws(l, o, m)
    BY DEF Paints
<1> DEFINE k == <<c>>
<1>2. k \in OnScreen
    BY DEF OnScreen
<1>3. Append(o, k) \in Seq(OnScreen) /\ Append(o, k) = o \o <<k>> /\ <<k>> \in Seq(OnScreen)
    <2> HIDE DEF k
    <2> QED BY <1>2, AppendProperties, AppendIsConcat
<1>4. Append(r, k) = p \o Append(o, k)
    <2> HIDE DEF k
    <2>1. p \o Append(o, k) = Append(p \o o, k)
        BY <1>2, ConcatAppend
    <2> QED BY <1>1, <2>1
<1>5. m \in Seq(Glyph)
    BY <1>1, DrawsTyped, OnScreenTokens
<1>6. Draws(m, <<<<c>>>>, Shown(m, c))
    BY <1>5, DrawOne
<1>7. o \in Seq(Token) /\ <<<<c>>>> \in Seq(Token)
    BY <1>3, OnScreenTokens
<1>8. Draws(l, o \o <<<<c>>>>, Shown(m, c))
    BY <1>1, <1>6, <1>7, DrawBoth
<1> QED
    BY <1>3, <1>4, <1>8 DEF Paints

LEMMA PutIs ==
    ASSUME NEW d \in Painting, NEW c \in Painted
    PROVE  /\ Put(d, c) \in Painting /\ Put(d, c).term = d.term
           /\ Put(d, c).out = Append(d.out, <<c>>)
<1>1. <<c>> \in OnScreen
    BY DEF OnScreen
<1>2. Append(d.out, <<c>>) \in Seq(OnScreen)
    BY <1>1, AppendProperties DEF Painting
<1> QED
    BY <1>2 DEF Put, Painting

LEMMA ShortenIs ==
    ASSUME NEW d \in Painting, NEW len \in 0 .. Len(d.term.line), NEW t
    PROVE  /\ Shorten(d, len, t).term = [d.term EXCEPT !.line = SubSeq(@, 1, len)]
           /\ Edits(d, Shorten(d, len, t), t)
<1> DEFINE l == d.term.line
           o == Times("erase", Len(l) - len)
           e == Shorten(d, len, t)
           s == SubSeq(l, 1, len)
<1>1. l \in Seq(Printable) /\ d.out \in Seq(OnScreen) /\ Len(l) \in Nat /\ Len(l) <= LineMax - 1
    BY LenProperties DEF Painting, Terminal
<1>2. o \in Seq(OnScreen) /\ Draws(l, o, s)
    BY <1>1, DrawErase
<1>3. s \in Seq(Printable) /\ Len(s) <= LineMax - 1
    <2>1. \A i \in 1 .. len : l[i] \in Printable
        BY <1>1, ElementOfSeq
    <2>2. s \in Seq(Printable) /\ Len(s) = IF 1 <= len THEN len - 1 + 1 ELSE 0
        BY <1>1, <2>1, SubSeqProperties
    <2>3. len \in 0 .. Len(l)
        OBVIOUS
    <2> HIDE DEF l, s
    <2> QED BY <1>1, <2>2, <2>3, TelnetAssumption
<1>4. d.out \o o \in Seq(OnScreen)
    BY <1>1, <1>2, ConcatProperties
<1> HIDE DEF o
<1>5. e.term = [d.term EXCEPT !.line = s]
    BY DEF Shorten, Painting
<1>6. e.out = IF telnet_echo_enabled(t) THEN d.out \o o ELSE d.out
    BY DEF Shorten, Painting, o
<1>8. e.term \in Terminal /\ e.term.line = s
    <2> HIDE DEF e, s
    <2> QED BY <1>3, <1>5 DEF Painting, Terminal
<1>9. e \in Painting
    <2> DEFINE x == IF telnet_echo_enabled(t) THEN d.out \o o ELSE d.out
    <2>1. x \in Seq(OnScreen)
        BY <1>1, <1>4
    <2>2. e = [d EXCEPT !.term.line = s, !.out = x]
        BY DEF Shorten, o
    <2> HIDE DEF x, s
    <2>3. [d.term EXCEPT !.line = s] \in Terminal
        BY <1>3 DEF Painting, Terminal
    <2>4. [d EXCEPT !.term.line = s, !.out = x] \in Painting
        BY <2>1, <2>3 DEF Painting
    <2> QED BY <2>2, <2>4
<1> HIDE DEF e, s
<1>10. CASE telnet_echo_enabled(t)
    <2>1. Paints(d.out, l, e.out, s)
        BY <1>2, <1>6, <1>10 DEF Paints
    <2> QED BY <1>5, <1>8, <1>9, <2>1 DEF Edits, e, s
<1>11. CASE ~telnet_echo_enabled(t)
    <2>1. l \in Seq(Glyph)
        BY <1>1, LinesShow
    <2>2. Paints(d.out, l, e.out, l)
        BY <1>1, <1>6, <1>11, <2>1, PaintsNothing
    <2> QED BY <1>5, <1>9, <1>11, <2>2 DEF Edits, e, s
<1> QED
    BY <1>10, <1>11

LEMMA EndLineIs ==
    ASSUME NEW d \in Painting, NEW t
    PROVE  /\ EndLine(d, t).term = Ended(d.term)
           /\ Edits(d, EndLine(d, t), t)
<1> DEFINE l == d.term.line
           a == IF telnet_echo_enabled(t) THEN Put(d, "newline") ELSE d
           b == run_line(a)
           c == [b EXCEPT !.term.line = <<>>]
           e == IF c.term.state = "DONE" THEN c ELSE Put(c, "prompt")
           P(x) == \E m : Paints(d.out, l, x.out, m) /\ (telnet_echo_enabled(t) => m = <<>>)
<1>0. EndLine(d, t) = e
    BY DEF EndLine
<1>1. l \in Seq(Glyph) /\ d.out \in Seq(OnScreen)
    BY LinesShow DEF Painting, Terminal
<1>2. \A m : Shown(m, "newline") = <<>> /\ Shown(m, "prompt") = <<>> /\ Shown(m, "text") = <<>>
    BY DEF Shown
<1>3. {"newline", "prompt", "text"} \subseteq Painted
    BY DEF Painted
<1>4. Paints(d.out, l, d.out, l)
    BY <1>1, PaintsNothing
<1>5. a \in Painting /\ a.term = d.term /\ P(a)
    <2>1. CASE telnet_echo_enabled(t)
        <3>1. a = Put(d, "newline")
            BY <2>1
        <3>2. a \in Painting /\ a.term = d.term /\ a.out = Append(d.out, <<"newline">>)
            BY <1>3, <3>1, PutIs
        <3>3. Paints(d.out, l, a.out, <<>>)
            BY <1>1, <1>2, <1>3, <1>4, <3>2, PaintsOne
        <3> QED BY <3>2, <3>3
    <2>2. CASE ~telnet_echo_enabled(t)
        <3>1. a = d
            BY <2>2
        <3> QED BY <1>4, <2>2, <3>1
    <2> QED BY <2>1, <2>2
<1> HIDE DEF a
<1>6. /\ b \in Painting /\ P(b)
      /\ b.term = IF l # <<>> /\ l = ExitLine THEN [d.term EXCEPT !.state = "DONE"] ELSE d.term
    <2>1. CASE l = <<>>
        <3>1. b = a
            BY <1>5, <2>1, TelnetAssumption DEF run_line
        <3> QED BY <1>5, <2>1, <3>1
    <2>2. CASE l # <<>> /\ l = ExitLine
        <3>1. b = [a EXCEPT !.term.state = "DONE"]
            BY <1>5, <2>2 DEF run_line
        <3>2. b.out = a.out /\ b.term = [d.term EXCEPT !.state = "DONE"] /\ b \in Painting
            BY <1>5, <3>1 DEF Painting, Terminal
        <3> QED BY <1>5, <2>2, <3>2
    <2>3. CASE l # <<>> /\ l # ExitLine
        <3>1. b = Put(a, "text")
            BY <1>5, <2>3 DEF run_line
        <3> HIDE DEF b
        <3>2. b \in Painting /\ b.term = d.term /\ b.out = Append(a.out, <<"text">>)
            <4>1. a \in Painting /\ "text" \in Painted
                BY <1>3, <1>5
            <4>2. /\ Put(a, "text") \in Painting /\ Put(a, "text").term = a.term
                  /\ Put(a, "text").out = Append(a.out, <<"text">>)
                BY <4>1, PutIs
            <4> QED BY <1>5, <3>1, <4>2
        <3>3. PICK m : Paints(d.out, l, a.out, m)
            BY <1>5
        <3>4. a.out \in Seq(OnScreen)
            BY <1>5 DEF Painting
        <3>5. Paints(d.out, l, b.out, <<>>)
            BY <1>1, <1>2, <1>3, <3>2, <3>3, <3>4, PaintsOne
        <3> QED BY <2>3, <3>2, <3>5
    <2> QED BY <2>1, <2>2, <2>3
<1> HIDE DEF b
<1>7. c \in Painting /\ c.out = b.out /\ c.term = Ended(d.term)
    <2>1. <<>> \in Seq(Printable) /\ Len(<<>>) = 0 /\ 0 <= LineMax - 1
        BY TelnetAssumption
    <2>2. c.term = [b.term EXCEPT !.line = <<>>] /\ c.out = b.out
        BY <1>6 DEF Painting
    <2>3. c.term = Ended(d.term)
        BY <1>6, <2>2 DEF Painting, Terminal, Ended
    <2>4. c \in Painting
        BY <1>6, <2>1 DEF Painting, Terminal
    <2> QED BY <2>2, <2>3, <2>4
<1>8. P(c)
    BY <1>6, <1>7
<1> HIDE DEF c
<1>9. e \in Painting /\ P(e) /\ e.term = Ended(d.term)
    <2>1. CASE c.term.state = "DONE"
        BY <1>7, <1>8, <2>1
    <2>2. CASE c.term.state # "DONE"
        <3>1. e = Put(c, "prompt")
            BY <2>2
        <3> HIDE DEF e
        <3>2. e \in Painting /\ e.term = c.term /\ e.out = Append(c.out, <<"prompt">>)
            BY <1>3, <1>7, <3>1, PutIs
        <3>3. PICK m : Paints(d.out, l, c.out, m)
            BY <1>8
        <3>4. c.out \in Seq(OnScreen)
            BY <1>7 DEF Painting
        <3>5. Paints(d.out, l, e.out, <<>>)
            BY <1>1, <1>2, <1>3, <3>2, <3>3, <3>4, PaintsOne
        <3> QED BY <1>7, <3>2, <3>5
    <2> QED BY <2>1, <2>2
<1> HIDE DEF e
<1>10. e.term.line = <<>>
    BY <1>9 DEF Ended
<1>11. Edits(d, e, t)
    BY <1>9, <1>10 DEF Edits
<1> QED
    BY <1>0, <1>9, <1>11

LEMMA TypeIs ==
    ASSUME NEW d \in Painting, NEW c \in Byte, NEW t
    PROVE  /\ Type(d, c, t).term = IF c \in Printable /\ Len(d.term.line) < LineMax - 1
                                   THEN [d.term EXCEPT !.line = Append(@, c)] ELSE d.term
           /\ Edits(d, Type(d, c, t), t)
<1> DEFINE l == d.term.line
           a == [d EXCEPT !.term.line = Append(@, c)]
<1>1. l \in Seq(Printable) /\ l \in Seq(Glyph) /\ d.out \in Seq(OnScreen) /\ Len(l) \in Nat
    BY LinesShow, LenProperties DEF Painting, Terminal
<1>2. Paints(d.out, l, d.out, l)
    BY <1>1, PaintsNothing
<1>3. CASE ~(c \in Printable /\ Len(l) < LineMax - 1)
    <2>1. Type(d, c, t) = d
        BY <1>3 DEF Type
    <2> QED BY <1>2, <1>3, <2>1 DEF Edits
<1>4. CASE c \in Printable /\ Len(l) < LineMax - 1
    <2>1. Append(l, c) \in Seq(Printable) /\ Len(Append(l, c)) = Len(l) + 1
        BY <1>1, <1>4, AppendProperties
    <2>2. Len(Append(l, c)) <= LineMax - 1
        BY <1>1, <1>4, <2>1, TelnetAssumption
    <2>3. a.term = [d.term EXCEPT !.line = Append(l, c)] /\ a.out = d.out /\ a.term.line = Append(l, c)
        BY DEF Painting, Terminal
    <2>4. a \in Painting
        BY <2>1, <2>2 DEF Painting, Terminal
    <2> HIDE DEF a
    <2>5. Type(d, c, t) = IF telnet_echo_enabled(t) THEN Put(a, c) ELSE a
        BY <1>4 DEF Type, a
    <2>6. CASE telnet_echo_enabled(t)
        <3>1. Type(d, c, t) = Put(a, c) /\ c \in Painted
            BY <1>4, <2>5, <2>6 DEF Painted
        <3>2. /\ Put(a, c) \in Painting /\ Put(a, c).term = a.term
              /\ Put(a, c).out = Append(d.out, <<c>>)
            BY <2>3, <2>4, <3>1, PutIs
        <3>3. Paints(d.out, l, Append(d.out, <<c>>), Shown(l, c))
            BY <1>1, <1>2, <3>1, PaintsOne
        <3>4. Shown(l, c) = Append(l, c)
            BY <1>4 DEF Shown, Printable
        <3> QED BY <1>4, <2>3, <3>1, <3>2, <3>3, <3>4 DEF Edits
    <2>7. CASE ~telnet_echo_enabled(t)
        <3>1. Type(d, c, t) = a
            BY <2>5, <2>7
        <3> QED BY <1>2, <1>4, <2>3, <2>4, <2>7, <3>1 DEF Edits
    <2> QED BY <2>6, <2>7
<1> QED
    BY <1>3, <1>4

\* What a key does to the terminal, whatever is put out.
Edited(s, c) ==
    CASE c = "KILL" -> [s EXCEPT !.line = SubSeq(@, 1, 0)]
      [] c = "BS"   -> [s EXCEPT !.line = SubSeq(@, 1, IF Len(@) > 0 THEN Len(@) - 1 ELSE 0)]
      [] c = "CR"   -> Ended([s EXCEPT !.state = "LINE_END"])
      [] c = "LF"   -> Ended(s)
      [] c = "ESC"  -> [s EXCEPT !.state = "ESCAPE"]
      [] OTHER      -> IF c \in Printable /\ Len(s.line) < LineMax - 1
                       THEN [s EXCEPT !.line = Append(@, c)] ELSE s

Keyed(s, c) ==
    CASE s.state = "NORMAL" -> Edited(s, c)
      [] s.state = "LINE_END" -> IF c = "LF" THEN [s EXCEPT !.state = "NORMAL"]
                                 ELSE Edited([s EXCEPT !.state = "NORMAL"], c)
      [] s.state = "ESCAPE" ->
            [s EXCEPT !.state = CASE c = "[" -> "CSI" [] c = "O" -> "SS3" [] OTHER -> "NORMAL"]
      [] s.state \in {"CSI", "SS3"} ->
            IF c \in Final THEN [s EXCEPT !.state = "NORMAL"] ELSE s
      [] s.state = "DONE" -> s

LEMMA StateIs ==
    ASSUME NEW d \in Painting, NEW t,
           NEW state \in {"NORMAL", "LINE_END", "ESCAPE", "CSI", "SS3", "DONE"}
    PROVE  /\ [d EXCEPT !.term.state = state] \in Painting
           /\ [d EXCEPT !.term.state = state].term = [d.term EXCEPT !.state = state]
           /\ [d EXCEPT !.term.state = state].term.line = d.term.line
           /\ [d EXCEPT !.term.state = state].out = d.out
           /\ Edits(d, [d EXCEPT !.term.state = state], t)
<1> DEFINE e == [d EXCEPT !.term.state = state]
<1>1. /\ e \in Painting /\ e.term = [d.term EXCEPT !.state = state]
      /\ e.out = d.out /\ e.term.line = d.term.line
    BY DEF Painting, Terminal
<1>2. d.out \in Seq(OnScreen) /\ d.term.line \in Seq(Glyph)
    BY LinesShow DEF Painting, Terminal
<1> HIDE DEF e
<1>3. Edits(d, e, t)
    BY <1>1, <1>2, PaintsNothing DEF Edits
<1> QED
    BY <1>1, <1>3 DEF e

LEMMA StaysEdits == ASSUME NEW d \in Painting, NEW t PROVE Edits(d, d, t)
<1>1. d.out \in Seq(OnScreen) /\ d.term.line \in Seq(Glyph)
    BY LinesShow DEF Painting, Terminal
<1> QED
    BY <1>1, PaintsNothing DEF Edits

LEMMA NormalIs ==
    ASSUME NEW d \in Painting, NEW c \in Byte, NEW t
    PROVE  /\ term_handle_normal(d, c, t).term = Edited(d.term, c)
           /\ Edits(d, term_handle_normal(d, c, t), t)
<1> DEFINE len == Len(d.term.line)
           back == IF len > 0 THEN len - 1 ELSE 0
           e == term_handle_normal(d, c, t)
<1> SUFFICES e.term = Edited(d.term, c) /\ Edits(d, e, t)
    OBVIOUS
<1> HIDE DEF e
<1>1. len \in Nat /\ 0 \in 0 .. len /\ back \in 0 .. len
    BY LenProperties DEF Painting, Terminal
<1>2. d.term = [state |-> d.term.state, line |-> d.term.line]
    BY DEF Painting, Terminal
<1>3. CASE c = "KILL"
    <2>1. e = Shorten(d, 0, t)
        BY <1>3 DEF term_handle_normal, e
    <2>2. Edited(d.term, c) = [d.term EXCEPT !.line = SubSeq(@, 1, 0)]
        BY <1>3 DEF Edited
    <2>3. /\ Shorten(d, 0, t).term = [d.term EXCEPT !.line = SubSeq(@, 1, 0)]
          /\ Edits(d, Shorten(d, 0, t), t)
        BY <1>1, ShortenIs
    <2> QED BY <2>1, <2>2, <2>3
<1>4. CASE c = "BS"
    <2>1. e = Shorten(d, back, t)
        BY <1>4 DEF term_handle_normal, e
    <2>2. Edited(d.term, c) = [d.term EXCEPT !.line = SubSeq(@, 1, back)]
        BY <1>2, <1>4 DEF Edited
    <2> HIDE DEF back
    <2> QED BY <1>1, <2>1, <2>2, ShortenIs
<1>5. CASE c = "CR"
    <2> DEFINE f == [d EXCEPT !.term.state = "LINE_END"]
    <2>1. e = EndLine(f, t)
        BY <1>5 DEF term_handle_normal, e
    <2>2. /\ f \in Painting /\ f.term = [d.term EXCEPT !.state = "LINE_END"]
          /\ f.out = d.out /\ f.term.line = d.term.line
        BY StateIs
    <2> HIDE DEF f
    <2>3. EndLine(f, t).term = Ended(f.term) /\ Edits(f, EndLine(f, t), t)
        BY <2>2, EndLineIs
    <2>4. Edits(d, EndLine(f, t), t)
        BY <2>2, <2>3 DEF Edits
    <2>5. Edited(d.term, c) = Ended([d.term EXCEPT !.state = "LINE_END"])
        BY <1>5 DEF Edited
    <2> QED BY <2>1, <2>2, <2>3, <2>4, <2>5
<1>6. CASE c = "LF"
    <2>1. e = EndLine(d, t)
        BY <1>6 DEF term_handle_normal, e
    <2>2. Edited(d.term, c) = Ended(d.term)
        BY <1>6 DEF Edited
    <2> QED BY <2>1, <2>2, EndLineIs
<1>7. CASE c = "ESC"
    <2>1. e = [d EXCEPT !.term.state = "ESCAPE"]
        BY <1>7 DEF term_handle_normal, e
    <2>2. Edited(d.term, c) = [d.term EXCEPT !.state = "ESCAPE"]
        BY <1>7 DEF Edited
    <2> QED BY <2>1, <2>2, StateIs
<1>8. CASE c \notin {"KILL", "BS", "CR", "LF", "ESC"}
    <2>1. e = Type(d, c, t)
        BY <1>8 DEF term_handle_normal, e
    <2>2. Edited(d.term, c) = IF c \in Printable /\ Len(d.term.line) < LineMax - 1
                              THEN [d.term EXCEPT !.line = Append(@, c)] ELSE d.term
        BY <1>8 DEF Edited
    <2> QED BY <2>1, <2>2, TypeIs
<1> QED
    BY <1>3, <1>4, <1>5, <1>6, <1>7, <1>8

\* One key.
LEMMA KeyIs ==
    ASSUME NEW d \in Painting, NEW c \in Byte, NEW t
    PROVE  /\ term_handle_key(d, c, t).term = Keyed(d.term, c)
           /\ Edits(d, term_handle_key(d, c, t), t)
<1> DEFINE e == term_handle_key(d, c, t)
<1> SUFFICES e.term = Keyed(d.term, c) /\ Edits(d, e, t)
    OBVIOUS
<1> HIDE DEF e
<1>1. d.term.state \in {"NORMAL", "LINE_END", "ESCAPE", "CSI", "SS3", "DONE"}
    BY DEF Painting, Terminal
<1>2. CASE d.term.state = "NORMAL"
    <2>1. e = term_handle_normal(d, c, t) /\ Keyed(d.term, c) = Edited(d.term, c)
        BY <1>2 DEF term_handle_key, Keyed, e
    <2> QED BY <2>1, NormalIs
<1>3. CASE d.term.state = "LINE_END"
    <2> DEFINE f == [d EXCEPT !.term.state = "NORMAL"]
    <2>1. e = IF c = "LF" THEN f ELSE term_handle_normal(f, c, t)
        BY <1>3 DEF term_handle_key, term_handle_line_end, e
    <2>2. /\ f \in Painting /\ f.term = [d.term EXCEPT !.state = "NORMAL"]
          /\ f.out = d.out /\ f.term.line = d.term.line /\ Edits(d, f, t)
        BY StateIs
    <2>3. Keyed(d.term, c) = IF c = "LF" THEN f.term ELSE Edited(f.term, c)
        BY <1>3, <2>2 DEF Keyed
    <2> HIDE DEF f
    <2>4. /\ term_handle_normal(f, c, t).term = Edited(f.term, c)
          /\ Edits(f, term_handle_normal(f, c, t), t)
        BY <2>2, NormalIs
    <2>5. Edits(d, term_handle_normal(f, c, t), t)
        BY <2>2, <2>4 DEF Edits
    <2> QED BY <2>1, <2>2, <2>3, <2>4, <2>5
<1>4. CASE d.term.state = "ESCAPE"
    <2> DEFINE state == CASE c = "[" -> "CSI" [] c = "O" -> "SS3" [] OTHER -> "NORMAL"
    <2>1. e = [d EXCEPT !.term.state = state] /\ Keyed(d.term, c) = [d.term EXCEPT !.state = state]
        BY <1>4 DEF term_handle_key, term_handle_escape, Keyed, e
    <2>2. state \in {"NORMAL", "LINE_END", "ESCAPE", "CSI", "SS3", "DONE"}
        OBVIOUS
    <2> HIDE DEF state
    <2> QED BY <2>1, <2>2, StateIs
<1>5. CASE d.term.state \in {"CSI", "SS3"}
    <2>1. e = IF c \in Final THEN [d EXCEPT !.term.state = "NORMAL"] ELSE d
        BY <1>5 DEF term_handle_key, term_handle_csi, e
    <2>2. Keyed(d.term, c) = IF c \in Final THEN [d.term EXCEPT !.state = "NORMAL"] ELSE d.term
        BY <1>5 DEF Keyed
    <2> QED BY <2>1, <2>2, StateIs, StaysEdits
<1>6. CASE d.term.state = "DONE"
    <2>1. e = d /\ Keyed(d.term, c) = d.term
        BY <1>6 DEF term_handle_key, Keyed, e
    <2> QED BY <2>1, StaysEdits
<1> QED
    BY <1>1, <1>2, <1>3, <1>4, <1>5, <1>6

LEMMA KeyedKeeps ==
    ASSUME NEW s \in Terminal, NEW c \in Byte
    PROVE  Keyed(s, c) \in Terminal
<1> DEFINE d == [term |-> s, out |-> <<>>]
<1>1. d \in Painting /\ d.term = s
    BY EmptySeq DEF Painting
<1> HIDE DEF d
<1>2. term_handle_key(d, c, Cleared).term = Keyed(s, c) /\ term_handle_key(d, c, Cleared) \in Painting
    BY <1>1, KeyIs DEF Edits
<1> QED
    BY <1>2 DEF Painting

-----------------------------------------------------------------------------
(* What was said of the options and is on its way, each thing once.        *)

Answers(q) == {q[i] : i \in DOMAIN q} \cap Answer
Once(q) == \A i, j \in DOMAIN q : q[i] = q[j] /\ q[i] \in Answer => i = j

\* q says what is in p and was not in o.
Adds(o, q, p) == Once(q) /\ Answers(q) \cap o = {} /\ p = o \cup Answers(q)

LEMMA AddsNothing == ASSUME NEW o PROVE Adds(o, <<>>, o) /\ Once(<<>>) /\ Answers(<<>>) = {}
BY DEF Adds, Once, Answers

LEMMA AppendAnswer ==
    ASSUME NEW q \in Seq(Token), NEW k \in Token
    PROVE  /\ k \in Answer => Answers(Append(q, k)) = Answers(q) \cup {k}
           /\ k \notin Answer => Answers(Append(q, k)) = Answers(q)
           /\ Once(q) /\ k \notin Answers(q) => Once(Append(q, k))
<1> DEFINE n == Len(q)
           r == Append(q, k)
<1>1. /\ n \in Nat /\ DOMAIN q = 1 .. n /\ DOMAIN r = 1 .. n + 1
      /\ r[n + 1] = k /\ \A i \in 1 .. n : r[i] = q[i]
    <2>1. r \in Seq(Token) /\ Len(r) = n + 1 /\ r[n + 1] = k /\ \A i \in 1 .. n : r[i] = q[i]
        BY AppendProperties
    <2> HIDE DEF r
    <2> QED BY <2>1, LenProperties
<1> HIDE DEF n, r
<1>2. \A x : x \in {r[i] : i \in DOMAIN r} <=> x = k \/ x \in {q[i] : i \in DOMAIN q}
    <2> TAKE x
    <2>1. ASSUME x \in {r[i] : i \in DOMAIN r} PROVE x = k \/ x \in {q[i] : i \in DOMAIN q}
        <3>1. PICK i \in 1 .. n + 1 : x = r[i]
            BY <1>1, <2>1
        <3>2. CASE i = n + 1
            BY <1>1, <3>1, <3>2
        <3>3. CASE i # n + 1
            <4>1. i \in 1 .. n
                BY <1>1, <3>3
            <4> QED BY <1>1, <3>1, <4>1
        <3> QED BY <3>2, <3>3
    <2>2. ASSUME x = k PROVE x \in {r[i] : i \in DOMAIN r}
        <3>1. n + 1 \in DOMAIN r
            BY <1>1
        <3> QED BY <1>1, <2>2, <3>1
    <2>3. ASSUME x \in {q[i] : i \in DOMAIN q} PROVE x \in {r[i] : i \in DOMAIN r}
        <3>1. PICK i \in 1 .. n : x = q[i]
            BY <1>1, <2>3
        <3>2. i \in DOMAIN r
            BY <1>1
        <3> QED BY <1>1, <3>1, <3>2
    <2> QED BY <2>1, <2>2, <2>3
<1>3. k \in Answer => Answers(r) = Answers(q) \cup {k}
    BY <1>2 DEF Answers
<1>4. k \notin Answer => Answers(r) = Answers(q)
    BY <1>2 DEF Answers
<1>5. ASSUME Once(q), k \notin Answers(q) PROVE Once(r)
    <2> SUFFICES ASSUME NEW i \in 1 .. n + 1, NEW j \in 1 .. n + 1, r[i] = r[j], r[i] \in Answer
                 PROVE  i = j
        BY <1>1 DEF Once
    <2>1. ASSUME NEW a \in 1 .. n PROVE r[a] = q[a] /\ (q[a] \in Answer => q[a] # k)
        BY <1>1, <1>5 DEF Answers
    <2>2. CASE i = n + 1 /\ j # n + 1
        <3>1. j \in 1 .. n
            BY <1>1, <2>2
        <3> QED BY <1>1, <2>1, <2>2, <3>1
    <2>3. CASE j = n + 1 /\ i # n + 1
        <3>1. i \in 1 .. n
            BY <1>1, <2>3
        <3> QED BY <1>1, <2>1, <2>3, <3>1
    <2>4. CASE i # n + 1 /\ j # n + 1
        <3>1. i \in 1 .. n /\ j \in 1 .. n
            BY <1>1, <2>4
        <3>2. q[i] = q[j] /\ q[i] \in Answer
            BY <2>1, <3>1
        <3> QED BY <1>1, <1>5, <3>1, <3>2 DEF Once
    <2> QED BY <2>2, <2>3, <2>4
<1> QED
    BY <1>3, <1>4, <1>5 DEF r

LEMMA AddsOne ==
    ASSUME NEW o, NEW q \in Seq(Answer), NEW p, Adds(o, q, p), NEW k \in Answer, k \notin p
    PROVE  Adds(o, Append(q, k), p \cup {k})
<1>1. q \in Seq(Token) /\ k \in Token
    BY OnScreenTokens DEF Token
<1>2. k \notin o /\ k \notin Answers(q)
    BY DEF Adds
<1>3. Answers(Append(q, k)) = Answers(q) \cup {k} /\ Once(Append(q, k))
    BY <1>1, <1>2, AppendAnswer DEF Adds
<1> QED
    BY <1>2, <1>3 DEF Adds

LEMMA ConcatAnswers ==
    ASSUME NEW q \in Seq(Token), NEW r \in Seq(Token)
    PROVE  /\ Answers(q \o r) = Answers(q) \cup Answers(r)
           /\ Once(q) /\ Once(r) /\ Answers(q) \cap Answers(r) = {} => Once(q \o r)
<1> DEFINE n == Len(q)
           k == Len(r)
           w == q \o r
<1>1. /\ n \in Nat /\ k \in Nat /\ DOMAIN q = 1 .. n /\ DOMAIN r = 1 .. k /\ DOMAIN w = 1 .. n + k
      /\ \A i \in 1 .. n + k : w[i] = IF i <= n THEN q[i] ELSE r[i - n]
    <2>1. w \in Seq(Token) /\ Len(w) = n + k
          /\ \A i \in 1 .. n + k : w[i] = IF i <= n THEN q[i] ELSE r[i - n]
        BY ConcatProperties
    <2> HIDE DEF w
    <2> QED BY <2>1, LenProperties
<1> HIDE DEF n, k, w
<1>2. ASSUME NEW i \in 1 .. n PROVE i \in 1 .. n + k /\ w[i] = q[i]
    BY <1>1
<1>3. ASSUME NEW i \in 1 .. k PROVE i + n \in 1 .. n + k /\ w[i + n] = r[i]
    <2>1. i + n \in 1 .. n + k /\ ~(i + n <= n) /\ i + n - n = i
        BY <1>1
    <2> QED BY <1>1, <2>1
<1>4. ASSUME NEW i \in 1 .. n + k
      PROVE  \/ i \in 1 .. n /\ w[i] = q[i]
             \/ i - n \in 1 .. k /\ w[i] = r[i - n]
    BY <1>1
<1>5. Answers(w) = Answers(q) \cup Answers(r)
    <2>1. ASSUME NEW x \in Answers(w) PROVE x \in Answers(q) \cup Answers(r)
        <3>1. PICK i \in 1 .. n + k : x = w[i]
            BY <1>1, <2>1 DEF Answers
        <3> QED BY <1>1, <1>4, <2>1, <3>1 DEF Answers
    <2>2. ASSUME NEW x \in Answers(q) PROVE x \in Answers(w)
        <3>1. PICK i \in 1 .. n : x = q[i]
            BY <1>1, <2>2 DEF Answers
        <3> QED BY <1>1, <1>2, <2>2, <3>1 DEF Answers
    <2>3. ASSUME NEW x \in Answers(r) PROVE x \in Answers(w)
        <3>1. PICK i \in 1 .. k : x = r[i]
            BY <1>1, <2>3 DEF Answers
        <3> QED BY <1>1, <1>3, <2>3, <3>1 DEF Answers
    <2> QED BY <2>1, <2>2, <2>3
<1>6. ASSUME Once(q), Once(r), Answers(q) \cap Answers(r) = {} PROVE Once(w)
    <2> SUFFICES ASSUME NEW i \in 1 .. n + k, NEW j \in 1 .. n + k, w[i] = w[j], w[i] \in Answer
                 PROVE  i = j
        BY <1>1 DEF Once
    <2>1. ASSUME NEW a \in 1 .. n + k
          PROVE  \/ a \in 1 .. n /\ w[a] = q[a] /\ (w[a] \in Answer => w[a] \in Answers(q))
                 \/ a - n \in 1 .. k /\ w[a] = r[a - n] /\ (w[a] \in Answer => w[a] \in Answers(r))
        BY <1>1, <1>4 DEF Answers
    <2>2. CASE i \in 1 .. n /\ j \in 1 .. n
        BY <1>1, <1>2, <1>6, <2>2 DEF Once
    <2>3. CASE i - n \in 1 .. k /\ w[i] = r[i - n] /\ j - n \in 1 .. k /\ w[j] = r[j - n]
        <3>1. i - n = j - n
            BY <1>1, <1>6, <2>3 DEF Once
        <3> QED BY <1>1, <3>1
    <2> QED BY <1>6, <2>1, <2>2, <2>3
<1> QED
    BY <1>5, <1>6 DEF w

LEMMA ScreenAnswers ==
    ASSUME NEW q \in Seq(OnScreen)
    PROVE  Answers(q) = {} /\ Once(q)
<1>1. \A i \in DOMAIN q : q[i] \notin Answer
    BY LenProperties, ElementOfSeq, TokenKinds
<1> QED
    BY <1>1 DEF Answers, Once

LEMMA HeadAnswers ==
    ASSUME NEW q \in Seq(Token), q # <<>>, Once(q)
    PROVE  /\ Once(Tail(q))
           /\ Answers(Tail(q)) = Answers(q) \ {Head(q)}
           /\ Head(q) \in Answer => Head(q) \in Answers(q)
<1> DEFINE n == Len(q)
           r == Tail(q)
<1>1. /\ n \in Nat \ {0} /\ DOMAIN q = 1 .. n /\ DOMAIN r = 1 .. n - 1 /\ Head(q) = q[1]
      /\ \A i \in 1 .. n - 1 : r[i] = q[i + 1]
    <2>1. n \in Nat \ {0} /\ r \in Seq(Token) /\ Len(r) = n - 1 /\ \A i \in 1 .. n - 1 : r[i] = q[i + 1]
        BY EmptySeq, HeadTailProperties
    <2> HIDE DEF r
    <2> QED BY <2>1, LenProperties
<1> DEFINE h == Head(q)
<1> HIDE DEF n, r, h
<1>2. h = q[1] /\ 1 \in 1 .. n
    BY <1>1 DEF h
<1>3. ASSUME NEW i \in 1 .. n - 1 PROVE i + 1 \in 1 .. n /\ i + 1 # 1 /\ r[i] = q[i + 1]
    BY <1>1
<1>4. Once(r)
    <2> SUFFICES ASSUME NEW i \in 1 .. n - 1, NEW j \in 1 .. n - 1, r[i] = r[j], r[i] \in Answer
                 PROVE  i = j
        BY <1>1 DEF Once
    <2>1. i + 1 = j + 1
        BY <1>1, <1>3 DEF Once
    <2> QED BY <1>1, <2>1
<1>5. Answers(r) = Answers(q) \ {h}
    <2>1. ASSUME NEW x \in Answers(r) PROVE x \in Answers(q) \ {h}
        <3>1. PICK i \in 1 .. n - 1 : x = r[i]
            BY <1>1, <2>1 DEF Answers
        <3>2. x = q[i + 1] /\ i + 1 \in 1 .. n /\ i + 1 # 1
            BY <1>3, <3>1
        <3>3. x # h
            BY <1>1, <1>2, <2>1, <3>2 DEF Once, Answers
        <3> QED BY <1>1, <2>1, <3>2, <3>3 DEF Answers
    <2>2. ASSUME NEW x \in Answers(q) \ {h} PROVE x \in Answers(r)
        <3>1. PICK i \in 1 .. n : x = q[i]
            BY <1>1, <2>2 DEF Answers
        <3>2. i # 1
            BY <1>2, <2>2, <3>1
        <3>3. i - 1 \in 1 .. n - 1 /\ i - 1 + 1 = i
            BY <1>1, <3>2
        <3>4. r[i - 1] = x
            BY <1>3, <3>1, <3>3
        <3> QED BY <1>1, <2>2, <3>3, <3>4 DEF Answers
    <2> QED BY <2>1, <2>2
<1>6. h \in Answer => h \in Answers(q)
    BY <1>1, <1>2 DEF Answers
<1> QED
    BY <1>4, <1>5, <1>6 DEF r, h

-----------------------------------------------------------------------------
(* What the bytes on the connection will make of the device and the        *)
(* terminal, however they are cut into reads.                              *)

\* The device's memory, the terminal's, and what will have been said.
Glimpse == [tel : Memory, term : Terminal, owed : SUBSET Answer]

Follows(x, c, y) ==
    LET h == Heard(x.tel, c)
    IN  /\ x.tel.state = "OPTION" => c \in AnyOption
        /\ y.tel = h.tel
        /\ y.term = IF h.data = <<>> THEN x.term ELSE Keyed(x.term, h.data[1])
        /\ \/ h.out = <<>> /\ y.owed = x.owed
           \/ h.out # <<>> /\ h.out[1] \notin x.owed /\ y.owed = x.owed \cup {h.out[1]}

Foresees(G, x, w) ==
    /\ G \in [0 .. Len(w) -> Glimpse] /\ G[0] = x
    /\ \A i \in 1 .. Len(w) : Follows(G[i - 1], w[i], G[i])
Sees(x, w, y) == \E G : Foresees(G, x, w) /\ G[Len(w)] = y

LEMMA SeesNothing == ASSUME NEW x \in Glimpse PROVE Sees(x, <<>>, x)
<1> DEFINE G == [i \in 0 .. 0 |-> x]
<1>1. Len(<<>>) = 0
    OBVIOUS
<1>2. Foresees(G, x, <<>>) /\ G[0] = x
    BY <1>1 DEF Foresees
<1> QED
    BY <1>1, <1>2 DEF Sees

LEMMA SeesEmpty == ASSUME NEW x, NEW y, Sees(x, <<>>, y) PROVE x = y
BY DEF Sees, Foresees

LEMMA SeesTyped ==
    ASSUME NEW x, NEW y, NEW w \in Seq(Byte), Sees(x, w, y)
    PROVE  x \in Glimpse /\ y \in Glimpse
<1>1. PICK G : Foresees(G, x, w) /\ G[Len(w)] = y
    BY DEF Sees
<1>2. Len(w) \in Nat /\ 0 \in 0 .. Len(w) /\ Len(w) \in 0 .. Len(w)
    BY LenProperties
<1> QED
    BY <1>1, <1>2 DEF Foresees

LEMMA SeesMore ==
    ASSUME NEW x, NEW w \in Seq(Byte), NEW y, Sees(x, w, y),
           NEW c \in Byte, NEW z \in Glimpse, Follows(y, c, z)
    PROVE  Sees(x, Append(w, c), z)
<1>1. PICK A : Foresees(A, x, w) /\ A[Len(w)] = y
    BY DEF Sees
<1> DEFINE n == Len(w)
           v == Append(w, c)
           G == [i \in 0 .. n + 1 |-> IF i <= n THEN A[i] ELSE z]
<1>2. n \in Nat /\ Len(v) = n + 1 /\ v[n + 1] = c /\ \A i \in 1 .. n : v[i] = w[i]
    BY AppendProperties, LenProperties
<1>3. /\ A \in [0 .. n -> Glimpse] /\ A[0] = x /\ A[n] = y
      /\ \A i \in 1 .. n : Follows(A[i - 1], w[i], A[i])
    BY <1>1 DEF Foresees
<1> HIDE DEF n, v
<1>4. G \in [0 .. n + 1 -> Glimpse] /\ G[0] = x /\ G[n + 1] = z
    BY <1>2, <1>3
<1>5. ASSUME NEW i \in 1 .. n + 1 PROVE Follows(G[i - 1], v[i], G[i])
    <2>1. CASE i <= n
        <3>1. i \in 1 .. n /\ i - 1 <= n /\ i \in 0 .. n + 1 /\ i - 1 \in 0 .. n + 1
            BY <1>2, <2>1
        <3>2. G[i] = A[i] /\ G[i - 1] = A[i - 1] /\ v[i] = w[i]
            BY <1>2, <2>1, <3>1
        <3> QED BY <1>3, <3>1, <3>2
    <2>2. CASE ~(i <= n)
        <3>1. i = n + 1 /\ i - 1 = n /\ n <= n /\ n \in 0 .. n + 1 /\ i \in 0 .. n + 1
            BY <1>2, <2>2
        <3>2. G[i] = z /\ G[i - 1] = A[n] /\ v[i] = c
            BY <1>2, <2>2, <3>1
        <3> QED BY <1>3, <3>2
    <2> QED BY <2>1, <2>2
<1> HIDE DEF G
<1>6. Foresees(G, x, v) /\ G[Len(v)] = z
    BY <1>2, <1>4, <1>5 DEF Foresees
<1>7. Sees(x, v, z)
    BY <1>6 DEF Sees
<1> QED
    BY <1>7 DEF v

\* From what is foreseen after n bytes, and up to there.
LEMMA SeesFrom ==
    ASSUME NEW w \in Seq(Byte), NEW x, NEW G, Foresees(G, x, w), NEW n \in 0 .. Len(w)
    PROVE  /\ SubSeq(w, n + 1, Len(w)) \in Seq(Byte)
           /\ Sees(G[n], SubSeq(w, n + 1, Len(w)), G[Len(w)])
<1> DEFINE k == Len(w)
           v == SubSeq(w, n + 1, k)
           H == [i \in 0 .. k - n |-> G[n + i]]
<1>1. k \in Nat /\ n \in Nat /\ n <= k
    BY LenProperties
<1>2. v \in Seq(Byte) /\ Len(v) = k - n /\ \A i \in 1 .. k - n : v[i] = w[n + i]
    <2>1. \A i \in n + 1 .. k : w[i] \in Byte
        BY <1>1, ElementOfSeq
    <2>2. n + 1 \in Int /\ k \in Int
        BY <1>1
    <2> HIDE DEF k
    <2>3. /\ v \in Seq(Byte)
          /\ Len(v) = IF n + 1 <= k THEN k - (n + 1) + 1 ELSE 0
          /\ \A i \in 1 .. k - (n + 1) + 1 : v[i] = w[n + 1 + i - 1]
        BY <2>1, <2>2, SubSeqProperties
    <2> HIDE DEF v
    <2>4. k - (n + 1) + 1 = k - n /\ \A i \in Int : n + 1 + i - 1 = n + i
        BY <1>1
    <2> QED BY <1>1, <2>3, <2>4
<1>3. /\ G \in [0 .. k -> Glimpse]
      /\ \A i \in 1 .. k : Follows(G[i - 1], w[i], G[i])
    BY DEF Foresees
<1> HIDE DEF k, v
<1>4. H \in [0 .. k - n -> Glimpse] /\ H[0] = G[n] /\ H[k - n] = G[k]
    <2>1. \A i \in 0 .. k - n : n + i \in 0 .. k
        BY <1>1
    <2>2. 0 \in 0 .. k - n /\ k - n \in 0 .. k - n /\ n + 0 = n /\ n + (k - n) = k
        BY <1>1
    <2> QED BY <1>3, <2>1, <2>2
<1>5. ASSUME NEW i \in 1 .. k - n PROVE Follows(H[i - 1], v[i], H[i])
    <2>1. /\ i \in 0 .. k - n /\ i - 1 \in 0 .. k - n /\ n + i \in 1 .. k
          /\ n + (i - 1) = n + i - 1
        BY <1>1
    <2>2. H[i] = G[n + i] /\ H[i - 1] = G[n + i - 1] /\ v[i] = w[n + i]
        BY <1>2, <2>1
    <2> QED BY <1>3, <2>1, <2>2
<1> HIDE DEF H
<1>6. Foresees(H, G[n], v) /\ H[Len(v)] = G[k]
    BY <1>2, <1>4, <1>5 DEF Foresees
<1>7. v \in Seq(Byte) /\ Sees(G[n], v, G[k])
    BY <1>2, <1>6 DEF Sees
<1> QED
    BY <1>7 DEF v, k

LEMMA SeesUpTo ==
    ASSUME NEW w \in Seq(Byte), NEW x, NEW y, Sees(x, w, y), NEW n \in 0 .. Len(w)
    PROVE  SubSeq(w, 1, n) \in Seq(Byte) /\ \E z : Sees(x, SubSeq(w, 1, n), z)
<1>1. PICK G : Foresees(G, x, w) /\ G[Len(w)] = y
    BY DEF Sees
<1> DEFINE k == Len(w)
           v == SubSeq(w, 1, n)
           H == [i \in 0 .. n |-> G[i]]
<1>2. k \in Nat /\ n \in Nat /\ n <= k
    BY LenProperties
<1>3. v \in Seq(Byte) /\ Len(v) = n /\ \A i \in 1 .. n : v[i] = w[i]
    <2>1. \A i \in 1 .. n : w[i] \in Byte
        BY <1>2, ElementOfSeq
    <2>2. /\ v \in Seq(Byte) /\ Len(v) = IF 1 <= n THEN n - 1 + 1 ELSE 0
          /\ \A i \in 1 .. n - 1 + 1 : v[i] = w[1 + i - 1]
        BY <1>2, <2>1, SubSeqProperties
    <2> HIDE DEF v
    <2>3. n - 1 + 1 = n /\ \A i \in Int : 1 + i - 1 = i
        BY <1>2
    <2> QED BY <1>2, <2>2, <2>3
<1>4. /\ G \in [0 .. k -> Glimpse] /\ G[0] = x
      /\ \A i \in 1 .. k : Follows(G[i - 1], w[i], G[i])
    BY <1>1 DEF Foresees
<1> HIDE DEF k, v
<1>5. H \in [0 .. n -> Glimpse] /\ H[0] = x
    BY <1>2, <1>4
<1>6. ASSUME NEW i \in 1 .. n PROVE Follows(H[i - 1], v[i], H[i])
    <2>1. i \in 0 .. n /\ i - 1 \in 0 .. n /\ i \in 1 .. k
        BY <1>2
    <2> QED BY <1>3, <1>4, <2>1
<1> HIDE DEF H
<1>7. Foresees(H, x, v)
    BY <1>3, <1>5, <1>6 DEF Foresees
<1>8. v \in Seq(Byte) /\ \E z : Sees(x, v, z)
    BY <1>3, <1>7 DEF Sees
<1> QED
    BY <1>8 DEF v

LEMMA SeesBoth ==
    ASSUME NEW v \in Seq(Byte), NEW w \in Seq(Byte), NEW x, NEW y, NEW z,
           Sees(x, v, y), Sees(y, w, z)
    PROVE  Sees(x, v \o w, z)
<1>1. PICK A : Foresees(A, x, v) /\ A[Len(v)] = y
    BY DEF Sees
<1>2. PICK B : Foresees(B, y, w) /\ B[Len(w)] = z
    BY DEF Sees
<1> DEFINE n == Len(v)
           k == Len(w)
           u == v \o w
           G == [i \in 0 .. n + k |-> IF i <= n THEN A[i] ELSE B[i - n]]
<1>3. /\ n \in Nat /\ k \in Nat /\ Len(u) = n + k
      /\ \A i \in 1 .. n + k : u[i] = IF i <= n THEN v[i] ELSE w[i - n]
    BY ConcatProperties, LenProperties
<1>4. /\ A \in [0 .. n -> Glimpse] /\ A[0] = x /\ A[n] = y
      /\ \A i \in 1 .. n : Follows(A[i - 1], v[i], A[i])
    BY <1>1 DEF Foresees
<1>5. /\ B \in [0 .. k -> Glimpse] /\ B[0] = y /\ B[k] = z
      /\ \A i \in 1 .. k : Follows(B[i - 1], w[i], B[i])
    BY <1>2 DEF Foresees
<1> HIDE DEF n, k, u
<1>6. ASSUME NEW i \in 0 .. n + k
      PROVE  (i <= n => G[i] = A[i]) /\ (n <= i => G[i] = B[i - n])
    <2>1. G[i] = IF i <= n THEN A[i] ELSE B[i - n]
        OBVIOUS
    <2>2. i = n => i - n = 0
        BY <1>3
    <2> HIDE DEF G
    <2> QED BY <1>3, <1>4, <1>5, <2>1, <2>2
<1>7. G \in [0 .. n + k -> Glimpse]
    BY <1>3, <1>4, <1>5
<1> HIDE DEF G
<1>8. G[0] = x /\ G[n + k] = z
    <2>1. 0 \in 0 .. n + k /\ n + k \in 0 .. n + k /\ n + k - n = k /\ 0 <= n /\ n <= n + k
        BY <1>3
    <2>2. G[0] = A[0]
        BY <1>6, <2>1
    <2>3. G[n + k] = B[k]
        <3> DEFINE e == n + k
        <3>1. e \in 0 .. n + k /\ n <= e /\ e - n = k
            BY <1>3, <2>1
        <3> HIDE DEF e
        <3>2. G[e] = B[e - n]
            BY <1>6, <3>1
        <3> QED BY <3>1, <3>2 DEF e
    <2> QED BY <1>4, <1>5, <2>2, <2>3
<1>9. ASSUME NEW i \in 1 .. n + k PROVE Follows(G[i - 1], u[i], G[i])
    <2>1. i \in 0 .. n + k /\ i - 1 \in 0 .. n + k
        BY <1>3
    <2>2. CASE i <= n
        <3>1. i \in 1 .. n /\ i - 1 <= n
            BY <1>3, <2>2
        <3>2. G[i] = A[i] /\ G[i - 1] = A[i - 1] /\ u[i] = v[i]
            BY <1>3, <1>6, <2>1, <2>2, <3>1
        <3> QED BY <1>4, <3>1, <3>2
    <2>3. CASE ~(i <= n)
        <3>1. i - n \in 1 .. k /\ n <= i - 1 /\ n <= i /\ i - 1 - n = i - n - 1
            BY <1>3, <2>3
        <3>2. G[i] = B[i - n] /\ G[i - 1] = B[i - n - 1] /\ u[i] = w[i - n]
            BY <1>3, <1>6, <2>1, <2>3, <3>1
        <3> QED BY <1>5, <3>1, <3>2
    <2> QED BY <2>2, <2>3
<1>10. Foresees(G, x, u) /\ G[Len(u)] = z
    BY <1>3, <1>7, <1>8, <1>9 DEF Foresees
<1>11. Sees(x, u, z)
    BY <1>10 DEF Sees
<1> QED
    BY <1>11 DEF u

\* What is no longer on its way to the peer was not said by a byte to come.
Without(x, k) == [x EXCEPT !.owed = @ \ {k}]

LEMMA OwedStays ==
    ASSUME NEW w \in Seq(Byte), NEW x, NEW G, Foresees(G, x, w), NEW k, k \in x.owed,
           NEW n \in 0 .. Len(w)
    PROVE  k \in G[n].owed
<1> DEFINE S == {i \in Nat : i \in 0 .. Len(w) /\ k \notin G[i].owed}
<1>1. Len(w) \in Nat
    BY LenProperties
<1> SUFFICES ASSUME S # {} PROVE FALSE
    BY <1>1
<1>2. PICK i \in S : \A j \in S : ~(<<j, i>> \in OpToRel(<, Nat))
    <2> HIDE DEF S
    <2>1. S \subseteq Nat
        BY DEF S
    <2> QED BY <2>1, NatLessThanWellFounded, WFMin
<1>3. i \in Nat /\ i \in 0 .. Len(w) /\ k \notin G[i].owed
    OBVIOUS
<1>4. i # 0
    BY <1>3 DEF Foresees
<1>5. i - 1 \in Nat /\ i - 1 < i /\ i - 1 \in 0 .. Len(w) /\ i \in 1 .. Len(w)
    BY <1>1, <1>3, <1>4
<1>6. i - 1 \notin S
    BY <1>2, <1>3, <1>5 DEF OpToRel
<1>7. k \in G[i - 1].owed
    BY <1>5, <1>6
<1>8. Follows(G[i - 1], w[i], G[i])
    BY <1>5 DEF Foresees
<1> HIDE DEF S
<1> QED
    BY <1>3, <1>7, <1>8 DEF Follows

LEMMA SeesWithout ==
    ASSUME NEW w \in Seq(Byte), NEW x, NEW y, Sees(x, w, y), NEW k, k \in x.owed
    PROVE  Sees(Without(x, k), w, Without(y, k))
<1>1. PICK G : Foresees(G, x, w) /\ G[Len(w)] = y
    BY DEF Sees
<1> DEFINE n == Len(w)
           H == [i \in 0 .. n |-> Without(G[i], k)]
<1>2. n \in Nat /\ 0 \in 0 .. n /\ n \in 0 .. n
    BY LenProperties
<1>3. \A i \in 0 .. n : k \in G[i].owed
    BY <1>1, OwedStays
<1>4. /\ G \in [0 .. n -> Glimpse] /\ G[0] = x
      /\ \A i \in 1 .. n : Follows(G[i - 1], w[i], G[i])
    BY <1>1 DEF Foresees
<1>5. ASSUME NEW g \in Glimpse
      PROVE  /\ Without(g, k) \in Glimpse
             /\ Without(g, k).tel = g.tel /\ Without(g, k).term = g.term
             /\ Without(g, k).owed = g.owed \ {k}
    BY DEF Without, Glimpse
<1> HIDE DEF n
<1>6. H \in [0 .. n -> Glimpse] /\ H[0] = Without(x, k) /\ H[n] = Without(y, k)
    BY <1>1, <1>2, <1>4, <1>5 DEF n
<1>7. ASSUME NEW i \in 1 .. n PROVE Follows(H[i - 1], w[i], H[i])
    <2>1. i \in 0 .. n /\ i - 1 \in 0 .. n
        BY <1>2
    <2> DEFINE a == G[i - 1]
               b == G[i]
               h == Heard(a.tel, w[i])
    <2>2. a \in Glimpse /\ b \in Glimpse /\ k \in a.owed /\ k \in b.owed
        BY <1>3, <1>4, <2>1
    <2>3. H[i] = Without(b, k) /\ H[i - 1] = Without(a, k)
        BY <2>1
    <2>4. Follows(a, w[i], b)
        BY <1>4
    <2> HIDE DEF a, b, H
    <2>5. h.out # <<>> /\ h.out[1] \notin a.owed /\ b.owed = a.owed \cup {h.out[1]}
             => /\ h.out[1] \notin a.owed \ {k}
                /\ b.owed \ {k} = (a.owed \ {k}) \cup {h.out[1]}
        BY <2>2
    <2>6. Follows(Without(a, k), w[i], Without(b, k))
        BY <1>5, <2>2, <2>4, <2>5 DEF Follows
    <2> QED BY <2>3, <2>6
<1> HIDE DEF H
<1>8. Foresees(H, Without(x, k), w) /\ H[Len(w)] = Without(y, k)
    BY <1>6, <1>7 DEF Foresees, n
<1> QED
    BY <1>8 DEF Sees

-----------------------------------------------------------------------------
(* The loop of telnet_read.                                                *)

Reads(m, t, chunk, n) ==
    m = [i \in 0 .. n |-> IF i = 0 THEN Machine(t, <<>>, <<>>) ELSE process(m[i - 1], chunk[i])]

LEMMA ReadsExist == ASSUME NEW t, NEW chunk, NEW n \in Nat PROVE \E m : Reads(m, t, chunk, n)
<1> DEFINE S == {k \in Nat : ~ \E m : Reads(m, t, chunk, k)}
<1> SUFFICES ASSUME S # {} PROVE FALSE
    OBVIOUS
<1>1. \E x \in S : \A y \in S : ~(<<y, x>> \in OpToRel(<, Nat))
    <2> HIDE DEF S
    <2>1. S \subseteq Nat
        BY DEF S
    <2> QED BY <2>1, NatLessThanWellFounded, WFMin
<1>2. PICK k \in S : \A y \in S : ~(<<y, k>> \in OpToRel(<, Nat))
    BY <1>1
<1>3. k \in Nat /\ ~ \E m : Reads(m, t, chunk, k)
    OBVIOUS
<1>4. k # 0
    <2> DEFINE m == [i \in 0 .. 0 |-> Machine(t, <<>>, <<>>)]
    <2>1. m = [i \in 0 .. 0 |-> IF i = 0 THEN Machine(t, <<>>, <<>>) ELSE process(m[i - 1], chunk[i])]
        OBVIOUS
    <2>2. Reads(m, t, chunk, 0)
        BY <2>1 DEF Reads
    <2> QED BY <1>3, <2>2
<1>5. k - 1 \in Nat /\ k - 1 < k
    BY <1>3, <1>4
<1>6. k - 1 \notin S
    BY <1>2, <1>3, <1>5 DEF OpToRel
<1>7. PICK e : Reads(e, t, chunk, k - 1)
    BY <1>5, <1>6
<1> DEFINE m == [i \in 0 .. k |-> IF i \in 0 .. k - 1 THEN e[i] ELSE process(e[k - 1], chunk[k])]
<1>8. \A i \in 0 .. k : m[i] = IF i = 0 THEN Machine(t, <<>>, <<>>) ELSE process(m[i - 1], chunk[i])
    <2> TAKE i \in 0 .. k
    <2>1. \A j \in 0 .. k - 1 : e[j] = IF j = 0 THEN Machine(t, <<>>, <<>>) ELSE process(e[j - 1], chunk[j])
        BY <1>7 DEF Reads
    <2>2. CASE i = k
        <3>1. i # 0 /\ i - 1 = k - 1 /\ i - 1 \in 0 .. k - 1 /\ i - 1 \in 0 .. k /\ i \notin 0 .. k - 1
            BY <1>3, <1>4, <2>2
        <3> QED BY <2>2, <3>1
    <2>3. CASE i # k
        <3>1. i \in 0 .. k - 1
            BY <1>3, <2>3
        <3>2. i # 0 => i - 1 \in 0 .. k - 1 /\ i - 1 \in 0 .. k
            BY <3>1
        <3> QED BY <2>1, <3>1, <3>2
    <2> QED BY <2>2, <2>3
<1>9. Reads(m, t, chunk, k)
    <2>1. m = [i \in 0 .. k |-> m[i]]
        OBVIOUS
    <2> HIDE DEF m
    <2> QED BY <1>8, <2>1 DEF Reads
<1> QED
    BY <1>3, <1>9

LEMMA ReadIs ==
    ASSUME NEW t, NEW chunk, Len(chunk) \in Nat
    PROVE  \E m : Reads(m, t, chunk, Len(chunk)) /\ telnet_read(t, chunk) = m[Len(chunk)]
<1> DEFINE m == CHOOSE m : Reads(m, t, chunk, Len(chunk))
<1>1. Reads(m, t, chunk, Len(chunk))
    BY ReadsExist
<1>2. telnet_read(t, chunk) = m[Len(chunk)]
    BY DEF telnet_read, Reads
<1> QED
    BY <1>1, <1>2

\* The keys of q take the terminal from s to u.
Types(K, s, q) ==
    /\ K \in [0 .. Len(q) -> Terminal] /\ K[0] = s
    /\ \A i \in 1 .. Len(q) : K[i] = Keyed(K[i - 1], q[i])
KeysTo(s, q, u) == \E K : Types(K, s, q) /\ K[Len(q)] = u

LEMMA KeysToNothing == ASSUME NEW s \in Terminal PROVE KeysTo(s, <<>>, s)
<1> DEFINE K == [i \in 0 .. 0 |-> s]
<1>1. Len(<<>>) = 0
    OBVIOUS
<1>2. Types(K, s, <<>>) /\ K[0] = s
    BY <1>1 DEF Types
<1> QED
    BY <1>1, <1>2 DEF KeysTo

LEMMA KeysToOne ==
    ASSUME NEW s, NEW q \in Seq(Byte), NEW u, KeysTo(s, q, u), NEW c \in Byte
    PROVE  KeysTo(s, Append(q, c), Keyed(u, c))
<1>1. PICK A : Types(A, s, q) /\ A[Len(q)] = u
    BY DEF KeysTo
<1> DEFINE n == Len(q)
           v == Append(q, c)
           z == Keyed(u, c)
           K == [i \in 0 .. n + 1 |-> IF i <= n THEN A[i] ELSE z]
<1>2. n \in Nat /\ Len(v) = n + 1 /\ v[n + 1] = c /\ \A i \in 1 .. n : v[i] = q[i]
    BY AppendProperties, LenProperties
<1>3. /\ A \in [0 .. n -> Terminal] /\ A[0] = s /\ A[n] = u
      /\ \A i \in 1 .. n : A[i] = Keyed(A[i - 1], q[i])
    BY <1>1 DEF Types
<1>4. z \in Terminal
    <2>1. u \in Terminal
        BY <1>2, <1>3
    <2> QED BY <2>1, KeyedKeeps
<1> HIDE DEF n, v
<1>5. K \in [0 .. n + 1 -> Terminal] /\ K[0] = s /\ K[n + 1] = z
    <2> HIDE DEF z
    <2> QED BY <1>2, <1>3, <1>4
<1>6. ASSUME NEW i \in 1 .. n + 1 PROVE K[i] = Keyed(K[i - 1], v[i])
    <2>1. CASE i <= n
        <3>1. i \in 1 .. n /\ i - 1 <= n /\ i \in 0 .. n + 1 /\ i - 1 \in 0 .. n + 1
            BY <1>2, <2>1
        <3>2. K[i] = A[i] /\ K[i - 1] = A[i - 1] /\ v[i] = q[i]
            BY <1>2, <2>1, <3>1
        <3> HIDE DEF K
        <3> QED BY <1>3, <3>1, <3>2
    <2>2. CASE ~(i <= n)
        <3>1. i = n + 1 /\ i - 1 = n /\ n <= n /\ n \in 0 .. n + 1 /\ i \in 0 .. n + 1
            BY <1>2, <2>2
        <3>2. K[i] = z /\ K[i - 1] = A[n] /\ v[i] = c
            <4> HIDE DEF z
            <4> QED BY <1>2, <2>2, <3>1
        <3> HIDE DEF K
        <3> QED BY <1>3, <3>2
    <2> QED BY <2>1, <2>2
<1> HIDE DEF K
<1>7. Types(K, s, v) /\ K[Len(v)] = z
    BY <1>2, <1>5, <1>6 DEF Types
<1>8. KeysTo(s, v, z)
    BY <1>7 DEF KeysTo
<1> QED
    BY <1>8 DEF v

\* What has been read of the bytes, when g was foreseen for here.
ReadSoFar(x, a, g) ==
    /\ a \in Parsing /\ a.tel = g.tel
    /\ Adds(x.owed, a.out, g.owed) /\ KeysTo(x.term, a.data, g.term)

LEMMA ReadOne ==
    ASSUME NEW x \in Glimpse, NEW a, NEW g \in Glimpse, ReadSoFar(x, a, g),
           NEW c \in Byte, NEW y \in Glimpse, Follows(g, c, y)
    PROVE  ReadSoFar(x, process(a, c), y)
<1> DEFINE r == process(a, c)
           h == Heard(g.tel, c)
<1>1. /\ a \in Parsing /\ a.tel = g.tel /\ a.out \in Seq(Answer) /\ a.data \in Seq(Byte)
      /\ Adds(x.owed, a.out, g.owed) /\ KeysTo(x.term, a.data, g.term)
    BY DEF ReadSoFar, Parsing
<1>2. Makes(a, r, h)
    BY <1>1, Hears DEF Follows
<1>3. /\ y.tel = h.tel
      /\ y.term = IF h.data = <<>> THEN g.term ELSE Keyed(g.term, h.data[1])
      /\ \/ h.out = <<>> /\ y.owed = g.owed
         \/ h.out # <<>> /\ h.out[1] \notin g.owed /\ y.owed = g.owed \cup {h.out[1]}
    BY DEF Follows
<1> HIDE DEF r, h
<1>4. r \in Parsing /\ r.tel = y.tel
    BY <1>2, <1>3 DEF Makes
<1>5. Adds(x.owed, r.out, y.owed)
    <2>1. CASE h.out = <<>> /\ r.out = a.out
        BY <1>1, <1>3, <2>1
    <2>2. CASE \E k \in Answer : h.out = <<k>> /\ r.out = Append(a.out, k)
        <3>1. PICK k \in Answer : h.out = <<k>> /\ r.out = Append(a.out, k)
            BY <2>2
        <3>2. h.out # <<>> /\ h.out[1] = k
            BY <3>1
        <3>3. k \notin g.owed /\ y.owed = g.owed \cup {k}
            BY <1>3, <3>2
        <3> QED BY <1>1, <3>1, <3>3, AddsOne
    <2> QED BY <1>2, <2>1, <2>2 DEF Makes
<1>6. KeysTo(x.term, r.data, y.term)
    <2>1. CASE h.data = <<>> /\ r.data = a.data
        BY <1>1, <1>3, <2>1
    <2>2. CASE \E b \in Byte : h.data = <<b>> /\ r.data = Append(a.data, b)
        <3>1. PICK b \in Byte : h.data = <<b>> /\ r.data = Append(a.data, b)
            BY <2>2
        <3>2. h.data # <<>> /\ h.data[1] = b
            BY <3>1
        <3>3. y.term = Keyed(g.term, b)
            BY <1>3, <3>2
        <3> QED BY <1>1, <3>1, <3>3, KeysToOne
    <2> QED BY <1>2, <2>1, <2>2 DEF Makes
<1>7. ReadSoFar(x, r, y)
    BY <1>4, <1>5, <1>6 DEF ReadSoFar
<1> QED
    BY <1>7 DEF r

\* What one read finds is what was foreseen.
LEMMA ReadAll ==
    ASSUME NEW w \in Seq(Byte), NEW x, NEW G, Foresees(G, x, w), NEW n \in 0 .. Len(w)
    PROVE  ReadSoFar(x, telnet_read(x.tel, SubSeq(w, 1, n)), G[n])
<1> DEFINE v == SubSeq(w, 1, n)
<1>1. /\ n \in Nat /\ n <= Len(w) /\ Len(w) \in Nat
    BY LenProperties
<1>2. Len(v) = n /\ \A i \in 1 .. n : v[i] = w[i]
    <2>1. \A i \in 1 .. n : w[i] \in Byte
        BY <1>1, ElementOfSeq
    <2>2. /\ Len(v) = IF 1 <= n THEN n - 1 + 1 ELSE 0
          /\ \A i \in 1 .. n - 1 + 1 : v[i] = w[1 + i - 1]
        BY <1>1, <2>1, SubSeqProperties
    <2> HIDE DEF v
    <2>3. n - 1 + 1 = n /\ \A i \in Int : 1 + i - 1 = i
        BY <1>1
    <2> QED BY <1>1, <2>2, <2>3
<1>3. PICK m : Reads(m, x.tel, v, n) /\ telnet_read(x.tel, v) = m[n]
    <2> HIDE DEF v
    <2> QED BY <1>1, <1>2, ReadIs
<1> HIDE DEF v
<1>4. \A i \in 0 .. n : m[i] = IF i = 0 THEN Machine(x.tel, <<>>, <<>>) ELSE process(m[i - 1], v[i])
    BY <1>3 DEF Reads
<1>5. /\ G \in [0 .. Len(w) -> Glimpse] /\ G[0] = x
      /\ \A i \in 1 .. Len(w) : Follows(G[i - 1], w[i], G[i])
    BY DEF Foresees
<1>6. x \in Glimpse
    BY <1>1, <1>5
<1> DEFINE S == {i \in Nat : i \in 0 .. n /\ ~ReadSoFar(x, m[i], G[i])}
<1>7. ASSUME S # {} PROVE FALSE
    <2>1. PICK i \in S : \A j \in S : ~(<<j, i>> \in OpToRel(<, Nat))
        <3> HIDE DEF S
        <3>1. S \subseteq Nat
            BY DEF S
        <3> QED BY <1>7, <3>1, NatLessThanWellFounded, WFMin
    <2>2. i \in Nat /\ i \in 0 .. n /\ ~ReadSoFar(x, m[i], G[i])
        OBVIOUS
    <2>3. ReadSoFar(x, m[0], G[0])
        <3>1. x.tel \in Memory /\ x.term \in Terminal
            BY <1>6 DEF Glimpse
        <3>2. m[0] = Machine(x.tel, <<>>, <<>>)
            BY <1>1, <1>4
        <3>3. m[0] \in Parsing /\ m[0].tel = x.tel /\ m[0].out = <<>> /\ m[0].data = <<>>
            BY <3>1, <3>2, AloneParses
        <3> QED BY <1>5, <3>1, <3>3, AddsNothing, KeysToNothing DEF ReadSoFar
    <2>4. i # 0
        BY <2>2, <2>3
    <2>5. /\ i - 1 \in Nat /\ i - 1 < i /\ i - 1 \in 0 .. n /\ i \in 1 .. n /\ i \in 1 .. Len(w)
          /\ i - 1 \in 0 .. Len(w) /\ i \in 0 .. Len(w)
        BY <1>1, <2>2, <2>4
    <2>6. i - 1 \notin S
        BY <2>1, <2>2, <2>5 DEF OpToRel
    <2>7. ReadSoFar(x, m[i - 1], G[i - 1])
        BY <2>5, <2>6
    <2> HIDE DEF S
    <2>8. Follows(G[i - 1], w[i], G[i]) /\ G[i - 1] \in Glimpse /\ G[i] \in Glimpse /\ w[i] \in Byte
        BY <1>5, <2>5, ElementOfSeq
    <2>9. m[i] = process(m[i - 1], w[i])
        BY <1>2, <1>4, <2>4, <2>5
    <2> QED BY <1>6, <2>2, <2>7, <2>8, <2>9, ReadOne
<1>8. ReadSoFar(x, m[n], G[n])
    BY <1>1, <1>7
<1> QED
    BY <1>3, <1>8 DEF v

-----------------------------------------------------------------------------
(* The loop of term_parse_buf.                                             *)

Parses(p, d, buf, t, n) ==
    p = [i \in 0 .. n |-> IF i = 0 THEN d ELSE term_handle_key(p[i - 1], buf[i], t)]

LEMMA ParsesExist ==
    ASSUME NEW d, NEW buf, NEW t, NEW n \in Nat
    PROVE  \E p : Parses(p, d, buf, t, n)
<1> DEFINE S == {k \in Nat : ~ \E p : Parses(p, d, buf, t, k)}
<1> SUFFICES ASSUME S # {} PROVE FALSE
    OBVIOUS
<1>1. \E x \in S : \A y \in S : ~(<<y, x>> \in OpToRel(<, Nat))
    <2> HIDE DEF S
    <2>1. S \subseteq Nat
        BY DEF S
    <2> QED BY <2>1, NatLessThanWellFounded, WFMin
<1>2. PICK k \in S : \A y \in S : ~(<<y, k>> \in OpToRel(<, Nat))
    BY <1>1
<1>3. k \in Nat /\ ~ \E p : Parses(p, d, buf, t, k)
    OBVIOUS
<1>4. k # 0
    <2> DEFINE p == [i \in 0 .. 0 |-> d]
    <2>1. p = [i \in 0 .. 0 |-> IF i = 0 THEN d ELSE term_handle_key(p[i - 1], buf[i], t)]
        OBVIOUS
    <2>2. Parses(p, d, buf, t, 0)
        BY <2>1 DEF Parses
    <2> QED BY <1>3, <2>2
<1>5. k - 1 \in Nat /\ k - 1 < k
    BY <1>3, <1>4
<1>6. k - 1 \notin S
    BY <1>2, <1>3, <1>5 DEF OpToRel
<1>7. PICK e : Parses(e, d, buf, t, k - 1)
    BY <1>5, <1>6
<1> DEFINE p == [i \in 0 .. k |-> IF i \in 0 .. k - 1 THEN e[i] ELSE term_handle_key(e[k - 1], buf[k], t)]
<1>8. \A i \in 0 .. k : p[i] = IF i = 0 THEN d ELSE term_handle_key(p[i - 1], buf[i], t)
    <2> TAKE i \in 0 .. k
    <2>1. \A j \in 0 .. k - 1 : e[j] = IF j = 0 THEN d ELSE term_handle_key(e[j - 1], buf[j], t)
        BY <1>7 DEF Parses
    <2>2. CASE i = k
        <3>1. i # 0 /\ i - 1 = k - 1 /\ i - 1 \in 0 .. k - 1 /\ i - 1 \in 0 .. k /\ i \notin 0 .. k - 1
            BY <1>3, <1>4, <2>2
        <3> QED BY <2>2, <3>1
    <2>3. CASE i # k
        <3>1. i \in 0 .. k - 1
            BY <1>3, <2>3
        <3>2. i # 0 => i - 1 \in 0 .. k - 1 /\ i - 1 \in 0 .. k
            BY <3>1
        <3> QED BY <2>1, <3>1, <3>2
    <2> QED BY <2>2, <2>3
<1>9. Parses(p, d, buf, t, k)
    <2>1. p = [i \in 0 .. k |-> p[i]]
        OBVIOUS
    <2> HIDE DEF p
    <2> QED BY <1>8, <2>1 DEF Parses
<1> QED
    BY <1>3, <1>9

LEMMA ParseIs ==
    ASSUME NEW d, NEW buf, NEW t, Len(buf) \in Nat
    PROVE  \E p : Parses(p, d, buf, t, Len(buf)) /\ term_parse_buf(d, buf, t) = p[Len(buf)]
<1> DEFINE p == CHOOSE p : Parses(p, d, buf, t, Len(buf))
<1>1. Parses(p, d, buf, t, Len(buf))
    BY ParsesExist
<1>2. term_parse_buf(d, buf, t) = p[Len(buf)]
    BY DEF term_parse_buf, Parses
<1> QED
    BY <1>1, <1>2

\* Keys have been handled, from s to u: while the device echoes, the screen
\* follows the line.
ParsedSoFar(s, d, u, t) ==
    /\ d \in Painting /\ d.term = u
    /\ telnet_echo_enabled(t) => Draws(s.line, d.out, u.line)

LEMMA ParseOne ==
    ASSUME NEW s \in Terminal, NEW d, NEW u, NEW t, ParsedSoFar(s, d, u, t), NEW c \in Byte
    PROVE  ParsedSoFar(s, term_handle_key(d, c, t), Keyed(u, c), t)
<1> DEFINE e == term_handle_key(d, c, t)
<1>1. d \in Painting /\ d.term = u /\ d.out \in Seq(OnScreen)
    BY DEF ParsedSoFar, Painting
<1>2. e.term = Keyed(u, c) /\ Edits(d, e, t)
    BY <1>1, KeyIs
<1> HIDE DEF e
<1>3. ASSUME telnet_echo_enabled(t) PROVE Draws(s.line, e.out, e.term.line)
    <2>1. Paints(d.out, u.line, e.out, e.term.line)
        BY <1>1, <1>2, <1>3 DEF Edits
    <2>2. PICK o \in Seq(OnScreen) : e.out = d.out \o o /\ Draws(u.line, o, e.term.line)
        BY <2>1 DEF Paints
    <2>3. Draws(s.line, d.out, u.line)
        BY <1>3 DEF ParsedSoFar
    <2>4. d.out \in Seq(Token) /\ o \in Seq(Token)
        BY <1>1, OnScreenTokens
    <2>5. Draws(s.line, d.out \o o, e.term.line)
        BY <2>2, <2>3, <2>4, DrawBoth
    <2> QED BY <2>2, <2>5
<1>4. e \in Painting
    BY <1>2 DEF Edits
<1>5. ParsedSoFar(s, e, Keyed(u, c), t)
    BY <1>2, <1>3, <1>4 DEF ParsedSoFar
<1> QED
    BY <1>5 DEF e

LEMMA ParseAll ==
    ASSUME NEW s \in Terminal, NEW q \in Seq(Byte), NEW u, KeysTo(s, q, u), NEW t
    PROVE  ParsedSoFar(s, term_parse_buf(Screen(s, <<>>), q, t), u, t)
<1> DEFINE n == Len(q)
           d == Screen(s, <<>>)
<1>1. n \in Nat /\ \A i \in 1 .. n : q[i] \in Byte
    BY LenProperties, ElementOfSeq
<1>2. PICK K : Types(K, s, q) /\ K[n] = u
    BY DEF KeysTo
<1>3. PICK p : Parses(p, d, q, t, n) /\ term_parse_buf(d, q, t) = p[n]
    <2> HIDE DEF d
    <2> QED BY <1>1, ParseIs
<1>4. d \in Painting /\ d.term = s /\ d.out = <<>>
    BY EmptySeq DEF Screen, Painting
<1> HIDE DEF d
<1>5. \A i \in 0 .. n : p[i] = IF i = 0 THEN d ELSE term_handle_key(p[i - 1], q[i], t)
    BY <1>3 DEF Parses
<1>6. K[0] = s /\ \A i \in 1 .. n : K[i] = Keyed(K[i - 1], q[i])
    BY <1>2 DEF Types
<1> HIDE DEF n
<1> DEFINE S == {i \in Nat : i \in 0 .. n /\ ~ParsedSoFar(s, p[i], K[i], t)}
<1>7. ASSUME S # {} PROVE FALSE
    <2>1. PICK i \in S : \A j \in S : ~(<<j, i>> \in OpToRel(<, Nat))
        <3> HIDE DEF S
        <3>1. S \subseteq Nat
            BY DEF S
        <3> QED BY <1>7, <3>1, NatLessThanWellFounded, WFMin
    <2>2. i \in Nat /\ i \in 0 .. n /\ ~ParsedSoFar(s, p[i], K[i], t)
        OBVIOUS
    <2>3. ParsedSoFar(s, p[0], K[0], t)
        <3>1. p[0] = d
            BY <1>1, <1>5
        <3>2. s.line \in Seq(Glyph)
            BY LinesShow DEF Terminal
        <3>3. Draws(s.line, <<>>, s.line)
            BY <3>2, DrawNone
        <3> QED BY <1>4, <1>6, <3>1, <3>3 DEF ParsedSoFar
    <2>4. i # 0
        BY <2>2, <2>3
    <2>5. i - 1 \in Nat /\ i - 1 < i /\ i - 1 \in 0 .. n /\ i \in 1 .. n
        BY <1>1, <2>2, <2>4
    <2>6. i - 1 \notin S
        BY <2>1, <2>2, <2>5 DEF OpToRel
    <2>7. ParsedSoFar(s, p[i - 1], K[i - 1], t)
        BY <2>5, <2>6
    <2> HIDE DEF S
    <2>8. p[i] = term_handle_key(p[i - 1], q[i], t) /\ K[i] = Keyed(K[i - 1], q[i]) /\ q[i] \in Byte
        BY <1>1, <1>5, <1>6, <2>2, <2>4, <2>5
    <2> QED BY <2>2, <2>7, <2>8, ParseOne
<1>8. ParsedSoFar(s, p[n], K[n], t)
    BY <1>1, <1>7
<1> QED
    BY <1>2, <1>3, <1>8 DEF d

-----------------------------------------------------------------------------
(* What the bytes that a peer sends together make of a glimpse.            *)

Glimpsed(t, s, owed) == [tel |-> t, term |-> s, owed |-> owed]

LEMMA GlimpseParts ==
    ASSUME NEW y \in Glimpse
    PROVE  /\ y = Glimpsed(y.tel, y.term, y.owed)
           /\ y.tel \in Memory /\ y.term \in Terminal /\ y.owed \in SUBSET Answer
BY DEF Glimpse, Glimpsed

LEMMA GlimpsedIs ==
    ASSUME NEW t \in Memory, NEW s \in Terminal, NEW owed \in SUBSET Answer
    PROVE  /\ Glimpsed(t, s, owed) \in Glimpse
           /\ Glimpsed(t, s, owed).tel = t /\ Glimpsed(t, s, owed).term = s
           /\ Glimpsed(t, s, owed).owed = owed
BY DEF Glimpse, Glimpsed

\* A byte of which the device makes t, says nothing, and passes nothing on.
LEMMA Swallows ==
    ASSUME NEW y \in Glimpse, NEW c \in Byte, y.tel.state = "OPTION" => c \in AnyOption,
           NEW t \in Memory, Heard(y.tel, c).tel = t, Heard(y.tel, c).out = <<>>,
           Heard(y.tel, c).data = <<>>
    PROVE  Follows(y, c, Glimpsed(t, y.term, y.owed))
BY GlimpseParts, GlimpsedIs DEF Follows

LEMMA Passes ==
    ASSUME NEW y \in Glimpse, NEW c \in Byte, y.tel.state # "OPTION",
           NEW t \in Memory, Heard(y.tel, c).tel = t, Heard(y.tel, c).out = <<>>,
           Heard(y.tel, c).data = <<c>>
    PROVE  /\ Follows(y, c, Glimpsed(t, Keyed(y.term, c), y.owed))
           /\ Glimpsed(t, Keyed(y.term, c), y.owed) \in Glimpse
<1>1. y.term \in Terminal /\ y.owed \in SUBSET Answer
    BY GlimpseParts
<1>2. Keyed(y.term, c) \in Terminal
    BY <1>1, KeyedKeeps
<1>3. <<c>> # <<>> /\ <<c>>[1] = c
    OBVIOUS
<1> QED
    BY <1>1, <1>2, <1>3, GlimpsedIs DEF Follows

In(t, state) == [t EXCEPT !.state = state]

LEMMA InKeeps ==
    ASSUME NEW t \in Memory,
           NEW state \in {"DATA", "COMMAND", "SUBNEGOTIATION", "SUBNEGOTIATION_COMMAND"}
    PROVE  /\ In(t, state) \in Memory /\ In(t, state).state = state
           /\ In(t, state).local = t.local /\ In(t, state).remote = t.remote
           /\ \A other : In(In(t, state), other) = In(t, other)
           /\ state = t.state => In(t, state) = t
BY DEF In, Memory

\* The device by itself, state by state.
LEMMA HeardIs ==
    ASSUME NEW t \in Memory, NEW c \in Byte
    PROVE  /\ t.state = "DATA" /\ c # "IAC" =>
                /\ Heard(t, c).tel = t /\ Heard(t, c).out = <<>> /\ Heard(t, c).data = <<c>>
           /\ t.state = "DATA" /\ c = "IAC" =>
                /\ Heard(t, c).tel = In(t, "COMMAND")
                /\ Heard(t, c).out = <<>> /\ Heard(t, c).data = <<>>
           /\ t.state = "COMMAND" /\ c = "IAC" =>
                /\ Heard(t, c).tel = In(t, "DATA")
                /\ Heard(t, c).out = <<>> /\ Heard(t, c).data = <<c>>
           /\ t.state = "COMMAND" /\ c \in Negotiation =>
                /\ Heard(t, c).tel = [t EXCEPT !.state = "OPTION", !.command = c]
                /\ Heard(t, c).out = <<>> /\ Heard(t, c).data = <<>>
           /\ t.state = "SUBNEGOTIATION" =>
                /\ Heard(t, c).tel = IF c = "IAC" THEN In(t, "SUBNEGOTIATION_COMMAND") ELSE t
                /\ Heard(t, c).out = <<>> /\ Heard(t, c).data = <<>>
           /\ t.state = "SUBNEGOTIATION_COMMAND" =>
                /\ Heard(t, c).tel = In(t, IF c = "SE" THEN "DATA" ELSE "SUBNEGOTIATION")
                /\ Heard(t, c).out = <<>> /\ Heard(t, c).data = <<>>
<1> DEFINE n == Machine(t, <<>>, <<>>)
<1>1. n \in Parsing /\ n.tel = t /\ n.out = <<>> /\ n.data = <<>>
    BY AloneParses
<1>2. Heard(t, c) = process(n, c)
    BY DEF Heard
<1> HIDE DEF n
<1>3. ASSUME NEW state
      PROVE  /\ Became(n, state).tel = In(t, state)
             /\ Became(n, state).out = <<>> /\ Became(n, state).data = <<>>
    BY <1>1 DEF Became, Parsing, Memory, In
<1>4. Append(<<>>, c) = <<c>>
    BY AppendToEmpty
<1>5. ASSUME NEW m \in {n, Became(n, "DATA")}
      PROVE  Found(m, c).tel = m.tel /\ Found(m, c).out = <<>> /\ Found(m, c).data = <<c>>
    <2>1. CASE m = n
        BY <1>1, <1>4, <2>1, FoundIs
    <2>2. CASE m = Became(n, "DATA")
        <3>1. [n.tel EXCEPT !.state = "DATA"] \in Memory
            BY <1>1 DEF Memory
        <3>2. m \in Parsing
            BY <1>1, <2>2, <3>1, BecameIs
        <3> QED BY <1>3, <1>4, <2>2, <3>2, FoundIs
    <2> QED BY <2>1, <2>2
<1>6. CASE t.state = "DATA"
    <2>1. Heard(t, c) = process_data(n, c)
        BY <1>1, <1>2, <1>6 DEF process
    <2> QED BY <1>1, <1>3, <1>5, <1>6, <2>1 DEF process_data
<1>7. CASE t.state = "COMMAND"
    <2>1. Heard(t, c) = process_command(n, c)
        BY <1>1, <1>2, <1>7 DEF process
    <2>2. CASE c = "IAC"
        <3>1. Heard(t, c) = Found(Became(n, "DATA"), c)
            BY <2>1, <2>2 DEF process_command, Negotiation
        <3> QED BY <1>3, <1>5, <1>7, <2>2, <3>1 DEF Negotiation
    <2>3. CASE c \in Negotiation
        <3>1. Heard(t, c) = [Became(n, "OPTION") EXCEPT !.tel.command = c]
            BY <2>1, <2>3 DEF process_command, Negotiation
        <3>2. /\ Heard(t, c).tel = [t EXCEPT !.state = "OPTION", !.command = c]
              /\ Heard(t, c).out = <<>> /\ Heard(t, c).data = <<>>
            BY <1>1, <3>1 DEF Became, Parsing, Memory
        <3> QED BY <1>7, <2>3, <3>2 DEF Negotiation
    <2> QED BY <1>7, <2>2, <2>3
<1>8. CASE t.state = "SUBNEGOTIATION"
    <2>1. Heard(t, c) = process_subnegotiation(n, c)
        BY <1>1, <1>2, <1>8 DEF process
    <2> QED BY <1>1, <1>3, <1>8, <2>1 DEF process_subnegotiation
<1>9. CASE t.state = "SUBNEGOTIATION_COMMAND"
    <2>1. Heard(t, c) = process_subnegotiation_command(n, c)
        BY <1>1, <1>2, <1>9 DEF process
    <2> QED BY <1>1, <1>3, <1>9, <2>1 DEF process_subnegotiation_command
<1> QED
    BY <1>6, <1>7, <1>8, <1>9 DEF Memory

LEMMA HeardInside ==
    ASSUME NEW t \in Memory, t.state = "SUBNEGOTIATION", NEW c \in Byte, c # "IAC"
    PROVE  Heard(t, c).tel = t /\ Heard(t, c).out = <<>> /\ Heard(t, c).data = <<>>
<1> DEFINE n == Machine(t, <<>>, <<>>)
<1>1. n \in Parsing /\ n.tel = t /\ n.out = <<>> /\ n.data = <<>>
    BY AloneParses
<1>2. Heard(t, c) = process_subnegotiation(n, c)
    BY <1>1 DEF Heard, process
<1> HIDE DEF n
<1>3. Heard(t, c) = n
    BY <1>2 DEF process_subnegotiation
<1> QED
    BY <1>1, <1>3

LEMMA HeardPlain ==
    ASSUME NEW t \in Memory, t.state = "COMMAND", NEW c \in {"SB", "NOP"}
    PROVE  /\ Heard(t, c).tel = In(t, IF c = "SB" THEN "SUBNEGOTIATION" ELSE "DATA")
           /\ Heard(t, c).out = <<>> /\ Heard(t, c).data = <<>>
<1> DEFINE n == Machine(t, <<>>, <<>>)
           state == IF c = "SB" THEN "SUBNEGOTIATION" ELSE "DATA"
<1>1. n \in Parsing /\ n.tel = t /\ n.out = <<>> /\ n.data = <<>>
    BY AloneParses
<1>2. Heard(t, c) = process_command(n, c)
    BY <1>1 DEF Heard, process
<1> HIDE DEF n
<1>3. Heard(t, c) = Became(n, state)
    BY <1>2 DEF process_command, Negotiation
<1>4. /\ Became(n, state).tel = In(t, state)
      /\ Became(n, state).out = <<>> /\ Became(n, state).data = <<>>
    BY <1>1 DEF Became, Parsing, Memory, In
<1> QED
    BY <1>3, <1>4

-----------------------------------------------------------------------------
(* What a command about an option makes of a glimpse.                      *)

\* The side of the device whose option the peer tracks as its own side, the
\* peer's commands about it, and the device's answers.
Side == {"him", "us"}
Dev(side) == IF side = "him" THEN "local" ELSE "remote"
On(side) == IF side = "him" THEN "DO" ELSE "WILL"
Off(side) == IF side = "him" THEN "DONT" ELSE "WONT"
Yes(side) == IF side = "him" THEN "WILL" ELSE "DO"
No(side) == IF side = "him" THEN "WONT" ELSE "DONT"
Grants(side, o) == IF side = "him" THEN offered(o) ELSE accepted(o)
Of(t, side, o) == get_option_state(t, Dev(side), o)

LEMMA SetGet ==
    ASSUME NEW t \in Memory, NEW side \in Side, NEW o \in AnyOption, NEW v \in OptionState
    PROVE  /\ Of(set_option_state(t, Dev(side), o, v), side, o) = IF o \in Option THEN v ELSE "UNKNOWN"
           /\ \A s2 \in Side, o2 \in AnyOption : s2 # side \/ o2 # o =>
                Of(set_option_state(t, Dev(side), o, v), s2, o2) = Of(t, s2, o2)
<1>1. CASE side = "him"
    BY <1>1 DEF Memory, set_option_state, get_option_state, Option, Of, Dev, Side
<1>2. CASE side = "us"
    BY <1>2 DEF Memory, set_option_state, get_option_state, Option, Of, Dev, Side
<1> QED
    BY <1>1, <1>2 DEF Side

LEMMA OfKeeps ==
    ASSUME NEW t \in Memory, NEW c \in Negotiation
    PROVE  /\ [t EXCEPT !.state = "OPTION", !.command = c] \in Memory
           /\ [t EXCEPT !.state = "OPTION", !.command = c].state = "OPTION"
           /\ [t EXCEPT !.state = "OPTION", !.command = c].command = c
           /\ \A s2, o2 : Of([t EXCEPT !.state = "OPTION", !.command = c], s2, o2) = Of(t, s2, o2)
<1> DEFINE u == [t EXCEPT !.state = "OPTION", !.command = c]
<1>1. u \in Memory /\ u.state = "OPTION" /\ u.command = c /\ u.local = t.local /\ u.remote = t.remote
    BY DEF Memory, Negotiation
<1> HIDE DEF u
<1>2. \A s2, o2 : Of(u, s2, o2) = Of(t, s2, o2)
    BY <1>1 DEF Of, get_option_state, Dev
<1> QED
    BY <1>1, <1>2 DEF u

LEMMA InOf ==
    ASSUME NEW t \in Memory, NEW state
    PROVE  \A s2, o2 : Of(In(t, state), s2, o2) = Of(t, s2, o2)
<1> DEFINE u == In(t, state)
<1>1. u.local = t.local /\ u.remote = t.remote
    BY DEF Memory, In
<1> HIDE DEF u
<1>2. \A s2, o2 : Of(u, s2, o2) = Of(t, s2, o2)
    BY <1>1 DEF Of, get_option_state, Dev
<1> QED
    BY <1>2 DEF u

\* The device by itself, told of an option.
Says(h, t, out) == h.tel = t /\ h.out = out /\ h.data = <<>>

LEMMA SetSays ==
    ASSUME NEW m \in Parsing, m.out = <<>>, m.data = <<>>, NEW side \in Side, NEW o \in AnyOption,
           NEW v \in OptionState, NEW c \in Negotiation
    PROVE  /\ Says(Set(m, Dev(side), o, v), set_option_state(m.tel, Dev(side), o, v), <<>>)
           /\ Says(Reply(Set(m, Dev(side), o, v), c, o),
                   set_option_state(m.tel, Dev(side), o, v), <<<<c, o>>>>)
           /\ Says(Reply(m, c, o), m.tel, <<<<c, o>>>>)
<1> DEFINE s == Set(m, Dev(side), o, v)
<1>1. /\ s \in Parsing /\ s.tel = set_option_state(m.tel, Dev(side), o, v)
      /\ s.out = <<>> /\ s.data = <<>>
    BY SetIs DEF Side, Dev
<1> HIDE DEF s
<1>2. Append(<<>>, <<c, o>>) = <<<<c, o>>>>
    BY AppendToEmpty
<1>3. Says(Reply(s, c, o), s.tel, <<<<c, o>>>>)
    <2>1. /\ Reply(s, c, o).tel = s.tel /\ Reply(s, c, o).data = s.data
          /\ Reply(s, c, o).out = Append(s.out, <<c, o>>)
        BY <1>1, ReplyIs
    <2> QED BY <1>1, <1>2, <2>1 DEF Says
<1>4. Says(Reply(m, c, o), m.tel, <<<<c, o>>>>)
    BY <1>2, ReplyIs DEF Says
<1> QED
    BY <1>1, <1>3, <1>4 DEF Says, s

LEMMA ToldIs ==
    ASSUME NEW t \in Memory, t.state = "OPTION", NEW side \in Side, NEW o \in AnyOption
    PROVE  /\ t.command = Off(side) =>
                Says(Heard(t, o), set_option_state(In(t, "DATA"), Dev(side), o, "NO"),
                     IF Of(t, side, o) = "YES" THEN <<<<No(side), o>>>> ELSE <<>>)
           /\ t.command = On(side) /\ Of(t, side, o) \in {"YES", "WANT_YES"} =>
                Says(Heard(t, o), set_option_state(In(t, "DATA"), Dev(side), o, "YES"), <<>>)
           /\ /\ t.command = On(side) /\ Of(t, side, o) \notin {"YES", "WANT_YES", "WANT_NO"}
              /\ Grants(side, o)
              => Says(Heard(t, o), set_option_state(In(t, "DATA"), Dev(side), o, "YES"),
                      <<<<Yes(side), o>>>>)
           /\ /\ t.command = On(side) /\ Of(t, side, o) \notin {"YES", "WANT_YES", "WANT_NO"}
              /\ ~Grants(side, o)
              => Says(Heard(t, o), In(t, "DATA"), <<<<No(side), o>>>>)
<1> DEFINE n == Machine(t, <<>>, <<>>)
           m == Became(n, "DATA")
           dev == get_option_side(m.tel.command)
           old == get_option_state(m.tel, dev, o)
           h == Heard(t, o)
<1>1. n \in Parsing /\ n.tel = t /\ n.out = <<>> /\ n.data = <<>>
    BY AloneParses
<1>2. h = process_option(n, o)
    BY <1>1 DEF Heard, process
<1>3. h = CASE m.tel.command = "DONT" -> Refuse(m, dev, o, old, "WONT")
            [] m.tel.command = "WONT" -> Refuse(m, dev, o, old, "DONT")
            [] m.tel.command = "DO"   -> Agree(m, dev, o, old, offered(o), "WILL", "WONT")
            [] m.tel.command = "WILL" -> Agree(m, dev, o, old, accepted(o), "DO", "DONT")
    <2> HIDE DEF h, n
    <2> QED BY <1>2 DEF process_option
<1> HIDE DEF n, h
<1>4. m \in Parsing /\ m.tel = In(t, "DATA") /\ m.out = <<>> /\ m.data = <<>>
    <2>1. [n.tel EXCEPT !.state = "DATA"] \in Memory
        BY <1>1 DEF Memory
    <2> QED BY <1>1, <2>1, BecameIs DEF In
<1> HIDE DEF m
<1>5. m.tel.command = t.command
    BY <1>4 DEF In, Memory
<1>6. t.command \in {On(side), Off(side)} => dev = Dev(side)
    BY <1>5 DEF Dev, On, Off, Side, get_option_side
<1>7. t.command \in {On(side), Off(side)} => old = Of(t, side, o)
    <2>1. Of(m.tel, side, o) = Of(t, side, o)
        BY <1>4, InOf
    <2> HIDE DEF dev
    <2> QED BY <1>6, <2>1 DEF Of
<1> HIDE DEF dev, old
<1>8. {"NO", "YES"} \subseteq OptionState /\ {Yes(side), No(side)} \subseteq Negotiation
    BY DEF OptionState, Negotiation, Yes, No
<1>9. ASSUME NEW v \in {"NO", "YES"}, NEW c \in {Yes(side), No(side)}
      PROVE  /\ Says(Set(m, Dev(side), o, v), set_option_state(m.tel, Dev(side), o, v), <<>>)
             /\ Says(Reply(Set(m, Dev(side), o, v), c, o),
                     set_option_state(m.tel, Dev(side), o, v), <<<<c, o>>>>)
             /\ Says(Reply(m, c, o), m.tel, <<<<c, o>>>>)
    BY <1>4, <1>8, SetSays
<1>10. ASSUME t.command = Off(side)
       PROVE  h = Refuse(m, Dev(side), o, Of(t, side, o), No(side))
    <2>1. CASE side = "him"
        <3>1. t.command = "DONT" /\ No(side) = "WONT"
            BY <1>10, <2>1 DEF Off, No
        <3> QED BY <1>3, <1>5, <1>6, <1>7, <1>10, <3>1
    <2>2. CASE side = "us"
        <3>1. t.command = "WONT" /\ No(side) = "DONT"
            BY <1>10, <2>2 DEF Off, No
        <3> QED BY <1>3, <1>5, <1>6, <1>7, <1>10, <3>1
    <2> QED BY <2>1, <2>2 DEF Side
<1>11. ASSUME t.command = On(side)
       PROVE  \/ side = "him" /\ h = Agree(m, "local", o, Of(t, side, o), offered(o), "WILL", "WONT")
              \/ side = "us" /\ h = Agree(m, "remote", o, Of(t, side, o), accepted(o), "DO", "DONT")
    <2>1. CASE side = "him"
        <3>1. t.command = "DO" /\ Dev(side) = "local"
            BY <1>11, <2>1 DEF On, Dev
        <3> QED BY <1>3, <1>5, <1>6, <1>7, <1>11, <2>1, <3>1
    <2>2. CASE side = "us"
        <3>1. t.command = "WILL" /\ Dev(side) = "remote"
            BY <1>11, <2>2 DEF On, Dev
        <3> QED BY <1>3, <1>5, <1>6, <1>7, <1>11, <2>2, <3>1
    <2> QED BY <2>1, <2>2 DEF Side
<1>12. ASSUME t.command = Off(side)
       PROVE  Says(h, set_option_state(m.tel, Dev(side), o, "NO"),
                   IF Of(t, side, o) = "YES" THEN <<<<No(side), o>>>> ELSE <<>>)
    BY <1>9, <1>10, <1>12 DEF Refuse
<1>13. ASSUME t.command = On(side), Of(t, side, o) \in {"YES", "WANT_YES"}
       PROVE  Says(h, set_option_state(m.tel, Dev(side), o, "YES"), <<>>)
    <2>1. h = Set(m, Dev(side), o, "YES")
        <3>1. CASE side = "him"
            BY <1>11, <1>13, <3>1 DEF Agree, Dev
        <3>2. CASE side = "us"
            BY <1>11, <1>13, <3>2 DEF Agree, Dev
        <3> QED BY <3>1, <3>2 DEF Side
    <2> QED BY <1>9, <2>1
<1>14. ASSUME t.command = On(side), Of(t, side, o) \notin {"YES", "WANT_YES", "WANT_NO"},
              Grants(side, o)
       PROVE  Says(h, set_option_state(m.tel, Dev(side), o, "YES"), <<<<Yes(side), o>>>>)
    <2>1. h = Reply(Set(m, Dev(side), o, "YES"), Yes(side), o)
        <3>1. CASE side = "him"
            BY <1>11, <1>14, <3>1 DEF Agree, Dev, Grants, Yes
        <3>2. CASE side = "us"
            BY <1>11, <1>14, <3>2 DEF Agree, Dev, Grants, Yes
        <3> QED BY <3>1, <3>2 DEF Side
    <2> QED BY <1>9, <2>1
<1>15. ASSUME t.command = On(side), Of(t, side, o) \notin {"YES", "WANT_YES", "WANT_NO"},
              ~Grants(side, o)
       PROVE  Says(h, m.tel, <<<<No(side), o>>>>)
    <2>1. h = Reply(m, No(side), o)
        <3>1. CASE side = "him"
            BY <1>11, <1>15, <3>1 DEF Agree, Dev, Grants, No
        <3>2. CASE side = "us"
            BY <1>11, <1>15, <3>2 DEF Agree, Dev, Grants, No
        <3> QED BY <3>1, <3>2 DEF Side
    <2> QED BY <1>9, <2>1
<1> QED
    BY <1>4, <1>12, <1>13, <1>14, <1>15 DEF h

Commanded(t, c) == [t EXCEPT !.state = "OPTION", !.command = c]

\* z is y but for the state of one option and what is owed.
Leaves(side, o, y, z) ==
    /\ z \in Glimpse /\ z.tel.state = "DATA" /\ z.term = y.term
    /\ \A s2 \in Side, o2 \in AnyOption : s2 # side \/ o2 # o => Of(z.tel, s2, o2) = Of(y.tel, s2, o2)

LEMMA BytesAre ==
    /\ Negotiation \subseteq Byte /\ AnyOption \subseteq Byte /\ Printable \subseteq Byte
    /\ {"IAC", "NOP", "SB", "SE", "NUL", "CR", "LF", "ESC", "KILL", "BS"} \subseteq Byte
BY DEF Byte

LEMMA ShortSeqs ==
    ASSUME NEW S, NEW a \in S, NEW b \in S, NEW c \in S
    PROVE  /\ <<a>> \in Seq(S) /\ <<a, b>> \in Seq(S) /\ <<a, b, c>> \in Seq(S)
           /\ Append(<<>>, a) = <<a>> /\ Append(<<a>>, b) = <<a, b>>
           /\ Append(<<a, b>>, c) = <<a, b, c>>
<1>1. Append(<<>>, a) = <<a>>
    BY AppendToEmpty
<1> DEFINE s == <<a>>
           t == <<a, b>>
           u == <<a, b, c>>
<1>2. s \in Seq(S) /\ Len(s) = 1 /\ s[1] = a
    OBVIOUS
<1>3. t \in Seq(S) /\ Len(t) = 2 /\ t[1] = a /\ t[2] = b
    OBVIOUS
<1>4. u \in Seq(S) /\ Len(u) = 3 /\ u[1] = a /\ u[2] = b /\ u[3] = c
    OBVIOUS
<1> HIDE DEF s, t, u
<1>5. 1 .. 1 = {1} /\ 1 .. 2 = {1, 2} /\ 1 .. 3 = {1, 2, 3} /\ 1 + 1 = 2 /\ 2 + 1 = 3
    OBVIOUS
<1>6. Append(s, b) = t
    <2>0. s \in Seq(S)
        BY <1>2
    <2> DEFINE v == Append(s, b)
    <2>1. v \in Seq(S) /\ Len(v) = Len(s) + 1 /\ (\A i \in 1 .. Len(s) : v[i] = s[i]) /\ v[Len(s) + 1] = b
        BY <2>0, AppendProperties
    <2>2. v \in Seq(S) /\ Len(v) = 2 /\ v[1] = a /\ v[2] = b
        BY <1>2, <1>5, <2>1
    <2> HIDE DEF v
    <2>3. \A i \in 1 .. Len(v) : v[i] = t[i]
        BY <1>3, <1>5, <2>2
    <2>4. v = t
        BY <1>3, <2>2, <2>3, SeqEqual
    <2> QED BY <2>4 DEF v
<1>7. Append(t, c) = u
    <2>0. t \in Seq(S)
        BY <1>3
    <2> DEFINE v == Append(t, c)
    <2>1. v \in Seq(S) /\ Len(v) = Len(t) + 1 /\ (\A i \in 1 .. Len(t) : v[i] = t[i]) /\ v[Len(t) + 1] = c
        BY <2>0, AppendProperties
    <2>2. v \in Seq(S) /\ Len(v) = 3 /\ v[1] = a /\ v[2] = b /\ v[3] = c
        BY <1>3, <1>5, <2>1
    <2> HIDE DEF v
    <2>3. \A i \in 1 .. Len(v) : v[i] = u[i]
        BY <1>4, <1>5, <2>2
    <2>4. v = u
        BY <1>4, <2>2, <2>3, SeqEqual
    <2> QED BY <2>4 DEF v
<1> QED
    BY <1>1, <1>2, <1>3, <1>4, <1>6, <1>7 DEF s, t, u

LEMMA ShortBytes ==
    \A a, b, c \in Byte : /\ <<a>> \in Seq(Byte) /\ <<a, b>> \in Seq(Byte) /\ <<a, b, c>> \in Seq(Byte)
                         /\ Append(<<>>, a) = <<a>> /\ Append(<<a>>, b) = <<a, b>>
                         /\ Append(<<a, b>>, c) = <<a, b, c>>
<1> TAKE a, b, c \in Byte
<1> QED
    BY ShortSeqs

LEMMA CommandSeen ==
    ASSUME NEW y \in Glimpse, y.tel.state = "DATA", NEW c \in Negotiation
    PROVE  /\ Commanded(y.tel, c) \in Memory
           /\ Glimpsed(Commanded(y.tel, c), y.term, y.owed) \in Glimpse
           /\ Sees(y, <<"IAC", c>>, Glimpsed(Commanded(y.tel, c), y.term, y.owed))
<1> DEFINE t1 == In(y.tel, "COMMAND")
           t2 == Commanded(y.tel, c)
           y1 == Glimpsed(t1, y.term, y.owed)
           y2 == Glimpsed(t2, y.term, y.owed)
<1>1. y.tel \in Memory /\ y.term \in Terminal /\ y.owed \in SUBSET Answer
    BY GlimpseParts
<1>2. t1 \in Memory /\ t1.state = "COMMAND"
    BY <1>1, InKeeps
<1>3. t2 \in Memory /\ t2.state = "OPTION"
    BY <1>1, OfKeeps DEF Commanded
<1>4. [t1 EXCEPT !.state = "OPTION", !.command = c] = t2
    BY <1>1 DEF In, Memory, Commanded
<1>5. "IAC" \in Byte /\ c \in Byte
    BY BytesAre
<1>6. /\ Heard(y.tel, "IAC").tel = t1
      /\ Heard(y.tel, "IAC").out = <<>> /\ Heard(y.tel, "IAC").data = <<>>
    BY <1>1, <1>5, HeardIs
<1>7. /\ Heard(t1, c).tel = t2 /\ Heard(t1, c).out = <<>> /\ Heard(t1, c).data = <<>>
    <2> HIDE DEF t1, t2
    <2> QED BY <1>2, <1>4, <1>5, HeardIs
<1> HIDE DEF t1, t2
<1>8. y1 \in Glimpse /\ y1.tel = t1 /\ y1.term = y.term /\ y1.owed = y.owed
    BY <1>1, <1>2, GlimpsedIs
<1>9. y2 \in Glimpse
    BY <1>1, <1>3, GlimpsedIs
<1>10. Follows(y, "IAC", y1)
    BY <1>2, <1>5, <1>6, Swallows
<1> HIDE DEF y1
<1>11. Follows(y1, c, y2)
    <2>1. Follows(y1, c, Glimpsed(t2, y1.term, y1.owed))
        BY <1>2, <1>3, <1>5, <1>7, <1>8, Swallows
    <2> QED BY <1>8, <2>1
<1> HIDE DEF y2
<1>12. Sees(y, Append(<<>>, "IAC"), y1)
    BY <1>5, <1>8, <1>10, SeesNothing, SeesMore, EmptySeq
<1>13. Append(<<>>, "IAC") = <<"IAC">> /\ <<"IAC">> \in Seq(Byte) /\ Append(<<"IAC">>, c) = <<"IAC", c>>
    <2> DEFINE iac == "IAC"
    <2> SUFFICES Append(<<>>, iac) = <<iac>> /\ <<iac>> \in Seq(Byte) /\ Append(<<iac>>, c) = <<iac, c>>
        OBVIOUS
    <2>1. iac \in Byte
        BY <1>5
    <2> HIDE DEF iac
    <2> QED BY <1>5, <2>1, ShortBytes
<1>14. Sees(y, Append(<<"IAC">>, c), y2)
    BY <1>5, <1>9, <1>11, <1>12, <1>13, SeesMore
<1>15. Sees(y, <<"IAC", c>>, y2)
    BY <1>13, <1>14
<1> QED
    BY <1>3, <1>9, <1>15 DEF t2, y2

LEMMA Tells ==
    ASSUME NEW y \in Glimpse, y.tel.state = "DATA", NEW c \in Negotiation, NEW o \in AnyOption,
           NEW t \in Memory, NEW owed \in SUBSET Answer,
           \/ Says(Heard(Commanded(y.tel, c), o), t, <<>>) /\ owed = y.owed
           \/ \E k \in Answer : /\ Says(Heard(Commanded(y.tel, c), o), t, <<k>>)
                                /\ k \notin y.owed /\ owed = y.owed \cup {k}
    PROVE  Sees(y, Sent(c, o), Glimpsed(t, y.term, owed))
<1> DEFINE t2 == Commanded(y.tel, c)
           y2 == Glimpsed(t2, y.term, y.owed)
           z == Glimpsed(t, y.term, owed)
           h == Heard(t2, o)
<1>1. y.term \in Terminal /\ y.owed \in SUBSET Answer
    BY GlimpseParts
<1>2. t2 \in Memory /\ y2 \in Glimpse /\ Sees(y, <<"IAC", c>>, y2)
    BY CommandSeen
<1> HIDE DEF t2
<1>3. y2.tel = t2 /\ y2.term = y.term /\ y2.owed = y.owed
    BY <1>1, <1>2, GlimpsedIs
<1>4. z \in Glimpse /\ z.tel = t /\ z.term = y.term /\ z.owed = owed
    BY <1>1, GlimpsedIs
<1> HIDE DEF y2, z, h
<1>5. \/ Says(h, t, <<>>) /\ owed = y.owed
      \/ \E k \in Answer : Says(h, t, <<k>>) /\ k \notin y.owed /\ owed = y.owed \cup {k}
    BY DEF t2, h
<1>6. Follows(y2, o, z)
    <2>1. CASE Says(h, t, <<>>) /\ owed = y.owed
        BY <1>3, <1>4, <2>1 DEF Follows, Says, h
    <2>2. CASE \E k \in Answer : Says(h, t, <<k>>) /\ k \notin y.owed /\ owed = y.owed \cup {k}
        <3>1. PICK k \in Answer : Says(h, t, <<k>>) /\ k \notin y.owed /\ owed = y.owed \cup {k}
            BY <2>2
        <3>2. <<k>> # <<>> /\ <<k>>[1] = k
            OBVIOUS
        <3> QED BY <1>3, <1>4, <3>1, <3>2 DEF Follows, Says, h
    <2> QED BY <1>5, <2>1, <2>2
<1>7. "IAC" \in Byte /\ c \in Byte /\ o \in Byte
    BY BytesAre
<1>8. <<"IAC", c>> \in Seq(Byte) /\ Append(<<"IAC", c>>, o) = Sent(c, o)
    <2> DEFINE iac == "IAC"
    <2> SUFFICES <<iac, c>> \in Seq(Byte) /\ Append(<<iac, c>>, o) = <<iac, c, o>>
        BY DEF Sent
    <2>1. iac \in Byte
        BY <1>7
    <2> HIDE DEF iac
    <2> QED BY <1>7, <2>1, ShortBytes
<1>9. Sees(y, Append(<<"IAC", c>>, o), z)
    BY <1>2, <1>4, <1>6, <1>7, <1>8, SeesMore
<1> QED
    BY <1>8, <1>9 DEF z

LEMMA CommandsAre ==
    ASSUME NEW side \in Side
    PROVE  /\ {On(side), Off(side), Yes(side), No(side)} \subseteq Negotiation
           /\ \A o \in AnyOption : <<Yes(side), o>> \in Answer /\ <<No(side), o>> \in Answer
BY DEF On, Off, Yes, No, Negotiation, Answer

LEMMA CommandedIs ==
    ASSUME NEW y \in Glimpse, y.tel.state = "DATA", NEW c \in Negotiation,
           NEW side \in Side, NEW o \in AnyOption
    PROVE  /\ Commanded(y.tel, c) \in Memory
           /\ Commanded(y.tel, c).state = "OPTION" /\ Commanded(y.tel, c).command = c
           /\ In(Commanded(y.tel, c), "DATA") \in Memory
           /\ In(Commanded(y.tel, c), "DATA").state = "DATA"
           /\ \A s2, o2 : /\ Of(Commanded(y.tel, c), s2, o2) = Of(y.tel, s2, o2)
                          /\ Of(In(Commanded(y.tel, c), "DATA"), s2, o2) = Of(y.tel, s2, o2)
<1> DEFINE t == Commanded(y.tel, c)
<1>1. /\ t \in Memory /\ t.state = "OPTION" /\ t.command = c
      /\ \A s2, o2 : Of(t, s2, o2) = Of(y.tel, s2, o2)
    BY GlimpseParts, OfKeeps DEF Commanded
<1> HIDE DEF t
<1>2. In(t, "DATA") \in Memory /\ In(t, "DATA").state = "DATA"
    BY <1>1, InKeeps
<1>3. \A s2, o2 : Of(In(t, "DATA"), s2, o2) = Of(t, s2, o2)
    BY <1>1, InOf
<1> QED
    BY <1>1, <1>2, <1>3 DEF t

\* The device is told that an option is off.
LEMMA ToldOff ==
    ASSUME NEW y \in Glimpse, y.tel.state = "DATA", NEW side \in Side, NEW o \in AnyOption,
           Of(y.tel, side, o) = "YES" => <<No(side), o>> \notin y.owed
    PROVE  \E z : /\ Sees(y, Sent(Off(side), o), z) /\ Leaves(side, o, y, z)
                  /\ Of(z.tel, side, o) = IF o \in Option THEN "NO" ELSE "UNKNOWN"
                  /\ z.owed = IF Of(y.tel, side, o) = "YES" THEN y.owed \cup {<<No(side), o>>}
                              ELSE y.owed
<1> DEFINE c == Off(side)
           t == In(Commanded(y.tel, c), "DATA")
           u == set_option_state(t, Dev(side), o, "NO")
           owed == IF Of(y.tel, side, o) = "YES" THEN y.owed \cup {<<No(side), o>>} ELSE y.owed
           z == Glimpsed(u, y.term, owed)
           h == Heard(Commanded(y.tel, c), o)
<1>1. c \in Negotiation /\ <<No(side), o>> \in Answer /\ "NO" \in OptionState
    BY CommandsAre DEF OptionState
<1>2. y.term \in Terminal /\ y.owed \in SUBSET Answer
    BY GlimpseParts
<1>3. /\ Commanded(y.tel, c) \in Memory
      /\ Commanded(y.tel, c).state = "OPTION" /\ Commanded(y.tel, c).command = c
      /\ t \in Memory /\ t.state = "DATA"
      /\ \A s2, o2 : Of(Commanded(y.tel, c), s2, o2) = Of(y.tel, s2, o2) /\ Of(t, s2, o2) = Of(y.tel, s2, o2)
    BY <1>1, CommandedIs
<1>4. Says(h, u, IF Of(y.tel, side, o) = "YES" THEN <<<<No(side), o>>>> ELSE <<>>)
    BY <1>3, ToldIs
<1> HIDE DEF t
<1>5. u \in Memory /\ u.state = "DATA"
    BY <1>1, <1>3, SetKeeps DEF Dev
<1>6. /\ Of(u, side, o) = IF o \in Option THEN "NO" ELSE "UNKNOWN"
      /\ \A s2 \in Side, o2 \in AnyOption : s2 # side \/ o2 # o => Of(u, s2, o2) = Of(y.tel, s2, o2)
    BY <1>1, <1>3, SetGet
<1>7. owed \in SUBSET Answer
    BY <1>1, <1>2
<1>8. \/ Says(h, u, <<>>) /\ owed = y.owed
      \/ \E k \in Answer : Says(h, u, <<k>>) /\ k \notin y.owed /\ owed = y.owed \cup {k}
    BY <1>1, <1>4
<1> HIDE DEF u, owed
<1>9. z \in Glimpse /\ z.tel = u /\ z.term = y.term /\ z.owed = owed
    BY <1>2, <1>5, <1>7, GlimpsedIs
<1>10. Sees(y, Sent(c, o), z)
    BY <1>1, <1>5, <1>7, <1>8, Tells DEF h
<1> HIDE DEF z, c
<1>11. Leaves(side, o, y, z)
    BY <1>5, <1>6, <1>9 DEF Leaves
<1>12. /\ Sees(y, Sent(Off(side), o), z)
       /\ Of(z.tel, side, o) = IF o \in Option THEN "NO" ELSE "UNKNOWN"
       /\ z.owed = IF Of(y.tel, side, o) = "YES" THEN y.owed \cup {<<No(side), o>>} ELSE y.owed
    BY <1>6, <1>9, <1>10 DEF c, owed
<1> QED
    BY <1>11, <1>12

\* It is told that an option is on.
Answered(side, o, d) ==
    IF d \in {"YES", "WANT_YES"} THEN {}
    ELSE {<<IF Grants(side, o) THEN Yes(side) ELSE No(side), o>>}

LEMMA ToldOn ==
    ASSUME NEW y \in Glimpse, y.tel.state = "DATA", NEW side \in Side, NEW o \in AnyOption,
           Of(y.tel, side, o) # "WANT_NO",
           Answered(side, o, Of(y.tel, side, o)) \cap y.owed = {}
    PROVE  \E z : /\ Sees(y, Sent(On(side), o), z) /\ Leaves(side, o, y, z)
                  /\ z.owed = y.owed \cup Answered(side, o, Of(y.tel, side, o))
                  /\ Of(z.tel, side, o) =
                        IF Of(y.tel, side, o) \in {"YES", "WANT_YES"} \/ Grants(side, o)
                        THEN IF o \in Option THEN "YES" ELSE "UNKNOWN"
                        ELSE Of(y.tel, side, o)
<1> DEFINE c == On(side)
           d == Of(y.tel, side, o)
           t == In(Commanded(y.tel, c), "DATA")
           w == set_option_state(t, Dev(side), o, "YES")
           h == Heard(Commanded(y.tel, c), o)
<1>1. /\ c \in Negotiation /\ <<No(side), o>> \in Answer /\ <<Yes(side), o>> \in Answer
      /\ "YES" \in OptionState
    BY CommandsAre DEF OptionState
<1>2. y.term \in Terminal /\ y.owed \in SUBSET Answer
    BY GlimpseParts
<1>3. /\ Commanded(y.tel, c) \in Memory
      /\ Commanded(y.tel, c).state = "OPTION" /\ Commanded(y.tel, c).command = c
      /\ t \in Memory /\ t.state = "DATA"
      /\ \A s2, o2 : Of(Commanded(y.tel, c), s2, o2) = Of(y.tel, s2, o2) /\ Of(t, s2, o2) = Of(y.tel, s2, o2)
    BY <1>1, CommandedIs
<1>4. d \in {"YES", "WANT_YES"} => Says(h, w, <<>>)
    BY <1>3, ToldIs
<1>5. d \notin {"YES", "WANT_YES"} /\ Grants(side, o) => Says(h, w, <<<<Yes(side), o>>>>)
    BY <1>3, ToldIs
<1>6. d \notin {"YES", "WANT_YES"} /\ ~Grants(side, o) => Says(h, t, <<<<No(side), o>>>>)
    BY <1>3, ToldIs
<1> HIDE DEF t
<1>7. w \in Memory /\ w.state = "DATA"
    BY <1>1, <1>3, SetKeeps DEF Dev
<1>8. /\ Of(w, side, o) = IF o \in Option THEN "YES" ELSE "UNKNOWN"
      /\ \A s2 \in Side, o2 \in AnyOption : s2 # side \/ o2 # o => Of(w, s2, o2) = Of(y.tel, s2, o2)
    BY <1>1, <1>3, SetGet
<1> HIDE DEF w
<1> DEFINE u == IF d \in {"YES", "WANT_YES"} \/ Grants(side, o) THEN w ELSE t
           owed == y.owed \cup Answered(side, o, d)
           z == Glimpsed(u, y.term, owed)
<1>9. u \in Memory /\ u.state = "DATA"
    BY <1>3, <1>7
<1>10. \A s2 \in Side, o2 \in AnyOption : s2 # side \/ o2 # o => Of(u, s2, o2) = Of(y.tel, s2, o2)
    BY <1>3, <1>8
<1>11. Of(u, side, o) = IF d \in {"YES", "WANT_YES"} \/ Grants(side, o)
                        THEN IF o \in Option THEN "YES" ELSE "UNKNOWN" ELSE d
    BY <1>3, <1>8
<1>12. owed \in SUBSET Answer
    BY <1>1, <1>2 DEF Answered
<1>13. \/ Says(h, u, <<>>) /\ owed = y.owed
       \/ \E k \in Answer : Says(h, u, <<k>>) /\ k \notin y.owed /\ owed = y.owed \cup {k}
    <2>1. CASE d \in {"YES", "WANT_YES"}
        BY <1>4, <2>1 DEF Answered
    <2>2. CASE d \notin {"YES", "WANT_YES"} /\ Grants(side, o)
        <3>1. Says(h, u, <<<<Yes(side), o>>>>) /\ Answered(side, o, d) = {<<Yes(side), o>>}
            BY <1>5, <2>2 DEF Answered
        <3>2. <<Yes(side), o>> \notin y.owed
            BY <3>1
        <3> QED BY <1>1, <3>1, <3>2
    <2>3. CASE d \notin {"YES", "WANT_YES"} /\ ~Grants(side, o)
        <3>1. Says(h, u, <<<<No(side), o>>>>) /\ Answered(side, o, d) = {<<No(side), o>>}
            BY <1>6, <2>3 DEF Answered
        <3>2. <<No(side), o>> \notin y.owed
            BY <3>1
        <3> QED BY <1>1, <3>1, <3>2
    <2> QED BY <2>1, <2>2, <2>3
<1> HIDE DEF u, owed
<1>14. z \in Glimpse /\ z.tel = u /\ z.term = y.term /\ z.owed = owed
    BY <1>2, <1>9, <1>12, GlimpsedIs
<1>15. Sees(y, Sent(c, o), z)
    BY <1>1, <1>9, <1>12, <1>13, Tells DEF h
<1> HIDE DEF z, c
<1>16. Leaves(side, o, y, z)
    BY <1>9, <1>10, <1>14 DEF Leaves
<1>17. Sees(y, Sent(On(side), o), z) /\ z.owed = y.owed \cup Answered(side, o, d)
    BY <1>14, <1>15 DEF c, owed
<1> QED
    BY <1>11, <1>14, <1>16, <1>17

-----------------------------------------------------------------------------
(* What both ends hold of one option once all that is on its way to the    *)
(* device has arrived: d is the device's state, q the peer's, and the      *)
(* device's answers in owed have not reached the peer.                     *)

Saying(side, o) == {<<Yes(side), o>>, <<No(side), o>>}

Fits(side, o, d, q, owed) ==
    LET said == Saying(side, o) \cap owed
    IN  \/ q = "NO" /\ d \in {"NO", "UNKNOWN"} /\ said = {}
        \/ q = "YES" /\ d = "YES" /\ Grants(side, o) /\ said = {}
        \/ q = "WANT_YES" /\ d = "YES" /\ Grants(side, o) /\ said = {<<Yes(side), o>>}
        \/ q = "WANT_NO" /\ d = "NO" /\ Grants(side, o) /\ said = {<<No(side), o>>}
        \/ q = "WANT_YES" /\ d \in {"NO", "UNKNOWN"} /\ ~Grants(side, o) /\ said = {<<No(side), o>>}
        \/ q = "NO" /\ d = "WANT_YES" /\ side = "him" /\ Grants(side, o) /\ said = {<<Yes(side), o>>}

\* z is y but for one option and what is owed of it.
Changes(side, o, y, z) ==
    /\ Leaves(side, o, y, z)
    /\ \A s2 \in Side, o2 \in AnyOption : s2 # side \/ o2 # o =>
            Saying(s2, o2) \cap z.owed = Saying(s2, o2) \cap y.owed

LEMMA SayingsApart ==
    ASSUME NEW side \in Side, NEW o \in AnyOption
    PROVE  /\ Yes(side) # No(side) /\ <<Yes(side), o>> # <<No(side), o>>
           /\ \A s2 \in Side, o2 \in AnyOption : s2 # side \/ o2 # o =>
                Saying(s2, o2) \cap Saying(side, o) = {}
BY DEF Saying, Yes, No, Side

LEMMA OwedApart ==
    ASSUME NEW side \in Side, NEW o \in AnyOption, NEW a, NEW b,
           a \ Saying(side, o) = b \ Saying(side, o)
    PROVE  \A s2 \in Side, o2 \in AnyOption : s2 # side \/ o2 # o =>
                Saying(s2, o2) \cap a = Saying(s2, o2) \cap b
<1> TAKE s2 \in Side, o2 \in AnyOption
<1> HAVE s2 # side \/ o2 # o
<1>1. Saying(s2, o2) \cap Saying(side, o) = {}
    BY SayingsApart
<1>2. \A x : x \in Saying(s2, o2) => (x \in a <=> x \in b)
    BY <1>1
<1> QED
    BY <1>2

LEMMA GrantsKnown == \A side \in Side, o \in AnyOption : Grants(side, o) => o \in Option
BY DEF Grants, offered, accepted, Option

\* The peer asks for a change.
LEMMA FitsAsks ==
    ASSUME NEW y \in Glimpse, y.tel.state = "DATA", NEW side \in Side, NEW o \in AnyOption,
           NEW q \in {"NO", "YES"}, Fits(side, o, Of(y.tel, side, o), q, y.owed)
    PROVE  \E z : /\ Sees(y, Sent(IF q = "NO" THEN On(side) ELSE Off(side), o), z)
                  /\ Changes(side, o, y, z)
                  /\ Fits(side, o, Of(z.tel, side, o), IF q = "NO" THEN "WANT_YES" ELSE "WANT_NO",
                          z.owed)
<1> DEFINE d == Of(y.tel, side, o)
           yes == <<Yes(side), o>>
           no == <<No(side), o>>
           said == Saying(side, o)
<1>1. yes # no /\ said = {yes, no}
    BY SayingsApart DEF Saying
<1>2. /\ q = "NO" => \/ d \in {"NO", "UNKNOWN"} /\ said \cap y.owed = {}
                     \/ d = "WANT_YES" /\ Grants(side, o) /\ said \cap y.owed = {yes}
      /\ q = "YES" => d = "YES" /\ Grants(side, o) /\ said \cap y.owed = {}
    BY DEF Fits
<1>3. Grants(side, o) => o \in Option
    BY GrantsKnown
<1> HIDE DEF said
<1>4. CASE q = "YES"
    <2>1. no \notin y.owed
        BY <1>1, <1>2, <1>4
    <2>2. PICK z : /\ Sees(y, Sent(Off(side), o), z) /\ Leaves(side, o, y, z)
                   /\ Of(z.tel, side, o) = IF o \in Option THEN "NO" ELSE "UNKNOWN"
                   /\ z.owed = IF d = "YES" THEN y.owed \cup {no} ELSE y.owed
        BY <2>1, ToldOff
    <2>3. Of(z.tel, side, o) = "NO" /\ z.owed = y.owed \cup {no}
        BY <1>2, <1>3, <1>4, <2>2
    <2>4. said \cap z.owed = {no} /\ z.owed \ said = y.owed \ said
        <3> HIDE DEF yes, no
        <3> QED BY <1>1, <1>2, <1>4, <2>3
    <2>5. Changes(side, o, y, z)
        <3>1. Leaves(side, o, y, z)
            BY <2>2
        <3>2. \A s2 \in Side, o2 \in AnyOption : s2 # side \/ o2 # o =>
                    Saying(s2, o2) \cap z.owed = Saying(s2, o2) \cap y.owed
            BY <2>4, OwedApart DEF said
        <3> QED BY <3>1, <3>2 DEF Changes
    <2>6. Fits(side, o, Of(z.tel, side, o), "WANT_NO", z.owed)
        BY <1>2, <1>4, <2>3, <2>4 DEF Fits, said
    <2> QED BY <1>4, <2>2, <2>5, <2>6
<1>5. CASE q = "NO"
    <2>1. Answered(side, o, d) \cap y.owed = {} /\ d # "WANT_NO"
        <3> HIDE DEF d
        <3>1. CASE d \in {"NO", "UNKNOWN"} /\ said \cap y.owed = {}
            <4>1. Answered(side, o, d) \subseteq {yes, no}
                BY DEF Answered
            <4> HIDE DEF yes, no
            <4> QED BY <1>1, <3>1, <4>1
        <3>2. CASE d = "WANT_YES"
            BY <3>2 DEF Answered
        <3> QED BY <1>2, <1>5, <3>1, <3>2
    <2>2. PICK z : /\ Sees(y, Sent(On(side), o), z) /\ Leaves(side, o, y, z)
                   /\ z.owed = y.owed \cup Answered(side, o, d)
                   /\ Of(z.tel, side, o) =
                        IF d \in {"YES", "WANT_YES"} \/ Grants(side, o)
                        THEN IF o \in Option THEN "YES" ELSE "UNKNOWN" ELSE d
        BY <2>1, ToldOn
    <2> HIDE DEF d
    <2>3. CASE d \in {"NO", "UNKNOWN"} /\ said \cap y.owed = {} /\ Grants(side, o)
        <3>1. Of(z.tel, side, o) = "YES" /\ z.owed = y.owed \cup {yes}
            BY <1>3, <2>2, <2>3 DEF Answered
        <3>2. said \cap z.owed = {yes} /\ z.owed \ said = y.owed \ said
            <4> HIDE DEF yes, no
            <4> QED BY <1>1, <2>3, <3>1
        <3>3. Changes(side, o, y, z)
            BY <2>2, <3>2, OwedApart DEF Changes, said
        <3>4. Fits(side, o, Of(z.tel, side, o), "WANT_YES", z.owed)
            BY <2>3, <3>1, <3>2 DEF Fits, said
        <3> QED BY <1>5, <2>2, <3>3, <3>4
    <2>4. CASE d \in {"NO", "UNKNOWN"} /\ said \cap y.owed = {} /\ ~Grants(side, o)
        <3>1. Of(z.tel, side, o) = d /\ z.owed = y.owed \cup {no}
            BY <2>2, <2>4 DEF Answered
        <3>2. said \cap z.owed = {no} /\ z.owed \ said = y.owed \ said
            <4> HIDE DEF yes, no
            <4> QED BY <1>1, <2>4, <3>1
        <3>3. Changes(side, o, y, z)
            BY <2>2, <3>2, OwedApart DEF Changes, said
        <3>4. Fits(side, o, Of(z.tel, side, o), "WANT_YES", z.owed)
            BY <2>4, <3>1, <3>2 DEF Fits, said
        <3> QED BY <1>5, <2>2, <3>3, <3>4
    <2>5. CASE d = "WANT_YES" /\ Grants(side, o) /\ said \cap y.owed = {yes}
        <3>1. Of(z.tel, side, o) = "YES" /\ z.owed = y.owed
            BY <1>3, <2>2, <2>5 DEF Answered
        <3>3. Changes(side, o, y, z)
            BY <2>2, <3>1 DEF Changes
        <3>4. Fits(side, o, Of(z.tel, side, o), "WANT_YES", z.owed)
            BY <2>5, <3>1 DEF Fits, said
        <3> QED BY <1>5, <2>2, <3>3, <3>4
    <2> QED BY <1>2, <1>5, <2>3, <2>4, <2>5
<1> QED
    BY <1>4, <1>5

LEMMA WithoutIs ==
    ASSUME NEW y \in Glimpse, NEW k
    PROVE  /\ Without(y, k) \in Glimpse /\ Without(y, k).owed = y.owed \ {k}
           /\ Without(y, k).tel = y.tel /\ Without(y, k).term = y.term
BY DEF Without, Glimpse

\* The peer's possible answers to c, and what comes of r, one of them.
Turns(q, c, side) == Negotiated(q, c = Yes(side), On(side), Off(side))
SentBy(r, o) == IF r[2] = <<>> THEN <<>> ELSE Sent(r[2][1], o)
ComesOf(y, c, r, side, o) ==
    /\ r[1] \in {"NO", "YES"} /\ r[2] \in {<<>>, <<On(side)>>, <<Off(side)>>}
    /\ \E z : /\ Sees(Without(y, <<c, o>>), SentBy(r, o), z) /\ Changes(side, o, y, z)
              /\ Fits(side, o, Of(z.tel, side, o), r[1], z.owed)

\* The peer gets an answer, and may answer to it.
LEMMA FitsGets ==
    ASSUME NEW y \in Glimpse, y.tel.state = "DATA", NEW side \in Side, NEW o \in AnyOption,
           NEW q, Fits(side, o, Of(y.tel, side, o), q, y.owed),
           NEW c \in {Yes(side), No(side)}, <<c, o>> \in y.owed,
           NEW r \in Turns(q, c, side)
    PROVE  ComesOf(y, c, r, side, o)
<1> SUFFICES /\ r[1] \in {"NO", "YES"}
             /\ r[2] \in {<<>>, <<On(side)>>, <<Off(side)>>}
             /\ \E z : /\ Sees(Without(y, <<c, o>>), SentBy(r, o), z)
                       /\ Changes(side, o, y, z)
                       /\ Fits(side, o, Of(z.tel, side, o), r[1], z.owed)
    BY DEF ComesOf
<1> DEFINE d == Of(y.tel, side, o)
           k == <<c, o>>
           said == Saying(side, o)
           g == Without(y, k)
<1>1. said = {<<Yes(side), o>>, <<No(side), o>>} /\ Yes(side) # No(side) /\ k \in said
    BY SayingsApart DEF Saying
<1>2. g \in Glimpse /\ g.tel = y.tel /\ g.term = y.term /\ g.owed = y.owed \ {k}
    BY WithoutIs
<1> HIDE DEF said, g
<1>3. said \cap g.owed = {} /\ g.owed \ said = y.owed \ said
    <2>1. said \cap y.owed \in {{}, {<<Yes(side), o>>}, {<<No(side), o>>}}
        BY DEF Fits, said
    <2>2. k \in said \cap y.owed
        BY <1>1
    <2>3. said \cap y.owed = {k}
        BY <2>1, <2>2
    <2> HIDE DEF k
    <2>4. said \cap (y.owed \ {k}) = {}
        BY <2>3
    <2>5. (y.owed \ {k}) \ said = y.owed \ said
        BY <1>1
    <2> QED BY <1>2, <2>4, <2>5
<1>4. Grants(side, o) => o \in Option
    BY GrantsKnown
<1>5. \/ c = Yes(side) /\ q = "WANT_YES" /\ d = "YES" /\ Grants(side, o)
      \/ c = Yes(side) /\ q = "NO" /\ d = "WANT_YES" /\ Grants(side, o)
      \/ c = No(side) /\ q = "WANT_NO" /\ d = "NO" /\ Grants(side, o)
      \/ c = No(side) /\ q = "WANT_YES" /\ d \in {"NO", "UNKNOWN"} /\ ~Grants(side, o)
    <2>1. k \in Saying(side, o) \cap y.owed
        BY <1>1 DEF said
    <2>2. c = Yes(side) => k # <<No(side), o>>
        BY <1>1
    <2>3. c = No(side) => k # <<Yes(side), o>>
        BY <1>1
    <2> HIDE DEF d
    <2>4. Fits(side, o, d, q, y.owed)
        BY DEF d
    <2> HIDE DEF k
    <2> QED BY <2>1, <2>2, <2>3, <2>4 DEF Fits
<1>6. Changes(side, o, y, g)
    <2>1. Leaves(side, o, y, g)
        BY <1>2 DEF Leaves
    <2> QED BY <1>3, <2>1, OwedApart DEF Changes, said
<1>7. ASSUME r[2] = <<>>, r[1] \in {"NO", "YES"}, Fits(side, o, d, r[1], g.owed)
      PROVE  \E z : /\ Sees(g, SentBy(r, o), z)
                    /\ Changes(side, o, y, z) /\ Fits(side, o, Of(z.tel, side, o), r[1], z.owed)
    <2>1. Sees(g, <<>>, g)
        BY <1>2, SeesNothing
    <2> QED BY <1>2, <1>6, <1>7, <2>1 DEF SentBy
<1>8. CASE c = Yes(side) /\ q = "WANT_YES" /\ d = "YES" /\ Grants(side, o)
    <2>1. r = <<"YES", <<>>>>
        BY <1>8 DEF Turns, Negotiated
    <2>2. r[1] = "YES" /\ r[2] = <<>>
        BY <2>1
    <2>3. Fits(side, o, d, "YES", g.owed)
        BY <1>3, <1>8 DEF Fits, said
    <2> QED BY <1>7, <2>2, <2>3 DEF g
<1>9. CASE c = No(side) /\ q = "WANT_NO" /\ d = "NO" /\ Grants(side, o)
    <2>1. r = <<"NO", <<>>>>
        BY <1>1, <1>9 DEF Turns, Negotiated
    <2>2. r[1] = "NO" /\ r[2] = <<>>
        BY <2>1
    <2>3. Fits(side, o, d, "NO", g.owed)
        BY <1>3, <1>9 DEF Fits, said
    <2> QED BY <1>7, <2>2, <2>3 DEF g
<1>10. CASE c = No(side) /\ q = "WANT_YES" /\ d \in {"NO", "UNKNOWN"} /\ ~Grants(side, o)
    <2>1. r = <<"NO", <<>>>>
        BY <1>1, <1>10 DEF Turns, Negotiated
    <2>2. r[1] = "NO" /\ r[2] = <<>>
        BY <2>1
    <2>3. Fits(side, o, d, "NO", g.owed)
        BY <1>3, <1>10 DEF Fits, said
    <2> QED BY <1>7, <2>2, <2>3 DEF g
<1>11. CASE c = Yes(side) /\ q = "NO" /\ d = "WANT_YES" /\ Grants(side, o)
    <2>1. r \in {<<"YES", <<On(side)>>>>, <<"NO", <<Off(side)>>>>}
        BY <1>11 DEF Turns, Negotiated
    <2>2. CASE r = <<"YES", <<On(side)>>>>
        <3>1. r[1] = "YES" /\ r[2] = <<On(side)>> /\ r[2] # <<>> /\ r[2][1] = On(side)
            BY <2>2
        <3>2. Answered(side, o, d) = {}
            BY <1>11 DEF Answered
        <3>3. g.tel.state = "DATA" /\ Of(g.tel, side, o) = d
            BY <1>2
        <3>4. PICK z : /\ Sees(g, Sent(On(side), o), z) /\ Leaves(side, o, g, z)
                       /\ z.owed = g.owed \cup {}
                       /\ Of(z.tel, side, o) = "YES"
            <4> HIDE DEF d
            <4> QED BY <1>2, <1>4, <1>11, <3>2, <3>3, ToldOn
        <3>5. Fits(side, o, Of(z.tel, side, o), "YES", z.owed)
            BY <1>3, <1>11, <3>4 DEF Fits, said
        <3>6. Changes(side, o, y, z)
            BY <1>6, <3>4 DEF Changes, Leaves
        <3> QED BY <3>1, <3>4, <3>5, <3>6 DEF g, SentBy
    <2>3. CASE r = <<"NO", <<Off(side)>>>>
        <3>1. r[1] = "NO" /\ r[2] = <<Off(side)>> /\ r[2] # <<>> /\ r[2][1] = Off(side)
            BY <2>3
        <3>2. g.tel.state = "DATA" /\ Of(g.tel, side, o) # "YES"
            BY <1>2, <1>11
        <3>3. PICK z : /\ Sees(g, Sent(Off(side), o), z) /\ Leaves(side, o, g, z)
                       /\ z.owed = g.owed /\ Of(z.tel, side, o) = "NO"
            <4>1. \E z : /\ Sees(g, Sent(Off(side), o), z) /\ Leaves(side, o, g, z)
                         /\ Of(z.tel, side, o) = IF o \in Option THEN "NO" ELSE "UNKNOWN"
                         /\ z.owed = IF Of(g.tel, side, o) = "YES" THEN g.owed \cup {<<No(side), o>>}
                                     ELSE g.owed
                BY <1>2, <3>2, ToldOff
            <4> QED BY <1>4, <1>11, <3>2, <4>1
        <3>4. Fits(side, o, Of(z.tel, side, o), "NO", z.owed)
            BY <1>3, <1>11, <3>3 DEF Fits, said
        <3>5. Changes(side, o, y, z)
            BY <1>6, <3>3 DEF Changes, Leaves
        <3> QED BY <3>1, <3>3, <3>4, <3>5 DEF g, SentBy
    <2> QED BY <2>1, <2>2, <2>3
<1> QED
    BY <1>5, <1>8, <1>9, <1>10, <1>11

-----------------------------------------------------------------------------
(* What a key of the peer makes of a glimpse.                              *)

\* The terminal holds the line that the peer wants, unless it is done.
Lined(s, want) == s.state = "DONE" \/ (s.state = "NORMAL" /\ s.line = want)

\* After the bytes of w the device is as it was and the terminal is in s.
Heeds(y, w, s) ==
    /\ w \in Seq(Byte) /\ s \in Terminal
    /\ Sees(y, w, Glimpsed(y.tel, s, y.owed))

LEMMA HeedsNothing ==
    ASSUME NEW y \in Glimpse
    PROVE  Heeds(y, <<>>, y.term)
<1>1. y = Glimpsed(y.tel, y.term, y.owed) /\ y.term \in Terminal
    BY GlimpseParts
<1>2. Sees(y, <<>>, y)
    BY SeesNothing
<1> QED
    BY <1>1, <1>2, EmptySeq DEF Heeds

LEMMA HeedsKey ==
    ASSUME NEW y \in Glimpse, y.tel.state = "DATA", NEW w, NEW s, Heeds(y, w, s),
           NEW c \in Byte, c # "IAC"
    PROVE  Heeds(y, Append(w, c), Keyed(s, c))
<1> DEFINE g == Glimpsed(y.tel, s, y.owed)
           z == Glimpsed(y.tel, Keyed(s, c), y.owed)
<1>1. w \in Seq(Byte) /\ s \in Terminal /\ Sees(y, w, g)
    BY DEF Heeds
<1>2. y.tel \in Memory /\ y.owed \in SUBSET Answer
    BY GlimpseParts
<1>3. g \in Glimpse /\ g.tel = y.tel /\ g.term = s /\ g.owed = y.owed
    BY <1>1, <1>2, GlimpsedIs
<1> HIDE DEF g
<1>4. Heard(g.tel, c).tel = y.tel /\ Heard(g.tel, c).out = <<>> /\ Heard(g.tel, c).data = <<c>>
    <2>1. Heard(y.tel, c).tel = y.tel /\ Heard(y.tel, c).out = <<>> /\ Heard(y.tel, c).data = <<c>>
        BY <1>2, HeardIs
    <2> QED BY <1>3, <2>1
<1>5. Follows(g, c, Glimpsed(y.tel, Keyed(g.term, c), g.owed)) /\ Glimpsed(y.tel, Keyed(g.term, c), g.owed) \in Glimpse
    BY <1>2, <1>3, <1>4, Passes
<1>6. Sees(y, Append(w, c), z)
    BY <1>1, <1>3, <1>5, SeesMore
<1>7. Append(w, c) \in Seq(Byte) /\ Keyed(s, c) \in Terminal
    BY <1>1, AppendProperties, KeyedKeeps
<1> QED
    BY <1>6, <1>7 DEF Heeds

\* A key of the keyboard.
LEMMA KeyedLined ==
    ASSUME NEW s \in Terminal, NEW want \in Seq(Printable), Lined(s, want)
    PROVE  /\ Lined(Keyed(s, "x"), Typed(want, "x"))
           /\ Lined(Keyed(s, "BS"), Typed(want, "BS"))
           /\ Lined(Keyed(s, "KILL"), Typed(want, "KILL"))
           /\ Lined(Keyed(s, "LF"), Typed(want, "RETURN"))
           /\ Lined(Keyed(Keyed(s, "CR"), "LF"), Typed(want, "RETURN"))
           /\ Lined(Keyed(Keyed(s, "CR"), "NUL"), Typed(want, "RETURN"))
           /\ Lined(Keyed(Keyed(Keyed(Keyed(s, "ESC"), "["), "0"), "x"), want)
           /\ Lined(Keyed(Keyed(Keyed(s, "ESC"), "O"), "x"), want)
           /\ Lined(Keyed(s, "IAC"), want)
<1>1. CASE s.state = "DONE"
    <2>1. \A c : Keyed(s, c) = s
        BY <1>1 DEF Keyed
    <2> QED BY <1>1, <2>1 DEF Lined
<1>2. CASE s.state # "DONE"
    <2>1. s.state = "NORMAL" /\ s.line = want
        BY <1>2 DEF Lined
    <2>2. \A c : Keyed(s, c) = Edited(s, c)
        BY <2>1 DEF Keyed
    <2>3. Len(want) \in Nat
        BY LenProperties
    <2>4. want = <<>> <=> Len(want) = 0
        BY EmptySeq
    <2>5. Lined(Edited(s, "x"), Typed(want, "x"))
        BY <2>1 DEF Lined, Edited, Typed, Terminal, Printable
    <2>6. Lined(Edited(s, "BS"), Typed(want, "BS"))
        <3>1. Edited(s, "BS") = [s EXCEPT !.line = SubSeq(want, 1, IF Len(want) > 0 THEN Len(want) - 1 ELSE 0)]
            BY <2>1 DEF Edited, Terminal
        <3>2. CASE want = <<>>
            <4>1. ~(Len(want) > 0) /\ SubSeq(want, 1, 0) = <<>>
                BY <2>4, <3>2, SubSeqEmpty
            <4>2. Edited(s, "BS") = [s EXCEPT !.line = <<>>]
                BY <3>1, <4>1
            <4>3. Typed(want, "BS") = <<>>
                BY <3>2 DEF Typed
            <4> QED BY <2>1, <4>2, <4>3 DEF Lined, Terminal
        <3>3. CASE want # <<>>
            <4>1. Len(want) > 0
                BY <2>3, <2>4, <3>3
            <4>2. Edited(s, "BS") = [s EXCEPT !.line = SubSeq(want, 1, Len(want) - 1)]
                BY <3>1, <4>1
            <4>3. Typed(want, "BS") = SubSeq(want, 1, Len(want) - 1)
                BY <3>3 DEF Typed, Front
            <4> QED BY <2>1, <4>2, <4>3 DEF Lined, Terminal
        <3> QED BY <3>2, <3>3
    <2>7. Lined(Edited(s, "KILL"), Typed(want, "KILL"))
        <3>1. Edited(s, "KILL") = [s EXCEPT !.line = SubSeq(want, 1, 0)]
            BY <2>1 DEF Edited, Terminal
        <3>2. SubSeq(want, 1, 0) = <<>>
            BY SubSeqEmpty
        <3>3. Typed(want, "KILL") = <<>>
            BY DEF Typed
        <3> QED BY <2>1, <3>1, <3>2, <3>3 DEF Lined, Terminal
    <2>8. Typed(want, "RETURN") = <<>>
        BY DEF Typed
    <2>9. Lined(Edited(s, "LF"), <<>>)
        BY <2>1 DEF Lined, Edited, Ended
    <2>10. Edited(s, "CR").state \in {"DONE", "LINE_END"} /\ Edited(s, "CR").line = <<>>
        BY <2>1 DEF Edited, Ended, Terminal
    <2> DEFINE e == Edited(s, "CR")
    <2>11. e \in Terminal
        <3>1. "CR" \in Byte
            BY BytesAre
        <3> QED BY <2>2, <3>1, KeyedKeeps
    <2> HIDE DEF e
    <2>12. Lined(Keyed(e, "LF"), <<>>) /\ Lined(Keyed(e, "NUL"), <<>>)
        <3>1. CASE e.state = "DONE"
            BY <3>1 DEF Keyed, Lined
        <3>2. CASE e.state = "LINE_END"
            <4>1. Keyed(e, "LF") = [e EXCEPT !.state = "NORMAL"]
                BY <3>2 DEF Keyed
            <4>4. "NUL" \notin Printable
                BY DEF Printable
            <4>5. \A r : Edited(r, "NUL") = r
                BY <4>4 DEF Edited
            <4>6. Keyed(e, "NUL") = Edited([e EXCEPT !.state = "NORMAL"], "NUL")
                BY <3>2 DEF Keyed
            <4>2. Keyed(e, "NUL") = [e EXCEPT !.state = "NORMAL"]
                BY <4>5, <4>6
            <4>3. e.line = <<>>
                BY <2>10 DEF e
            <4> QED BY <2>11, <4>1, <4>2, <4>3 DEF Lined, Terminal
        <3> QED BY <2>10, <3>1, <3>2 DEF e
    <2>13. Edited(s, "ESC") = [s EXCEPT !.state = "ESCAPE"]
        BY DEF Edited
    <2> DEFINE f == [s EXCEPT !.state = "ESCAPE"]
    <2>14. f.state = "ESCAPE" /\ \A v : [f EXCEPT !.state = v] = [s EXCEPT !.state = v]
        BY DEF Terminal
    <2> HIDE DEF f
    <2>15. Keyed(f, "[") = [s EXCEPT !.state = "CSI"] /\ Keyed(f, "O") = [s EXCEPT !.state = "SS3"]
        BY <2>14 DEF Keyed
    <2>16. ASSUME NEW v \in {"CSI", "SS3"}
           PROVE  Keyed([s EXCEPT !.state = v], "x") = [s EXCEPT !.state = "NORMAL"]
        <3> DEFINE u == [s EXCEPT !.state = v]
        <3>1. u.state = v /\ [u EXCEPT !.state = "NORMAL"] = [s EXCEPT !.state = "NORMAL"]
            BY DEF Terminal
        <3> HIDE DEF u
        <3>2. Keyed(u, "x") = [u EXCEPT !.state = "NORMAL"]
            BY <3>1 DEF Keyed, Final, Printable
        <3> QED BY <3>1, <3>2 DEF u
    <2>20. Keyed([s EXCEPT !.state = "CSI"], "0") = [s EXCEPT !.state = "CSI"]
        <3> DEFINE u == [s EXCEPT !.state = "CSI"]
        <3>1. u.state = "CSI"
            BY DEF Terminal
        <3> HIDE DEF u
        <3>2. Keyed(u, "0") = u
            BY <3>1 DEF Keyed, Final, Printable
        <3> QED BY <3>2 DEF u
    <2>17. Lined([s EXCEPT !.state = "NORMAL"], want)
        BY <2>1 DEF Lined, Terminal
    <2>18. /\ Lined(Keyed(Keyed(Keyed(Keyed(s, "ESC"), "["), "0"), "x"), want)
           /\ Lined(Keyed(Keyed(Keyed(s, "ESC"), "O"), "x"), want)
        BY <2>2, <2>13, <2>15, <2>16, <2>17, <2>20 DEF f
    <2>19. Lined(Edited(s, "IAC"), want)
        BY <2>1 DEF Lined, Edited, Printable
    <2> QED BY <2>2, <2>5, <2>6, <2>7, <2>8, <2>9, <2>12, <2>18, <2>19 DEF e
<1> QED
    BY <1>1, <1>2

\* The protocol's own bytes: a byte IAC that is data, a command, and a
\* subnegotiation.
LEMMA Grown ==
    ASSUME NEW S, NEW q \in Seq(S), NEW c \in S, NEW u \in Seq(S), Len(u) = Len(q) + 1,
           u[Len(q) + 1] = c, \A i \in 1 .. Len(q) : u[i] = q[i]
    PROVE  Append(q, c) = u
<1> DEFINE v == Append(q, c)
<1>1. v \in Seq(S) /\ Len(v) = Len(q) + 1 /\ v[Len(q) + 1] = c /\ \A i \in 1 .. Len(q) : v[i] = q[i]
    BY AppendProperties
<1>2. Len(q) \in Nat
    BY LenProperties
<1> HIDE DEF v
<1>3. \A i \in 1 .. Len(v) : v[i] = u[i]
    <2> TAKE i \in 1 .. Len(v)
    <2>1. i \in 1 .. Len(q) \/ i = Len(q) + 1
        BY <1>1, <1>2
    <2> QED BY <1>1, <2>1
<1>4. v = u
    BY <1>1, <1>3, SeqEqual
<1> QED
    BY <1>4 DEF v

LEMMA FourthByte ==
    ASSUME NEW a \in Byte, NEW b \in Byte, NEW c \in Byte, NEW d \in Byte
    PROVE  Append(<<a, b, c>>, d) = <<a, b, c, d>>
<1> DEFINE q3 == <<a, b, c>>
           q4 == <<a, b, c, d>>
<1>1. q3 \in Seq(Byte) /\ Len(q3) = 3
    OBVIOUS
<1>2. q4 \in Seq(Byte) /\ Len(q4) = 4 /\ q4[4] = d
    OBVIOUS
<1>3. \A i \in 1 .. 3 : q4[i] = q3[i]
    OBVIOUS
<1> HIDE DEF q3, q4
<1>4. Len(q4) = Len(q3) + 1 /\ q4[Len(q3) + 1] = d
    BY <1>1, <1>2
<1>5. \A i \in 1 .. Len(q3) : q4[i] = q3[i]
    BY <1>1, <1>3
<1>6. Append(q3, d) = q4
    BY <1>1, <1>2, <1>4, <1>5, Grown
<1> QED
    BY <1>6 DEF q3, q4

LEMMA LongBytes ==
    \A a, b, c, d, e, f, g, h \in Byte :
        Append(Append(Append(Append(Append(<<a, b, c>>, d), e), f), g), h) =
            <<a, b, c, d, e, f, g, h>>
<1> TAKE a, b, c, d, e, f, g, h \in Byte
<1> DEFINE q3 == <<a, b, c>>
           q4 == <<a, b, c, d>>
           q5 == <<a, b, c, d, e>>
           q6 == <<a, b, c, d, e, f>>
           q7 == <<a, b, c, d, e, f, g>>
           q8 == <<a, b, c, d, e, f, g, h>>
<1>1. q3 \in Seq(Byte) /\ Len(q3) = 3
    OBVIOUS
<1>2. q4 \in Seq(Byte) /\ Len(q4) = 4 /\ q4[4] = d
    OBVIOUS
<1>3. q5 \in Seq(Byte) /\ Len(q5) = 5 /\ q5[5] = e
    OBVIOUS
<1>4. q6 \in Seq(Byte) /\ Len(q6) = 6 /\ q6[6] = f
    OBVIOUS
<1>5. q7 \in Seq(Byte) /\ Len(q7) = 7 /\ q7[7] = g
    OBVIOUS
<1>6. q8 \in Seq(Byte) /\ Len(q8) = 8 /\ q8[8] = h
    OBVIOUS
<1>7. \A i \in 1 .. 3 : q4[i] = q3[i]
    OBVIOUS
<1>8. \A i \in 1 .. 4 : q5[i] = q4[i]
    OBVIOUS
<1>9. \A i \in 1 .. 5 : q6[i] = q5[i]
    OBVIOUS
<1>10. \A i \in 1 .. 6 : q7[i] = q6[i]
    OBVIOUS
<1>11. \A i \in 1 .. 7 : q8[i] = q7[i]
    OBVIOUS
<1> HIDE DEF q3, q4, q5, q6, q7, q8
<1>12. Append(q3, d) = q4
    <2>1. Len(q4) = Len(q3) + 1 /\ q4[Len(q3) + 1] = d
        BY <1>1, <1>2
    <2>2. \A i \in 1 .. Len(q3) : q4[i] = q3[i]
        BY <1>1, <1>7
    <2> QED BY <1>1, <1>2, <2>1, <2>2, Grown
<1>13. Append(q4, e) = q5
    <2>1. Len(q5) = Len(q4) + 1 /\ q5[Len(q4) + 1] = e
        BY <1>2, <1>3
    <2>2. \A i \in 1 .. Len(q4) : q5[i] = q4[i]
        BY <1>2, <1>8
    <2> QED BY <1>2, <1>3, <2>1, <2>2, Grown
<1>14. Append(q5, f) = q6
    <2>1. Len(q6) = Len(q5) + 1 /\ q6[Len(q5) + 1] = f
        BY <1>3, <1>4
    <2>2. \A i \in 1 .. Len(q5) : q6[i] = q5[i]
        BY <1>3, <1>9
    <2> QED BY <1>3, <1>4, <2>1, <2>2, Grown
<1>15. Append(q6, g) = q7
    <2>1. Len(q7) = Len(q6) + 1 /\ q7[Len(q6) + 1] = g
        BY <1>4, <1>5
    <2>2. \A i \in 1 .. Len(q6) : q7[i] = q6[i]
        BY <1>4, <1>10
    <2> QED BY <1>4, <1>5, <2>1, <2>2, Grown
<1>16. Append(q7, h) = q8
    <2>1. Len(q8) = Len(q7) + 1 /\ q8[Len(q7) + 1] = h
        BY <1>5, <1>6
    <2>2. \A i \in 1 .. Len(q7) : q8[i] = q7[i]
        BY <1>5, <1>11
    <2> QED BY <1>5, <1>6, <2>1, <2>2, Grown
<1> QED
    BY <1>12, <1>13, <1>14, <1>15, <1>16 DEF q3, q8

Silent(t, c, state) ==
    Heard(t, c).tel = In(t, state) /\ Heard(t, c).out = <<>> /\ Heard(t, c).data = <<>>

LEMMA SilentBytes ==
    \A t \in Memory :
        /\ t.state = "DATA" => Silent(t, "IAC", "COMMAND")
        /\ t.state = "COMMAND" =>
                /\ Silent(t, "NOP", "DATA") /\ Silent(t, "SB", "SUBNEGOTIATION")
                /\ Heard(t, "IAC").tel = In(t, "DATA") /\ Heard(t, "IAC").out = <<>>
                /\ Heard(t, "IAC").data = <<"IAC">>
        /\ t.state = "SUBNEGOTIATION" =>
                /\ Silent(t, "OTHER", "SUBNEGOTIATION") /\ Silent(t, "x", "SUBNEGOTIATION")
                /\ Silent(t, "IAC", "SUBNEGOTIATION_COMMAND")
        /\ t.state = "SUBNEGOTIATION_COMMAND" =>
                Silent(t, "IAC", "SUBNEGOTIATION") /\ Silent(t, "SE", "DATA")
<1> TAKE t \in Memory
<1>1. "IAC" \in Byte /\ "NOP" \in Byte /\ "SB" \in Byte /\ "OTHER" \in Byte /\ "x" \in Byte /\ "SE" \in Byte
    BY DEF Byte, AnyOption, Printable
<1>6. ASSUME NEW c \in Byte, t.state = "SUBNEGOTIATION", c # "IAC"
      PROVE  Silent(t, c, "SUBNEGOTIATION")
    <2>1. In(t, "SUBNEGOTIATION") = t
        BY <1>6, InKeeps
    <2>2. Heard(t, c).tel = t /\ Heard(t, c).out = <<>> /\ Heard(t, c).data = <<>>
        BY <1>6, HeardInside
    <2> QED BY <2>1, <2>2 DEF Silent
<1>2. CASE t.state = "DATA"
    <2>1. Silent(t, "IAC", "COMMAND")
        BY <1>1, <1>2, HeardIs DEF Silent
    <2> QED BY <1>2, <2>1
<1>3. CASE t.state = "COMMAND"
    <2>1. Silent(t, "NOP", "DATA")
        BY <1>3, HeardPlain DEF Silent
    <2>2. Silent(t, "SB", "SUBNEGOTIATION")
        BY <1>3, HeardPlain DEF Silent
    <2>3. /\ Heard(t, "IAC").tel = In(t, "DATA") /\ Heard(t, "IAC").out = <<>>
          /\ Heard(t, "IAC").data = <<"IAC">>
        BY <1>1, <1>3, HeardIs
    <2> QED BY <1>3, <2>1, <2>2, <2>3
<1>4. CASE t.state = "SUBNEGOTIATION"
    <2>2. Silent(t, "OTHER", "SUBNEGOTIATION")
        BY <1>1, <1>4, <1>6
    <2>3. Silent(t, "x", "SUBNEGOTIATION")
        BY <1>1, <1>4, <1>6
    <2>4. Silent(t, "IAC", "SUBNEGOTIATION_COMMAND")
        BY <1>1, <1>4, HeardIs DEF Silent
    <2> QED BY <1>4, <2>2, <2>3, <2>4
<1>5. CASE t.state = "SUBNEGOTIATION_COMMAND"
    <2>1. Silent(t, "IAC", "SUBNEGOTIATION")
        BY <1>1, <1>5, HeardIs DEF Silent
    <2>2. Silent(t, "SE", "DATA")
        BY <1>1, <1>5, HeardIs DEF Silent
    <2> QED BY <1>5, <2>1, <2>2
<1> QED
    BY <1>2, <1>3, <1>4, <1>5 DEF Memory

LEMMA HeedsProtocol ==
    ASSUME NEW y \in Glimpse, y.tel.state = "DATA"
    PROVE  /\ Heeds(y, <<"IAC", "IAC">>, Keyed(y.term, "IAC"))
           /\ Heeds(y, <<"IAC", "NOP">>, y.term)
           /\ Heeds(y, <<"IAC", "SB", "OTHER", "IAC", "IAC", "x", "IAC", "SE">>, y.term)
<1> DEFINE t == y.tel
           G(state) == Glimpsed(In(t, state), y.term, y.owed)
           States == {"DATA", "COMMAND", "SUBNEGOTIATION", "SUBNEGOTIATION_COMMAND"}
<1>1. t \in Memory /\ y.term \in Terminal /\ y.owed \in SUBSET Answer /\ y = Glimpsed(t, y.term, y.owed)
    BY GlimpseParts
<1>2. In(t, "DATA") = t /\ G("DATA") = y
    <2>1. In(t, "DATA") = t
        BY <1>1, InKeeps
    <2> QED BY <1>1, <2>1
<1>3. ASSUME NEW state \in States
      PROVE  /\ G(state) \in Glimpse /\ G(state).tel = In(t, state) /\ G(state).term = y.term
             /\ G(state).owed = y.owed /\ In(t, state) \in Memory /\ In(t, state).state = state
             /\ \A other : In(In(t, state), other) = In(t, other)
    <2>1. In(t, state) \in Memory /\ In(t, state).state = state
          /\ \A other : In(In(t, state), other) = In(t, other)
        BY <1>1, InKeeps
    <2> QED BY <1>1, <2>1, GlimpsedIs
<1>4. {"IAC", "SB", "OTHER", "x", "SE", "NOP"} \subseteq Byte
    BY DEF Byte, AnyOption, Printable
<1> HIDE DEF t
<1>5. ASSUME NEW a \in States, NEW b \in States, NEW c \in Byte,
             Heard(In(t, a), c).tel = In(t, b), Heard(In(t, a), c).out = <<>>,
             Heard(In(t, a), c).data = <<>>
      PROVE  Follows(G(a), c, G(b))
    <2> DEFINE g == G(a)
               u == In(t, b)
    <2>1. /\ g \in Glimpse /\ g.tel = In(t, a) /\ g.term = y.term /\ g.owed = y.owed
          /\ g.tel.state = a
        BY <1>3
    <2>2. u \in Memory
        BY <1>3
    <2>3. Heard(g.tel, c).tel = u /\ Heard(g.tel, c).out = <<>> /\ Heard(g.tel, c).data = <<>>
        BY <1>5, <2>1
    <2> HIDE DEF g, u
    <2>4. Follows(g, c, Glimpsed(u, g.term, g.owed))
        BY <2>1, <2>2, <2>3, Swallows
    <2> QED BY <2>1, <2>4 DEF g, u
<1>6. \A a \in States, b \in States, c \in Byte :
            Silent(In(t, a), c, b) => Follows(G(a), c, G(b))
    <2> TAKE a \in States, b \in States, c \in Byte
    <2> HAVE Silent(In(t, a), c, b)
    <2>1. In(In(t, a), b) = In(t, b)
        BY <1>3
    <2> QED BY <1>5, <2>1 DEF Silent
<1>7. \A a \in States : In(t, a) \in Memory /\ In(t, a).state = a
    BY <1>3
<1>8. /\ Silent(In(t, "DATA"), "IAC", "COMMAND") /\ Silent(In(t, "COMMAND"), "NOP", "DATA")
      /\ Silent(In(t, "COMMAND"), "SB", "SUBNEGOTIATION")
      /\ Silent(In(t, "SUBNEGOTIATION"), "OTHER", "SUBNEGOTIATION")
      /\ Silent(In(t, "SUBNEGOTIATION"), "x", "SUBNEGOTIATION")
      /\ Silent(In(t, "SUBNEGOTIATION"), "IAC", "SUBNEGOTIATION_COMMAND")
      /\ Silent(In(t, "SUBNEGOTIATION_COMMAND"), "IAC", "SUBNEGOTIATION")
      /\ Silent(In(t, "SUBNEGOTIATION_COMMAND"), "SE", "DATA")
    BY <1>7, SilentBytes
<1>9. /\ Follows(G("DATA"), "IAC", G("COMMAND")) /\ Follows(G("COMMAND"), "NOP", G("DATA"))
      /\ Follows(G("COMMAND"), "SB", G("SUBNEGOTIATION"))
    BY <1>4, <1>6, <1>8
<1>10. /\ Follows(G("SUBNEGOTIATION"), "OTHER", G("SUBNEGOTIATION"))
       /\ Follows(G("SUBNEGOTIATION"), "x", G("SUBNEGOTIATION"))
    BY <1>4, <1>6, <1>8
<1>11. Follows(G("SUBNEGOTIATION"), "IAC", G("SUBNEGOTIATION_COMMAND"))
    BY <1>4, <1>6, <1>8
<1>12. /\ Follows(G("SUBNEGOTIATION_COMMAND"), "IAC", G("SUBNEGOTIATION"))
       /\ Follows(G("SUBNEGOTIATION_COMMAND"), "SE", G("DATA"))
    BY <1>4, <1>6, <1>8
<1>13. /\ Follows(G("COMMAND"), "IAC", Glimpsed(t, Keyed(y.term, "IAC"), y.owed))
       /\ Glimpsed(t, Keyed(y.term, "IAC"), y.owed) \in Glimpse
    <2> DEFINE g == G("COMMAND")
    <2>1. g \in Glimpse /\ g.tel = In(t, "COMMAND") /\ g.term = y.term /\ g.owed = y.owed
          /\ g.tel.state = "COMMAND"
        BY <1>3
    <2>2. /\ Heard(g.tel, "IAC").tel = t /\ Heard(g.tel, "IAC").out = <<>>
          /\ Heard(g.tel, "IAC").data = <<"IAC">>
        <3>1. /\ Heard(In(t, "COMMAND"), "IAC").tel = In(In(t, "COMMAND"), "DATA")
              /\ Heard(In(t, "COMMAND"), "IAC").out = <<>>
              /\ Heard(In(t, "COMMAND"), "IAC").data = <<"IAC">>
            BY <1>7, SilentBytes
        <3> QED BY <1>2, <1>3, <2>1, <3>1
    <2> HIDE DEF g
    <2>3. /\ Follows(g, "IAC", Glimpsed(t, Keyed(g.term, "IAC"), g.owed))
          /\ Glimpsed(t, Keyed(g.term, "IAC"), g.owed) \in Glimpse
        BY <1>1, <1>2, <1>4, <2>1, <2>2, Passes
    <2> QED BY <2>1, <2>3 DEF g
<1> DEFINE Way(w, z) == w \in Seq(Byte) /\ Sees(y, w, z) /\ z \in Glimpse
<1>14. ASSUME NEW w, NEW g, Way(w, g), NEW c \in Byte, NEW z \in Glimpse, Follows(g, c, z)
       PROVE  Way(Append(w, c), z)
    <2>1. Append(w, c) \in Seq(Byte)
        BY <1>14, AppendProperties
    <2>2. Sees(y, Append(w, c), z)
        BY <1>14, SeesMore
    <2> QED BY <1>14, <2>1, <2>2
<1>15. \A state \in States : G(state) \in Glimpse
    BY <1>3
<1>16. Way(<<>>, G("DATA"))
    <2>1. Sees(y, <<>>, y)
        BY SeesNothing
    <2> QED BY <1>2, <2>1, EmptySeq
<1> HIDE DEF G, Way
<1> DEFINE w1 == Append(<<>>, "IAC")
           w2 == Append(w1, "SB")
           w3 == Append(w2, "OTHER")
           w4 == Append(w3, "IAC")
           w5 == Append(w4, "IAC")
           w6 == Append(w5, "x")
           w7 == Append(w6, "IAC")
           w8 == Append(w7, "SE")
<1>17. Way(w1, G("COMMAND"))
    BY <1>4, <1>9, <1>14, <1>15, <1>16
<1> HIDE DEF w1
<1>18. /\ Way(Append(w1, "IAC"), Glimpsed(t, Keyed(y.term, "IAC"), y.owed))
       /\ Way(Append(w1, "NOP"), G("DATA"))
       /\ Way(w2, G("SUBNEGOTIATION"))
    BY <1>4, <1>9, <1>13, <1>14, <1>15, <1>17
<1> HIDE DEF w2
<1>19. Way(w3, G("SUBNEGOTIATION"))
    BY <1>4, <1>10, <1>14, <1>15, <1>18
<1> HIDE DEF w3
<1>20. Way(w4, G("SUBNEGOTIATION_COMMAND"))
    BY <1>4, <1>11, <1>14, <1>15, <1>19
<1> HIDE DEF w4
<1>21. Way(w5, G("SUBNEGOTIATION"))
    BY <1>4, <1>12, <1>14, <1>15, <1>20
<1> HIDE DEF w5
<1>22. Way(w6, G("SUBNEGOTIATION"))
    BY <1>4, <1>10, <1>14, <1>15, <1>21
<1> HIDE DEF w6
<1>23. Way(w7, G("SUBNEGOTIATION_COMMAND"))
    BY <1>4, <1>11, <1>14, <1>15, <1>22
<1> HIDE DEF w7
<1>24. Way(w8, G("DATA"))
    BY <1>4, <1>12, <1>14, <1>15, <1>23
<1>25. /\ Append(w1, "IAC") = <<"IAC", "IAC">> /\ Append(w1, "NOP") = <<"IAC", "NOP">>
       /\ w3 = <<"IAC", "SB", "OTHER">>
    <2>1. "IAC" \in Byte /\ "SB" \in Byte /\ "OTHER" \in Byte /\ "NOP" \in Byte
        BY <1>4
    <2>2. w1 = <<"IAC">>
        BY <2>1, ShortBytes DEF w1
    <2>3. Append(w1, "IAC") = <<"IAC", "IAC">> /\ Append(w1, "NOP") = <<"IAC", "NOP">>
        BY <2>1, <2>2, ShortBytes
    <2>4. w2 = <<"IAC", "SB">>
        BY <2>1, <2>2, ShortBytes DEF w2
    <2>5. w3 = <<"IAC", "SB", "OTHER">>
        BY <2>1, <2>4, ShortBytes DEF w3
    <2> QED BY <2>3, <2>5
<1>30. w8 = <<"IAC", "SB", "OTHER", "IAC", "IAC", "x", "IAC", "SE">>
    <2>1. Append(Append(Append(Append(Append(<<"IAC", "SB", "OTHER">>, "IAC"), "IAC"), "x"), "IAC"), "SE") =
                <<"IAC", "SB", "OTHER", "IAC", "IAC", "x", "IAC", "SE">>
        BY <1>4, LongBytes
    <2> QED BY <1>25, <2>1 DEF w4, w5, w6, w7
<1> HIDE DEF w8
<1>26. Keyed(y.term, "IAC") \in Terminal
    BY <1>1, <1>4, KeyedKeeps
<1>27. Heeds(y, <<"IAC", "IAC">>, Keyed(y.term, "IAC"))
    BY <1>18, <1>25, <1>26 DEF Heeds, Way, t
<1>28. Heeds(y, <<"IAC", "NOP">>, y.term)
    BY <1>1, <1>2, <1>18, <1>25 DEF Heeds, Way, t
<1>29. Heeds(y, <<"IAC", "SB", "OTHER", "IAC", "IAC", "x", "IAC", "SE">>, y.term)
    BY <1>1, <1>2, <1>24, <1>30 DEF Heeds, Way, t
<1> QED
    BY <1>27, <1>28, <1>29

LEMMA TypedKeeps ==
    ASSUME NEW want \in Seq(Printable), NEW key \in Keys
    PROVE  Typed(want, key[1]) \in Seq(Printable)
<1>1. key[1] \in {"x", "BS", "KILL", "RETURN", "none"}
    BY DEF Keys
<1>2. CASE key[1] = "x"
    <2>1. Append(want, "x") \in Seq(Printable)
        BY AppendProperties DEF Printable
    <2> QED BY <1>2, <2>1 DEF Typed
<1>3. CASE key[1] = "BS"
    <2>1. CASE want # <<>>
        <3>1. Len(want) - 1 \in Int /\ \A i \in 1 .. Len(want) - 1 : want[i] \in Printable
            BY LenProperties, ElementOfSeq
        <3>2. SubSeq(want, 1, Len(want) - 1) \in Seq(Printable)
            BY <3>1, SubSeqProperties
        <3> QED BY <1>3, <2>1, <3>2 DEF Typed, Front
    <2>2. CASE want = <<>>
        BY <1>3, <2>2 DEF Typed
    <2> QED BY <2>1, <2>2
<1>4. CASE key[1] \in {"KILL", "RETURN"}
    BY <1>4 DEF Typed
<1>5. CASE key[1] = "none"
    BY <1>5 DEF Typed
<1> QED
    BY <1>1, <1>2, <1>3, <1>4, <1>5

LEMMA HeedsFour ==
    ASSUME NEW y \in Glimpse, y.tel.state = "DATA", NEW a \in Byte, NEW b \in Byte, NEW c \in Byte, NEW d \in Byte,
           a # "IAC", b # "IAC", c # "IAC", d # "IAC"
    PROVE  /\ Heeds(y, <<a>>, Keyed(y.term, a))
           /\ Heeds(y, <<a, b>>, Keyed(Keyed(y.term, a), b))
           /\ Heeds(y, <<a, b, c>>, Keyed(Keyed(Keyed(y.term, a), b), c))
           /\ Heeds(y, <<a, b, c, d>>, Keyed(Keyed(Keyed(Keyed(y.term, a), b), c), d))
<1>1. Append(<<>>, a) = <<a>> /\ Append(<<a>>, b) = <<a, b>> /\ Append(<<a, b>>, c) = <<a, b, c>>
    BY ShortBytes
<1>2. Heeds(y, Append(<<>>, a), Keyed(y.term, a))
    BY HeedsNothing, HeedsKey
<1>3. Heeds(y, Append(<<a>>, b), Keyed(Keyed(y.term, a), b))
    BY <1>1, <1>2, HeedsKey
<1>4. Heeds(y, Append(<<a, b>>, c), Keyed(Keyed(Keyed(y.term, a), b), c))
    BY <1>1, <1>3, HeedsKey
<1>5. Append(<<a, b, c>>, d) = <<a, b, c, d>>
    BY FourthByte
<1>6. Heeds(y, Append(<<a, b, c>>, d), Keyed(Keyed(Keyed(Keyed(y.term, a), b), c), d))
    BY <1>1, <1>4, HeedsKey
<1> QED
    BY <1>1, <1>2, <1>3, <1>4, <1>5, <1>6

LEMMA KeySeen ==
    ASSUME NEW y \in Glimpse, y.tel.state = "DATA", NEW want \in Seq(Printable),
           Lined(y.term, want), NEW key \in Keys
    PROVE  \E s : Heeds(y, key[2], s) /\ Lined(s, Typed(want, key[1]))
<1> DEFINE t == y.term
<1>1. t \in Terminal /\ Lined(t, want)
    BY GlimpseParts
<1> HIDE DEF t
<1>2. /\ Lined(Keyed(t, "x"), Typed(want, "x"))
      /\ Lined(Keyed(t, "BS"), Typed(want, "BS"))
      /\ Lined(Keyed(t, "KILL"), Typed(want, "KILL"))
      /\ Lined(Keyed(t, "LF"), Typed(want, "RETURN"))
      /\ Lined(Keyed(Keyed(t, "CR"), "LF"), Typed(want, "RETURN"))
      /\ Lined(Keyed(Keyed(t, "CR"), "NUL"), Typed(want, "RETURN"))
      /\ Lined(Keyed(Keyed(Keyed(Keyed(t, "ESC"), "["), "0"), "x"), want)
      /\ Lined(Keyed(Keyed(Keyed(t, "ESC"), "O"), "x"), want)
      /\ Lined(Keyed(t, "IAC"), want)
    BY <1>1, KeyedLined
<1>3. Typed(want, "none") = want
    BY DEF Typed
<1>4. /\ "x" \in Byte /\ "[" \in Byte /\ "O" \in Byte /\ "0" \in Byte
      /\ {"NUL", "CR", "LF", "ESC", "KILL", "BS"} \subseteq Byte
    BY DEF Byte, Printable
<1>5. \A a, b, c, d \in Byte : a # "IAC" /\ b # "IAC" /\ c # "IAC" /\ d # "IAC" =>
          /\ Heeds(y, <<a>>, Keyed(t, a))
          /\ Heeds(y, <<a, b>>, Keyed(Keyed(t, a), b))
          /\ Heeds(y, <<a, b, c>>, Keyed(Keyed(Keyed(t, a), b), c))
          /\ Heeds(y, <<a, b, c, d>>, Keyed(Keyed(Keyed(Keyed(t, a), b), c), d))
    <2> TAKE a, b, c, d \in Byte
    <2> QED BY HeedsFour DEF t
<1>6. /\ Heeds(y, <<"x">>, Keyed(t, "x")) /\ Heeds(y, <<"BS">>, Keyed(t, "BS"))
      /\ Heeds(y, <<"KILL">>, Keyed(t, "KILL")) /\ Heeds(y, <<"LF">>, Keyed(t, "LF"))
    <2>1. \A a \in Byte : a # "IAC" => Heeds(y, <<a>>, Keyed(t, a))
        BY <1>5
    <2> QED BY <1>4, <2>1
<1>7. /\ Heeds(y, <<"CR", "LF">>, Keyed(Keyed(t, "CR"), "LF"))
      /\ Heeds(y, <<"CR", "NUL">>, Keyed(Keyed(t, "CR"), "NUL"))
    BY <1>4, <1>5
<1>8. /\ Heeds(y, <<"ESC", "[", "0", "x">>, Keyed(Keyed(Keyed(Keyed(t, "ESC"), "["), "0"), "x"))
      /\ Heeds(y, <<"ESC", "O", "x">>, Keyed(Keyed(Keyed(t, "ESC"), "O"), "x"))
    BY <1>4, <1>5
<1>9. /\ Heeds(y, <<"IAC", "IAC">>, Keyed(t, "IAC"))
      /\ Heeds(y, <<"IAC", "NOP">>, t)
      /\ Heeds(y, <<"IAC", "SB", "OTHER", "IAC", "IAC", "x", "IAC", "SE">>, t)
    BY HeedsProtocol DEF t
<1> DEFINE Seen(k, w, s) == Heeds(y, w, s) /\ Lined(s, Typed(want, k))
<1>10. /\ Seen("x", <<"x">>, Keyed(t, "x")) /\ Seen("BS", <<"BS">>, Keyed(t, "BS"))
       /\ Seen("KILL", <<"KILL">>, Keyed(t, "KILL")) /\ Seen("RETURN", <<"LF">>, Keyed(t, "LF"))
       /\ Seen("RETURN", <<"CR", "LF">>, Keyed(Keyed(t, "CR"), "LF"))
       /\ Seen("RETURN", <<"CR", "NUL">>, Keyed(Keyed(t, "CR"), "NUL"))
       /\ Seen("none", <<"ESC", "[", "0", "x">>, Keyed(Keyed(Keyed(Keyed(t, "ESC"), "["), "0"), "x"))
       /\ Seen("none", <<"ESC", "O", "x">>, Keyed(Keyed(Keyed(t, "ESC"), "O"), "x"))
       /\ Seen("none", <<"IAC", "IAC">>, Keyed(t, "IAC")) /\ Seen("none", <<"IAC", "NOP">>, t)
       /\ Seen("none", <<"IAC", "SB", "OTHER", "IAC", "IAC", "x", "IAC", "SE">>, t)
    BY <1>1, <1>2, <1>3, <1>6, <1>7, <1>8, <1>9
<1> HIDE DEF Seen
<1>11. \E s : Seen(key[1], key[2], s)
    <2>1. ASSUME NEW k, NEW w, NEW s, Seen(k, w, s), key = <<k, w>>
          PROVE  \E u : Seen(key[1], key[2], u)
        <3>1. key[1] = k /\ key[2] = w
            BY <2>1
        <3> QED BY <2>1, <3>1
    <2>2. \/ key = <<"x", <<"x">>>> \/ key = <<"BS", <<"BS">>>> \/ key = <<"KILL", <<"KILL">>>>
          \/ key = <<"RETURN", <<"CR", "LF">>>> \/ key = <<"RETURN", <<"CR", "NUL">>>>
          \/ key = <<"RETURN", <<"LF">>>>
          \/ key = <<"none", <<"ESC", "[", "0", "x">>>> \/ key = <<"none", <<"ESC", "O", "x">>>>
          \/ key = <<"none", <<"IAC", "IAC">>>> \/ key = <<"none", <<"IAC", "NOP">>>>
          \/ key = <<"none", <<"IAC", "SB", "OTHER", "IAC", "IAC", "x", "IAC", "SE">>>>
        BY DEF Keys
    <2>3. \A k, w, s : Seen(k, w, s) /\ key = <<k, w>> => \E u : Seen(key[1], key[2], u)
        BY <2>1
    <2> QED BY <1>10, <2>2, <2>3, Zenon
<1> QED
    BY <1>11 DEF Seen

-----------------------------------------------------------------------------
(* The invariant.                                                          *)

View(p, side) == IF side = "him" THEN p.him ELSE p.us
PeerType ==
    [up : BOOLEAN, him : [AnyOption -> OptionState], us : [AnyOption -> OptionState],
     want : Seq(Printable), screen : Seq(Glyph)]

\* All that is on its way to the device has arrived in y, and p is the peer.
Ends(y, p) ==
    /\ y.tel.state = "DATA" /\ Lined(y.term, p.want)
    /\ \A side \in Side, o \in AnyOption :
            Fits(side, o, Of(y.tel, side, o), View(p, side)[o], y.owed)

\* What is foreseen from the device's memory t, the terminal s, the bytes w
\* that are on their way to them and the tokens q on their way to the peer p.
Foreseen(t, s, w, q, p) ==
    \E x, y : /\ x.tel = t /\ x.term = s /\ Sees(x, w, y)
              /\ p.up => x.owed = Answers(q) /\ Ends(y, p)

TelInv ==
    /\ toHost \in Seq(Byte) /\ toPeer \in Seq(Token) /\ Once(toPeer)
    /\ peer \in PeerType /\ at \in {"accept", "session"} /\ clean \in BOOLEAN
    /\ at = "session" => term.state # "DONE"
    /\ Foreseen(tel, term, toHost, toPeer, peer)

\* When the echo was agreed on, what is on its way to the peer makes its
\* screen show the line.
ScreenInv ==
    clean /\ at = "session" /\ peer.up => Draws(peer.screen, toPeer, term.line)

LEMMA ForeseenTyped ==
    ASSUME NEW t, NEW s, NEW w \in Seq(Byte), NEW q, NEW p, Foreseen(t, s, w, q, p)
    PROVE  t \in Memory /\ s \in Terminal
<1>1. PICK x, y : x.tel = t /\ x.term = s /\ Sees(x, w, y)
    BY DEF Foreseen
<1>2. x \in Glimpse
    BY <1>1, SeesTyped
<1> QED
    BY <1>1, <1>2, GlimpseParts

\* Nothing is on its way, and the terminal has not left.
LEMMA Settled ==
    ASSUME NEW t, NEW s, NEW p, p.up, Foreseen(t, s, <<>>, <<>>, p), s.state # "DONE"
    PROVE  /\ s.line = p.want
           /\ \A side \in Side, o \in AnyOption :
                \/ View(p, side)[o] = "NO" /\ Of(t, side, o) \in {"NO", "UNKNOWN"}
                \/ View(p, side)[o] = "YES" /\ Of(t, side, o) = "YES"
<1>1. PICK x, y : /\ x.tel = t /\ x.term = s /\ Sees(x, <<>>, y)
                  /\ x.owed = Answers(<<>>) /\ Ends(y, p)
    BY DEF Foreseen
<1>2. x = y
    BY <1>1, SeesEmpty
<1>3. Answers(<<>>) = {}
    BY AddsNothing
<1>4. s.line = p.want
    BY <1>1, <1>2 DEF Ends, Lined
<1>5. ASSUME NEW side \in Side, NEW o \in AnyOption
      PROVE  \/ View(p, side)[o] = "NO" /\ Of(t, side, o) \in {"NO", "UNKNOWN"}
             \/ View(p, side)[o] = "YES" /\ Of(t, side, o) = "YES"
    <2>1. Fits(side, o, Of(t, side, o), View(p, side)[o], {})
        BY <1>1, <1>2, <1>3 DEF Ends
    <2> QED BY <2>1 DEF Fits
<1> QED
    BY <1>4, <1>5

\* The peer has typed.
LEMMA ForeseenTypes ==
    ASSUME NEW t, NEW s, NEW w \in Seq(Byte), NEW q, NEW p \in PeerType, p.up,
           Foreseen(t, s, w, q, p), NEW key \in Keys
    PROVE  LET v == [p EXCEPT !.want = Typed(@, key[1])]
           IN  v \in PeerType /\ w \o key[2] \in Seq(Byte) /\ Foreseen(t, s, w \o key[2], q, v)
<1> DEFINE v == [p EXCEPT !.want = Typed(@, key[1])]
<1>1. PICK x, y : x.tel = t /\ x.term = s /\ Sees(x, w, y) /\ x.owed = Answers(q) /\ Ends(y, p)
    BY DEF Foreseen
<1>2. p.want \in Seq(Printable) /\ Typed(p.want, key[1]) \in Seq(Printable)
    BY TypedKeeps DEF PeerType
<1>3. v \in PeerType /\ v.up = p.up /\ v.want = Typed(p.want, key[1]) /\ v.him = p.him /\ v.us = p.us
    BY <1>2 DEF PeerType
<1>4. y \in Glimpse /\ y.tel.state = "DATA" /\ Lined(y.term, p.want)
    BY <1>1, SeesTyped DEF Ends
<1>5. PICK u : Heeds(y, key[2], u) /\ Lined(u, Typed(p.want, key[1]))
    BY <1>2, <1>4, KeySeen
<1> DEFINE z == Glimpsed(y.tel, u, y.owed)
<1>6. key[2] \in Seq(Byte) /\ u \in Terminal /\ Sees(y, key[2], z)
    BY <1>5 DEF Heeds
<1>7. z.tel = y.tel /\ z.term = u /\ z.owed = y.owed
    BY <1>4, <1>6, GlimpseParts, GlimpsedIs
<1> HIDE DEF v, z
<1>8. Sees(x, w \o key[2], z) /\ w \o key[2] \in Seq(Byte)
    BY <1>1, <1>6, SeesBoth, ConcatProperties
<1>9. \A side : View(v, side) = View(p, side)
    BY <1>3 DEF View
<1>10. Ends(z, v)
    BY <1>1, <1>3, <1>4, <1>5, <1>7, <1>9 DEF Ends
<1>11. Foreseen(t, s, w \o key[2], q, v)
    BY <1>1, <1>8, <1>10 DEF Foreseen
<1> QED
    BY <1>3, <1>8, <1>11 DEF v

\* The peer's view of one option.
Turned(p, side, o, q) == [p EXCEPT ![side][o] = q]

LEMMA ViewIs ==
    ASSUME NEW p \in PeerType, NEW side \in Side, NEW o \in AnyOption, NEW q \in OptionState
    PROVE  /\ Turned(p, side, o, q) \in PeerType /\ Turned(p, side, o, q).up = p.up
           /\ Turned(p, side, o, q).want = p.want /\ Turned(p, side, o, q).screen = p.screen
           /\ View(Turned(p, side, o, q), side)[o] = q
           /\ \A s2 \in Side, o2 \in AnyOption : s2 # side \/ o2 # o =>
                View(Turned(p, side, o, q), s2)[o2] = View(p, s2)[o2]
<1>1. CASE side = "him"
    BY <1>1 DEF PeerType, View, Side, Turned
<1>2. CASE side = "us"
    BY <1>2 DEF PeerType, View, Side, Turned
<1> QED
    BY <1>1, <1>2 DEF Side

LEMMA ViewOf ==
    ASSUME NEW p \in PeerType, NEW side \in Side, NEW o \in AnyOption
    PROVE  p[side][o] = View(p, side)[o] /\ p[side][o] \in OptionState
BY DEF PeerType, View, Side

\* One option has changed, at both ends.
LEMMA EndsChanged ==
    ASSUME NEW y, NEW z, NEW p \in PeerType, NEW side \in Side, NEW o \in AnyOption,
           NEW q \in OptionState, Ends(y, p), Changes(side, o, y, z),
           Fits(side, o, Of(z.tel, side, o), q, z.owed)
    PROVE  Ends(z, Turned(p, side, o, q))
<1> DEFINE v == Turned(p, side, o, q)
<1>1. /\ v.want = p.want /\ View(v, side)[o] = q
      /\ \A s2 \in Side, o2 \in AnyOption : s2 # side \/ o2 # o => View(v, s2)[o2] = View(p, s2)[o2]
    BY ViewIs
<1> HIDE DEF v
<1>2. z.tel.state = "DATA" /\ Lined(z.term, v.want)
    BY <1>1 DEF Changes, Leaves, Ends
<1>3. ASSUME NEW s2 \in Side, NEW o2 \in AnyOption
      PROVE  Fits(s2, o2, Of(z.tel, s2, o2), View(v, s2)[o2], z.owed)
    <2>1. CASE s2 = side /\ o2 = o
        BY <1>1, <2>1
    <2>2. CASE s2 # side \/ o2 # o
        <3>1. /\ Of(z.tel, s2, o2) = Of(y.tel, s2, o2) /\ View(v, s2)[o2] = View(p, s2)[o2]
              /\ Saying(s2, o2) \cap z.owed = Saying(s2, o2) \cap y.owed
            BY <1>1, <2>2 DEF Changes, Leaves
        <3>2. Fits(s2, o2, Of(y.tel, s2, o2), View(p, s2)[o2], y.owed)
            BY DEF Ends
        <3> QED BY <3>1, <3>2 DEF Fits
    <2> QED BY <2>1, <2>2
<1>4. Ends(z, v)
    BY <1>2, <1>3 DEF Ends
<1> QED
    BY <1>4 DEF v

LEMMA SentBytes ==
    ASSUME NEW side \in Side, NEW o \in AnyOption, NEW c \in {On(side), Off(side)}
    PROVE  Sent(c, o) \in Seq(Byte)
<1>1. "IAC" \in Byte /\ c \in Byte /\ o \in Byte
    BY BytesAre, CommandsAre
<1> QED
    BY <1>1, ShortBytes DEF Sent

\* The peer has asked for a change.
LEMMA ForeseenAsks ==
    ASSUME NEW t, NEW s, NEW w \in Seq(Byte), NEW q, NEW p \in PeerType, p.up,
           Foreseen(t, s, w, q, p), NEW side \in Side, NEW o \in AnyOption,
           p[side][o] \in {"NO", "YES"}
    PROVE  LET v == Turned(p, side, o, IF p[side][o] = "NO" THEN "WANT_YES" ELSE "WANT_NO")
               c == IF p[side][o] = "NO" THEN On(side) ELSE Off(side)
           IN  /\ v \in PeerType /\ w \o Sent(c, o) \in Seq(Byte)
               /\ Foreseen(t, s, w \o Sent(c, o), q, v)
<1> DEFINE old == p[side][o]
           new == IF old = "NO" THEN "WANT_YES" ELSE "WANT_NO"
           v == Turned(p, side, o, new)
           c == IF old = "NO" THEN On(side) ELSE Off(side)
<1>1. PICK x, y : x.tel = t /\ x.term = s /\ Sees(x, w, y) /\ x.owed = Answers(q) /\ Ends(y, p)
    BY DEF Foreseen
<1>2. new \in OptionState /\ old \in {"NO", "YES"} /\ c \in {On(side), Off(side)}
    BY DEF OptionState
<1>3. old = View(p, side)[o]
    BY ViewOf
<1> HIDE DEF old
<1>4. v \in PeerType /\ v.up = p.up
    <2> HIDE DEF new
    <2> QED BY <1>2, ViewIs
<1>5. y \in Glimpse /\ y.tel.state = "DATA" /\ Fits(side, o, Of(y.tel, side, o), old, y.owed)
    BY <1>1, <1>3, SeesTyped DEF Ends
<1>6. PICK z : /\ Sees(y, Sent(c, o), z) /\ Changes(side, o, y, z)
               /\ Fits(side, o, Of(z.tel, side, o), new, z.owed)
    BY <1>2, <1>5, FitsAsks
<1> HIDE DEF new, c
<1>7. Sent(c, o) \in Seq(Byte)
    BY <1>2, SentBytes
<1>8. Ends(z, v)
    BY <1>1, <1>2, <1>6, EndsChanged
<1> HIDE DEF v
<1>9. w \o Sent(c, o) \in Seq(Byte) /\ Sees(x, w \o Sent(c, o), z)
    BY <1>1, <1>6, <1>7, SeesBoth, ConcatProperties
<1>10. Foreseen(t, s, w \o Sent(c, o), q, v)
    BY <1>1, <1>8, <1>9 DEF Foreseen
<1> QED
    BY <1>4, <1>9, <1>10 DEF v, c, new, old

\* The peer has received an answer, and has answered to it.
LEMMA ForeseenGets ==
    ASSUME NEW t, NEW s, NEW w \in Seq(Byte), NEW q \in Seq(Token), q # <<>>, Once(q),
           NEW p \in PeerType, p.up, Foreseen(t, s, w, q, p),
           NEW side \in Side, NEW o \in AnyOption, NEW c \in {Yes(side), No(side)},
           Head(q) = <<c, o>>,
           NEW r \in Turns(p[side][o], c, side),
           NEW w2, w2 = IF r[2] = <<>> THEN w ELSE w \o Sent(r[2][1], o)
    PROVE  /\ Turned(p, side, o, r[1]) \in PeerType /\ w2 \in Seq(Byte)
           /\ Foreseen(t, s, w2, Tail(q), Turned(p, side, o, r[1]))
<1> DEFINE k == <<c, o>>
           old == p[side][o]
           u == SentBy(r, o)
<1>1. PICK x, y : x.tel = t /\ x.term = s /\ Sees(x, w, y) /\ x.owed = Answers(q) /\ Ends(y, p)
    BY DEF Foreseen
<1>2. old = View(p, side)[o]
    BY ViewOf
<1> HIDE DEF old
<1>3. k \in Answer
    BY CommandsAre
<1>4. k \in x.owed /\ Answers(Tail(q)) = x.owed \ {k}
    BY <1>1, <1>3, HeadAnswers
<1> HIDE DEF k
<1>5. x \in Glimpse /\ y \in Glimpse
    BY <1>1, SeesTyped
<1>6. k \in y.owed
    <2>1. PICK G : Foresees(G, x, w) /\ G[Len(w)] = y
        BY <1>1 DEF Sees
    <2>2. Len(w) \in 0 .. Len(w)
        BY LenProperties
    <2>3. k \in G[Len(w)].owed
        BY <1>4, <2>1, <2>2, OwedStays
    <2> QED BY <2>1, <2>3
<1>7. y.tel.state = "DATA" /\ Fits(side, o, Of(y.tel, side, o), old, y.owed)
    BY <1>1, <1>2 DEF Ends
<1>8. ComesOf(y, c, r, side, o)
    <2>1. r \in Turns(old, c, side)
        BY DEF old
    <2>2. <<c, o>> \in y.owed
        BY <1>6 DEF k
    <2> QED BY <1>5, <1>7, <2>1, <2>2, FitsGets
<1>9. PICK z : /\ Sees(Without(y, k), u, z) /\ Changes(side, o, y, z)
               /\ Fits(side, o, Of(z.tel, side, o), r[1], z.owed)
    BY <1>8 DEF ComesOf, k
<1>10. r[1] \in OptionState
    BY <1>8 DEF OptionState, ComesOf
<1>11. u \in Seq(Byte)
    <2>1. CASE r[2] = <<>>
        BY <2>1, EmptySeq DEF SentBy
    <2>2. CASE r[2] # <<>>
        <3>1. r[2] = <<On(side)>> \/ r[2] = <<Off(side)>>
            BY <1>8, <2>2 DEF ComesOf
        <3>2. r[2][1] \in {On(side), Off(side)}
            BY <3>1
        <3> QED BY <2>2, <3>2, SentBytes DEF SentBy
    <2> QED BY <2>1, <2>2
<1>12. w2 = w \o u
    <2>1. CASE r[2] = <<>>
        <3>1. w \o <<>> = w
            BY ConcatEmptySeq
        <3> QED BY <2>1, <3>1 DEF SentBy
    <2>2. CASE r[2] # <<>>
        BY <2>2 DEF SentBy
    <2> QED BY <2>1, <2>2
<1> HIDE DEF u
<1>13. Sees(Without(x, k), w, Without(y, k))
    BY <1>1, <1>4, SeesWithout
<1>14. Sees(Without(x, k), w2, z) /\ w2 \in Seq(Byte)
    BY <1>9, <1>11, <1>12, <1>13, SeesBoth, ConcatProperties
<1>15. /\ Without(x, k).tel = t /\ Without(x, k).term = s
       /\ Without(x, k).owed = Answers(Tail(q))
    BY <1>1, <1>4, <1>5, WithoutIs
<1>16. Ends(z, Turned(p, side, o, r[1]))
    BY <1>1, <1>9, <1>10, EndsChanged
<1>17. Foreseen(t, s, w2, Tail(q), Turned(p, side, o, r[1]))
    BY <1>14, <1>15, <1>16 DEF Foreseen
<1>18. Turned(p, side, o, r[1]) \in PeerType
    BY <1>10, ViewIs
<1> QED
    BY <1>14, <1>17, <1>18

\* Its answer is one of these.
LEMMA AnswerToIs ==
    ASSUME NEW c \in Negotiation, NEW o \in AnyOption, AnswerTo(c, o)
    PROVE  \E side \in Side :
            /\ c \in {Yes(side), No(side)}
            /\ \E r \in Turns(peer[side][o], c, side) :
                /\ peer' = Turned(peer, side, o, r[1])
                /\ toHost' = IF r[2] = <<>> THEN toHost ELSE toHost \o Sent(r[2][1], o)
<1>1. CASE c \in {"WILL", "WONT"}
    <2>1. PICK r \in Negotiated(peer["him"][o], c \in {"WILL", "DO"}, "DO", "DONT") :
            /\ peer' = [peer EXCEPT !["him"][o] = r[1]]
            /\ toHost' = IF r[2] = <<>> THEN toHost ELSE toHost \o Sent(r[2][1], o)
        BY <1>1 DEF AnswerTo
    <2>2. c \in {"WILL", "DO"} <=> c = Yes("him")
        BY <1>1 DEF Yes
    <2>3. r \in Negotiated(peer["him"][o], c = Yes("him"), "DO", "DONT")
        BY <2>2 DEF Negotiated
    <2>4. "him" \in Side /\ On("him") = "DO" /\ Off("him") = "DONT" /\ c \in {Yes("him"), No("him")}
        BY <1>1 DEF Side, On, Off, Yes, No
    <2> QED BY <2>1, <2>3, <2>4 DEF Turned, Turns
<1>2. CASE c \in {"DO", "DONT"}
    <2>1. PICK r \in Negotiated(peer["us"][o], c \in {"WILL", "DO"}, "WILL", "WONT") :
            /\ peer' = [peer EXCEPT !["us"][o] = r[1]]
            /\ toHost' = IF r[2] = <<>> THEN toHost ELSE toHost \o Sent(r[2][1], o)
        BY <1>2 DEF AnswerTo
    <2>2. c \in {"WILL", "DO"} <=> c = Yes("us")
        BY <1>2 DEF Yes
    <2>3. r \in Negotiated(peer["us"][o], c = Yes("us"), "WILL", "WONT")
        BY <2>2 DEF Negotiated
    <2>4. "us" \in Side /\ On("us") = "WILL" /\ Off("us") = "WONT" /\ c \in {Yes("us"), No("us")}
        BY <1>2 DEF Side, On, Off, Yes, No
    <2> QED BY <2>1, <2>3, <2>4 DEF Turned, Turns
<1> QED
    BY <1>1, <1>2 DEF Negotiation

\* The peer has received a token for its screen.
LEMMA ForeseenShown ==
    ASSUME NEW t, NEW s, NEW w \in Seq(Byte), NEW q \in Seq(Token), q # <<>>, Once(q),
           NEW p \in PeerType, p.up, Foreseen(t, s, w, q, p), Head(q) \in OnScreen
    PROVE  LET v == [p EXCEPT !.screen = Shown(@, Head(q)[1])]
           IN  v \in PeerType /\ Foreseen(t, s, w, Tail(q), v)
<1> DEFINE v == [p EXCEPT !.screen = Shown(@, Head(q)[1])]
<1>1. PICK x, y : x.tel = t /\ x.term = s /\ Sees(x, w, y) /\ x.owed = Answers(q) /\ Ends(y, p)
    BY DEF Foreseen
<1>2. Head(q)[1] \in Painted /\ Head(q) \notin Answer
    BY TokenKinds
<1>3. Shown(p.screen, Head(q)[1]) \in Seq(Glyph)
    BY <1>2, ShownKeeps DEF PeerType
<1>4. v \in PeerType /\ v.up = p.up /\ v.want = p.want /\ v.him = p.him /\ v.us = p.us
    BY <1>3 DEF PeerType
<1> HIDE DEF v
<1>5. Answers(Tail(q)) = x.owed
    BY <1>1, <1>2, HeadAnswers DEF Answers
<1>6. \A side : View(v, side) = View(p, side)
    BY <1>4 DEF View
<1>7. Ends(y, v)
    BY <1>1, <1>4, <1>6 DEF Ends
<1>8. Foreseen(t, s, w, Tail(q), v)
    BY <1>1, <1>5, <1>7 DEF Foreseen
<1> QED
    BY <1>4, <1>8 DEF v

\* n bytes have been read, and what is left of them handled by the terminal.
ReadsTo(t, s, w, q, p, n, m, d, v) ==
    /\ m = telnet_read(t, SubSeq(w, 1, n))
    /\ d = term_parse_buf(Screen(s, <<>>), m.data, m.tel)
    /\ v = IF p.up THEN q \o m.out \o d.out ELSE q
ScreenGoesOn(s, q, p, m, d, v) ==
    telnet_echo_enabled(m.tel) /\ p.up =>
        \A g : Draws(g, q, s.line) => Draws(g, v, d.term.line)

LEMMA ForeseenReads ==
    ASSUME NEW t, NEW s, NEW w \in Seq(Byte), NEW q \in Seq(Token), Once(q),
           NEW p, Foreseen(t, s, w, q, p), NEW n \in 0 .. Len(w),
           NEW m, NEW d, NEW v, ReadsTo(t, s, w, q, p, n, m, d, v)
    PROVE  /\ v \in Seq(Token) /\ Once(v)
           /\ SubSeq(w, n + 1, Len(w)) \in Seq(Byte)
           /\ Foreseen(m.tel, d.term, SubSeq(w, n + 1, Len(w)), v, p)
           /\ ScreenGoesOn(s, q, p, m, d, v)
<1>0. /\ m = telnet_read(t, SubSeq(w, 1, n))
      /\ d = term_parse_buf(Screen(s, <<>>), m.data, m.tel)
      /\ v = IF p.up THEN q \o m.out \o d.out ELSE q
    BY DEF ReadsTo
<1>1. PICK x, y : /\ x.tel = t /\ x.term = s /\ Sees(x, w, y)
                  /\ p.up => x.owed = Answers(q) /\ Ends(y, p)
    BY DEF Foreseen
<1>2. PICK G : Foresees(G, x, w) /\ G[Len(w)] = y
    BY <1>1 DEF Sees
<1> DEFINE z == G[n]
           rest == SubSeq(w, n + 1, Len(w))
<1>3. ReadSoFar(x, m, z)
    BY <1>0, <1>1, <1>2, ReadAll
<1>4. rest \in Seq(Byte) /\ Sees(z, rest, y)
    BY <1>2, SeesFrom
<1> HIDE DEF z, rest
<1>5. x \in Glimpse /\ s \in Terminal
    BY <1>1, SeesTyped, GlimpseParts
<1>6. /\ m \in Parsing /\ m.tel = z.tel /\ m.out \in Seq(Answer) /\ m.data \in Seq(Byte)
      /\ Adds(x.owed, m.out, z.owed) /\ KeysTo(s, m.data, z.term)
    BY <1>1, <1>3 DEF ReadSoFar, Parsing
<1>7. ParsedSoFar(s, d, z.term, m.tel)
    <2>1. ParsedSoFar(s, term_parse_buf(Screen(s, <<>>), m.data, m.tel), z.term, m.tel)
        BY <1>5, <1>6, ParseAll
    <2> QED BY <1>0, <2>1
<1>8. d.term = z.term /\ d.out \in Seq(OnScreen)
    BY <1>7 DEF ParsedSoFar, Painting
<1>9. m.out \in Seq(Token) /\ d.out \in Seq(Token)
    BY <1>6, <1>8, OnScreenTokens
<1>10. q \o m.out \in Seq(Token) /\ (q \o m.out) \o d.out \in Seq(Token)
    BY <1>9, ConcatProperties
<1>11. Answers(d.out) = {} /\ Once(d.out)
    BY <1>8, ScreenAnswers
<1>12. ASSUME p.up
       PROVE  Once(v) /\ Answers(v) = z.owed
    <2>1. x.owed = Answers(q) /\ v = (q \o m.out) \o d.out
        BY <1>0, <1>1, <1>12
    <2>2. Once(m.out) /\ Answers(q) \cap Answers(m.out) = {} /\ z.owed = Answers(q) \cup Answers(m.out)
        BY <1>6, <2>1 DEF Adds
    <2>3. Once(q \o m.out) /\ Answers(q \o m.out) = z.owed
        BY <1>9, <2>2, ConcatAnswers
    <2>4. Once((q \o m.out) \o d.out) /\ Answers((q \o m.out) \o d.out) = z.owed
        <3> DEFINE a == q \o m.out
                   b == d.out
        <3>1. a \in Seq(Token) /\ b \in Seq(Token) /\ Once(a) /\ Answers(a) = z.owed
            BY <1>9, <1>10, <2>3
        <3>2. Once(b) /\ Answers(b) = {}
            BY <1>11
        <3> SUFFICES Once(a \o b) /\ Answers(a \o b) = z.owed
            OBVIOUS
        <3> HIDE DEF a, b
        <3>3. Answers(a) \cap Answers(b) = {} /\ z.owed \cup {} = z.owed
            BY <3>2
        <3> QED BY <3>1, <3>2, <3>3, ConcatAnswers
    <2> QED BY <2>1, <2>4
<1>13. v \in Seq(Token) /\ Once(v)
    BY <1>0, <1>10, <1>12
<1>14. Foreseen(m.tel, d.term, rest, v, p)
    BY <1>1, <1>4, <1>6, <1>8, <1>12 DEF Foreseen
<1>15. ASSUME telnet_echo_enabled(m.tel), NEW g, p.up, Draws(g, q, s.line)
       PROVE  Draws(g, v, d.term.line)
    <2>1. v = (q \o m.out) \o d.out
        BY <1>0, <1>15
    <2>2. s.line \in Seq(Glyph)
        BY <1>5, LinesShow DEF Terminal
    <2>3. Draws(s.line, m.out, s.line)
        BY <1>6, <2>2, DrawAnswers
    <2>4. Draws(g, q \o m.out, s.line)
        BY <1>9, <1>15, <2>3, DrawBoth
    <2>5. Draws(s.line, d.out, d.term.line)
        BY <1>7, <1>8, <1>15 DEF ParsedSoFar
    <2>6. Draws(g, (q \o m.out) \o d.out, d.term.line)
        BY <1>9, <1>10, <2>4, <2>5, DrawBoth
    <2> QED BY <2>1, <2>6
<1> QED
    BY <1>4, <1>13, <1>14, <1>15 DEF rest, ScreenGoesOn

\* The peer has hung up, and n bytes of what was on its way arrive.
LEMMA ForeseenHangsUp ==
    ASSUME NEW t, NEW s, NEW w \in Seq(Byte), NEW q, NEW p \in PeerType, Foreseen(t, s, w, q, p),
           NEW n \in 0 .. Len(w)
    PROVE  /\ [p EXCEPT !.up = FALSE] \in PeerType /\ SubSeq(w, 1, n) \in Seq(Byte)
           /\ Foreseen(t, s, SubSeq(w, 1, n), <<>>, [p EXCEPT !.up = FALSE])
<1> DEFINE v == [p EXCEPT !.up = FALSE]
<1>1. PICK x, y : x.tel = t /\ x.term = s /\ Sees(x, w, y)
    BY DEF Foreseen
<1>2. SubSeq(w, 1, n) \in Seq(Byte) /\ \E z : Sees(x, SubSeq(w, 1, n), z)
    BY <1>1, SeesUpTo
<1>3. v \in PeerType /\ ~v.up
    BY DEF PeerType
<1> HIDE DEF v
<1>4. Foreseen(t, s, SubSeq(w, 1, n), <<>>, v)
    BY <1>1, <1>2, <1>3 DEF Foreseen
<1> QED
    BY <1>2, <1>3, <1>4 DEF v

-----------------------------------------------------------------------------
(* The steps keep the invariant.                                           *)

Idle == [state |-> "NORMAL", line |-> <<>>]

LEMMA IdleIs == Idle \in Terminal /\ Idle.line = <<>> /\ Lined(Idle, <<>>)
<1>1. <<>> \in Seq(Printable) /\ Len(<<>>) = 0
    BY EmptySeq
<1>2. 0 <= LineMax - 1
    BY TelnetAssumption
<1> QED
    BY <1>1, <1>2 DEF Idle, Terminal, Lined

LEMMA ClearedIs ==
    /\ Cleared \in Memory /\ Cleared.state = "DATA"
    /\ \A side \in Side, o \in AnyOption : Of(Cleared, side, o) \in {"NO", "UNKNOWN"}
    /\ \A side \in {"local", "remote"}, o \in Option : get_option_state(Cleared, side, o) = "NO"
<1>1. Cleared \in Memory /\ Cleared.state = "DATA"
    BY DEF Cleared, Memory, OptionState, Negotiation
<1>2. \A o \in Option : Cleared.local[o] = "NO" /\ Cleared.remote[o] = "NO"
    BY DEF Cleared
<1>3. \A side \in {"local", "remote"}, o \in Option : get_option_state(Cleared, side, o) = "NO"
    BY <1>2 DEF get_option_state
<1>4. ASSUME NEW side \in Side, NEW o \in AnyOption PROVE Of(Cleared, side, o) \in {"NO", "UNKNOWN"}
    <2>1. CASE o \in Option
        BY <1>3, <2>1 DEF Of, Dev
    <2>2. CASE o \notin Option
        BY <2>2 DEF Of, get_option_state
    <2> QED BY <2>1, <2>2
<1> QED
    BY <1>1, <1>3, <1>4

LEMMA FreshIs ==
    /\ Fresh \in PeerType /\ Fresh.up /\ Fresh.want = <<>> /\ Fresh.screen = <<>>
    /\ \A side \in Side, o \in AnyOption : View(Fresh, side)[o] = "NO"
    /\ [Fresh EXCEPT !.up = FALSE] \in PeerType /\ ~[Fresh EXCEPT !.up = FALSE].up
    /\ [Fresh EXCEPT !.up = FALSE].want = <<>>
    /\ \A side \in Side, o \in AnyOption : View([Fresh EXCEPT !.up = FALSE], side)[o] = "NO"
<1>1. <<>> \in Seq(Printable) /\ <<>> \in Seq(Glyph)
    BY EmptySeq
<1>2. Fresh \in PeerType /\ [Fresh EXCEPT !.up = FALSE] \in PeerType
    BY <1>1 DEF Fresh, PeerType, OptionState
<1> QED
    BY <1>2 DEF Fresh, View

LEMMA InitInv == Init => TelInv /\ ScreenInv
<1> SUFFICES ASSUME Init PROVE TelInv /\ ScreenInv
    OBVIOUS
<1> DEFINE p == [Fresh EXCEPT !.up = FALSE]
           x == Glimpsed(Cleared, Idle, {})
<1>1. /\ tel = Cleared /\ term = Idle /\ at = "accept" /\ toHost = <<>> /\ toPeer = <<>>
      /\ peer = p /\ clean = FALSE
    BY DEF Init, Idle
<1>2. /\ p \in PeerType /\ ~p.up /\ p.want = <<>>
      /\ \A side \in Side, o \in AnyOption : View(p, side)[o] = "NO"
    BY FreshIs
<1> HIDE DEF p
<1>3. Cleared \in Memory /\ Idle \in Terminal /\ {} \in SUBSET Answer
    BY ClearedIs, IdleIs
<1>4. x \in Glimpse /\ x.tel = Cleared /\ x.term = Idle /\ x.owed = {}
    BY <1>3, GlimpsedIs
<1> HIDE DEF x
<1>5. Ends(x, p)
    <2>1. \A side \in Side, o \in AnyOption : Fits(side, o, Of(Cleared, side, o), "NO", {})
        BY ClearedIs DEF Fits
    <2> QED BY <1>2, <1>4, <2>1, ClearedIs, IdleIs DEF Ends
<1>6. Foreseen(tel, term, toHost, toPeer, peer)
    BY <1>1, <1>2, <1>4, <1>5, SeesNothing DEF Foreseen
<1>7. Once(<<>>) /\ <<>> \in Seq(Byte) /\ <<>> \in Seq(Token)
    BY AddsNothing, EmptySeq
<1> QED
    BY <1>1, <1>2, <1>6, <1>7 DEF TelInv, ScreenInv

\* A connection begins: the device has offered two options.
Offer(o) == <<"WILL", o>>

LEMMA ShortTokens ==
    \A a, b, c \in Token :
        /\ <<a>> \in Seq(Token) /\ <<a, b>> \in Seq(Token)
        /\ Append(<<>>, a) = <<a>> /\ Append(<<a>>, b) = <<a, b>> /\ Append(<<a, b>>, c) = <<a, b, c>>
<1> TAKE a, b, c \in Token
<1> QED
    BY ShortSeqs

LEMMA OpenIs ==
    ASSUME NEW t
    PROVE  /\ telnet_open(t).out = <<Offer("ECHO"), Offer("SGA")>>
           /\ telnet_open(t).tel \in Memory /\ telnet_open(t).tel.state = "DATA"
           /\ telnet_open(t).tel.local["ECHO"] = "WANT_YES"
           /\ \A side \in Side, o \in AnyOption :
                IF side = "him" /\ o \in Option THEN Of(telnet_open(t).tel, side, o) = "WANT_YES"
                ELSE Of(telnet_open(t).tel, side, o) \in {"NO", "UNKNOWN"}
<1> DEFINE a == Machine(Cleared, <<>>, <<>>)
           b == enable_option(a, "local", "ECHO")
           c == enable_option(b, "local", "SGA")
           t1 == set_option_state(Cleared, "local", "ECHO", "WANT_YES")
           t2 == set_option_state(t1, "local", "SGA", "WANT_YES")
           sa == Set(a, "local", "ECHO", "WANT_YES")
           sb == Set(b, "local", "SGA", "WANT_YES")
<1>1. a \in Parsing /\ a.tel = Cleared /\ a.out = <<>> /\ a.data = <<>>
    BY AloneParses, ClearedIs
<1>2. /\ "ECHO" \in AnyOption /\ "SGA" \in AnyOption /\ "ECHO" \in Option /\ "SGA" \in Option
      /\ "WANT_YES" \in OptionState /\ "WILL" \in Negotiation
    BY DEF AnyOption, Option, OptionState, Negotiation
<1>3. t1 \in Memory /\ t1.state = "DATA" /\ t2 \in Memory /\ t2.state = "DATA"
    BY <1>2, SetKeeps, ClearedIs
<1>4. /\ t1.local = [o \in Option |-> IF o = "ECHO" THEN "WANT_YES" ELSE "NO"]
      /\ t1.remote = [o \in Option |-> "NO"]
    BY DEF set_option_state, Cleared, Option
<1>5. t2.local = [o \in Option |-> "WANT_YES"] /\ t2.remote = [o \in Option |-> "NO"]
    BY <1>2, <1>3, <1>4 DEF set_option_state, Memory, Option
<1>6. /\ sa \in Parsing /\ sa.tel = t1 /\ sa.out = <<>> /\ sa.data = <<>>
    <2>1. /\ sa \in Parsing /\ sa.tel = set_option_state(a.tel, "local", "ECHO", "WANT_YES")
          /\ sa.out = a.out /\ sa.data = a.data
        <3> HIDE DEF a
        <3> QED BY <1>1, <1>2, SetIs
    <2> HIDE DEF a, sa
    <2> QED BY <1>1, <2>1
<1>7. b = Reply(sa, "WILL", "ECHO")
    <2>1. get_option_state(a.tel, "local", "ECHO") = "NO"
        <3> HIDE DEF a
        <3> QED BY <1>1, <1>2, ClearedIs
    <2> HIDE DEF a
    <2> QED BY <2>1 DEF enable_option
<1>8. b \in Parsing /\ b.tel = t1 /\ b.out = <<Offer("ECHO")>>
    <2> DEFINE r == Reply(sa, "WILL", "ECHO")
    <2>1. /\ r \in Parsing /\ r.tel = sa.tel /\ r.out = Append(sa.out, Offer("ECHO"))
        <3> HIDE DEF sa
        <3> QED BY <1>2, <1>6, ReplyIs DEF Offer
    <2> HIDE DEF r, sa, b, t1
    <2>2. Append(<<>>, Offer("ECHO")) = <<Offer("ECHO")>>
        BY AppendToEmpty
    <2>3. b = r
        BY <1>7 DEF r
    <2> QED BY <1>6, <2>1, <2>2, <2>3
<1> HIDE DEF a, b, sa
<1>9. /\ sb \in Parsing /\ sb.tel = t2 /\ sb.out = <<Offer("ECHO")>>
    <2>1. /\ sb \in Parsing /\ sb.tel = set_option_state(b.tel, "local", "SGA", "WANT_YES")
          /\ sb.out = b.out
        BY <1>2, <1>8, SetIs
    <2> HIDE DEF sb
    <2> QED BY <1>8, <2>1
<1>10. c = Reply(sb, "WILL", "SGA")
    <2>1. get_option_state(b.tel, "local", "SGA") = "NO"
        BY <1>2, <1>4, <1>8 DEF get_option_state
    <2> QED BY <2>1 DEF enable_option
<1> HIDE DEF t1, t2, sb
<1>11. c \in Parsing /\ c.tel = t2 /\ c.out = <<Offer("ECHO"), Offer("SGA")>>
    <2> DEFINE r == Reply(sb, "WILL", "SGA")
    <2>1. r \in Parsing /\ r.tel = sb.tel /\ r.out = Append(sb.out, Offer("SGA"))
        BY <1>2, <1>9, ReplyIs DEF Offer
    <2> HIDE DEF r, c
    <2>2. Append(<<Offer("ECHO")>>, Offer("SGA")) = <<Offer("ECHO"), Offer("SGA")>>
        <3>1. Offer("ECHO") \in Token /\ Offer("SGA") \in Token
            BY <1>2 DEF Offer, Answer, Token
        <3> QED BY <3>1, ShortTokens
    <2>3. c = r
        BY <1>10 DEF r
    <2> QED BY <1>9, <2>1, <2>2, <2>3
<1>12. telnet_open(t) = c
    BY DEF telnet_open, a, b
<1> HIDE DEF c
<1>13. c.tel.local["ECHO"] = "WANT_YES"
    BY <1>2, <1>5, <1>11
<1>14. ASSUME NEW side \in Side, NEW o \in AnyOption
       PROVE  IF side = "him" /\ o \in Option THEN Of(c.tel, side, o) = "WANT_YES"
              ELSE Of(c.tel, side, o) \in {"NO", "UNKNOWN"}
    <2>1. CASE o \in Option
        BY <1>5, <1>11, <2>1 DEF Of, Dev, get_option_state, Side
    <2>2. CASE o \notin Option
        BY <2>2 DEF Of, get_option_state
    <2> QED BY <2>1, <2>2
<1> QED
    BY <1>3, <1>11, <1>12, <1>13, <1>14

LEMMA OffersAre ==
    LET q == Append(<<Offer("ECHO"), Offer("SGA")>>, <<"prompt">>)
    IN  q \in Seq(Token) /\ Once(q) /\ Answers(q) = {Offer("ECHO"), Offer("SGA")}
<1> DEFINE e == Offer("ECHO")
           f == Offer("SGA")
           k == <<"prompt">>
<1>1. e \in Answer /\ f \in Answer /\ e # f
    BY DEF Offer, Answer, Negotiation, AnyOption, Option
<1>2. k \in OnScreen /\ k \notin Answer
    <2>1. k \in OnScreen
        BY DEF OnScreen, Painted
    <2> QED BY <2>1, TokenKinds
<1>3. e \in Token /\ f \in Token /\ k \in Token
    BY <1>1, <1>2 DEF Token
<1> HIDE DEF e, f, k
<1>4. /\ <<e>> \in Seq(Token) /\ <<e, f>> \in Seq(Token)
      /\ Append(<<>>, e) = <<e>> /\ Append(<<e>>, f) = <<e, f>> /\ <<>> \in Seq(Token)
    BY <1>3, ShortTokens, EmptySeq
<1>5. Once(<<>>) /\ Answers(<<>>) = {}
    BY AddsNothing
<1>6. Answers(<<e>>) = {e} /\ Once(<<e>>)
    <2>1. Answers(Append(<<>>, e)) = Answers(<<>>) \cup {e} /\ Once(Append(<<>>, e))
        BY <1>1, <1>3, <1>4, <1>5, AppendAnswer
    <2> QED BY <1>4, <1>5, <2>1
<1>7. Answers(<<e, f>>) = {e, f} /\ Once(<<e, f>>)
    <2> DEFINE s == <<e>>
    <2>1. s \in Seq(Token) /\ Answers(s) = {e} /\ Once(s) /\ Append(s, f) = <<e, f>>
        BY <1>4, <1>6
    <2> HIDE DEF s
    <2>2. Answers(Append(s, f)) = Answers(s) \cup {f} /\ Once(Append(s, f))
        BY <1>1, <1>3, <2>1, AppendAnswer
    <2> QED BY <2>1, <2>2
<1> DEFINE s == <<e, f>>
<1>8. s \in Seq(Token) /\ Answers(s) = {e, f} /\ Once(s)
    BY <1>4, <1>7
<1> HIDE DEF s
<1>9. Append(s, k) \in Seq(Token) /\ Answers(Append(s, k)) = {e, f} /\ Once(Append(s, k))
    <2>1. k \notin Answers(s)
        BY <1>2 DEF Answers
    <2> QED BY <1>2, <1>3, <1>8, <2>1, AppendAnswer, AppendProperties
<1> QED
    BY <1>9 DEF s, e, f, k

\* Both ends of a connection that has just begun.
LEMMA OpenEnds ==
    ASSUME NEW y \in Glimpse, NEW t, y.tel = telnet_open(t).tel, y.term = Idle,
           y.owed = {Offer("ECHO"), Offer("SGA")}
    PROVE  Ends(y, Fresh)
<1>1. ASSUME NEW side \in Side, NEW o \in AnyOption
      PROVE  \/ Of(y.tel, side, o) = "WANT_YES" /\ side = "him" /\ o \in Option
             \/ Of(y.tel, side, o) \in {"NO", "UNKNOWN"} /\ (side = "us" \/ o \notin Option)
    <2>1. IF side = "him" /\ o \in Option THEN Of(y.tel, side, o) = "WANT_YES"
          ELSE Of(y.tel, side, o) \in {"NO", "UNKNOWN"}
        BY OpenIs
    <2> QED BY <2>1 DEF Side
<1>2. ASSUME NEW side \in Side, NEW o \in AnyOption
      PROVE  Fits(side, o, Of(y.tel, side, o), "NO", y.owed)
    <2>1. CASE Of(y.tel, side, o) = "WANT_YES" /\ side = "him" /\ o \in Option
        <3>1. Saying(side, o) \cap y.owed = {<<Yes(side), o>>}
            <4>1. CASE o = "ECHO"
                BY <2>1, <4>1 DEF Saying, Yes, No, Offer
            <4>2. CASE o = "SGA"
                BY <2>1, <4>2 DEF Saying, Yes, No, Offer
            <4> QED BY <2>1, <4>1, <4>2 DEF Option
        <3>2. Grants(side, o)
            BY <2>1 DEF Grants, offered, Option
        <3> QED BY <2>1, <3>1, <3>2 DEF Fits
    <2>2. CASE Of(y.tel, side, o) \in {"NO", "UNKNOWN"} /\ (side = "us" \/ o \notin Option)
        <3>1. Saying(side, o) \cap y.owed = {}
            BY <2>2 DEF Saying, Yes, No, Offer, Option
        <3> QED BY <2>2, <3>1 DEF Fits
    <2> QED BY <1>1, <2>1, <2>2
<1>3. y.tel.state = "DATA" /\ Lined(y.term, Fresh.want)
    BY OpenIs, IdleIs, FreshIs
<1> QED
    BY <1>2, <1>3, FreshIs DEF Ends

LEMMA AcceptKeeps ==
    ASSUME TelInv, Accept, clean' \in BOOLEAN PROVE TelInv' /\ tel'.local["ECHO"] = "WANT_YES"
<1> DEFINE o == telnet_open(tel)
           x == Glimpsed(tel', term', {Offer("ECHO"), Offer("SGA")})
<1>1. /\ tel' = o.tel /\ toPeer' = Append(o.out, <<"prompt">>) /\ term' = Idle
      /\ at' = "session" /\ toHost' = <<>> /\ peer' = Fresh
    BY DEF Accept, Idle
<1>2. /\ o.out = <<Offer("ECHO"), Offer("SGA")>> /\ o.tel \in Memory
      /\ o.tel.local["ECHO"] = "WANT_YES"
    BY OpenIs
<1>3. toPeer' \in Seq(Token) /\ Once(toPeer') /\ Answers(toPeer') = {Offer("ECHO"), Offer("SGA")}
    BY <1>1, <1>2, OffersAre
<1>4. {Offer("ECHO"), Offer("SGA")} \in SUBSET Answer
    BY DEF Offer, Answer, Negotiation, AnyOption, Option
<1>5. tel' \in Memory /\ term' \in Terminal
    BY <1>1, <1>2, IdleIs
<1>6. x \in Glimpse /\ x.tel = tel' /\ x.term = term' /\ x.owed = {Offer("ECHO"), Offer("SGA")}
    BY <1>4, <1>5, GlimpsedIs
<1> HIDE DEF x
<1>7. x.tel = telnet_open(tel).tel
    BY <1>1, <1>6
<1> HIDE DEF o
<1>8. Ends(x, Fresh)
    BY <1>1, <1>6, <1>7, OpenEnds
<1>9. Sees(x, <<>>, x)
    BY <1>6, SeesNothing
<1>10. Foreseen(tel', term', toHost', toPeer', peer')
    BY <1>1, <1>3, <1>6, <1>8, <1>9 DEF Foreseen
<1>11. Fresh \in PeerType /\ <<>> \in Seq(Byte) /\ term'.state # "DONE"
    BY <1>1, FreshIs, EmptySeq DEF Idle
<1>12. toHost' \in Seq(Byte) /\ peer' \in PeerType /\ at' \in {"accept", "session"}
    BY <1>1, <1>11
<1>13. TelInv'
    BY <1>3, <1>10, <1>11, <1>12 DEF TelInv
<1> QED
    BY <1>1, <1>2, <1>13

\* A read; the screen is followed while the echo is on.
LEMMA SessionKeeps ==
    ASSUME TelInv, term_session, clean' \in BOOLEAN
    PROVE  /\ TelInv'
           /\ peer' = peer
           /\ tel'.local["ECHO"] = "YES" /\ peer.up /\ Draws(peer.screen, toPeer, term.line)
                => Draws(peer.screen, toPeer', term'.line)
<1>1. PICK n \in 1 .. ReadChunk : n <= Len(toHost) /\ Read(n)
    BY DEF term_session
<1>2. /\ toHost \in Seq(Byte) /\ toPeer \in Seq(Token) /\ Once(toPeer) /\ peer \in PeerType
      /\ Foreseen(tel, term, toHost, toPeer, peer)
    BY DEF TelInv
<1>3. n \in 0 .. Len(toHost)
    BY <1>1, <1>2, LenProperties, TelnetAssumption
<1> DEFINE m == telnet_read(tel, SubSeq(toHost, 1, n))
           d == term_parse_buf(Screen(term, <<>>), m.data, m.tel)
           v == IF peer.up THEN toPeer \o m.out \o d.out ELSE toPeer
           w == SubSeq(toHost, n + 1, Len(toHost))
<1>4. /\ toHost' = w /\ tel' = m.tel /\ term' = d.term /\ toPeer' = v
      /\ at' = IF d.term.state = "DONE" THEN "accept" ELSE "session"
    BY <1>1 DEF Read
<1>5. peer' = peer
    BY DEF term_session
<1>6. ReadsTo(tel, term, toHost, toPeer, peer, n, m, d, v)
    BY DEF ReadsTo
<1> HIDE DEF m, d, v
<1>9. /\ v \in Seq(Token) /\ Once(v) /\ w \in Seq(Byte)
      /\ Foreseen(m.tel, d.term, w, v, peer)
      /\ ScreenGoesOn(term, toPeer, peer, m, d, v)
    BY <1>2, <1>3, <1>6, ForeseenReads
<1> HIDE DEF w
<1>10. TelInv'
    BY <1>2, <1>4, <1>5, <1>9 DEF TelInv
<1>11. ASSUME tel'.local["ECHO"] = "YES" PROVE telnet_echo_enabled(m.tel)
    BY <1>4, <1>11 DEF telnet_echo_enabled, option_enabled, get_option_state, Option
<1> QED
    BY <1>4, <1>5, <1>9, <1>10, <1>11 DEF ScreenGoesOn

LEMMA TypesKeeps ==
    ASSUME TelInv, PeerTypes, clean' \in BOOLEAN
    PROVE  TelInv' /\ peer'.screen = peer.screen /\ peer'.up = peer.up /\ UNCHANGED <<tel, term, at, toPeer>>
<1>1. peer.up /\ at = "session" /\ UNCHANGED <<tel, term, at, toPeer>>
    BY DEF PeerTypes
<1>2. PICK key \in Keys :
        /\ toHost' = toHost \o key[2] /\ peer' = [peer EXCEPT !.want = Typed(@, key[1])]
    BY DEF PeerTypes
<1>3. /\ toHost \in Seq(Byte) /\ toPeer \in Seq(Token) /\ Once(toPeer) /\ peer \in PeerType
      /\ Foreseen(tel, term, toHost, toPeer, peer)
    BY DEF TelInv
<1>4. peer' \in PeerType /\ toHost' \in Seq(Byte) /\ Foreseen(tel, term, toHost', toPeer, peer')
    BY <1>1, <1>2, <1>3, ForeseenTypes
<1>5. peer'.screen = peer.screen /\ peer'.up = peer.up
    BY <1>2, <1>3 DEF PeerType
<1>6. TelInv'
    BY <1>1, <1>3, <1>4 DEF TelInv
<1> QED
    BY <1>1, <1>5, <1>6

LEMMA AsksKeeps ==
    ASSUME TelInv, NEW side \in Side, NEW o \in AnyOption, PeerAsks(side, o), clean' \in BOOLEAN
    PROVE  TelInv' /\ peer'.screen = peer.screen /\ peer'.up = peer.up /\ UNCHANGED <<tel, term, at, toPeer>>
<1>1. peer.up /\ at = "session" /\ UNCHANGED <<tel, term, at, toPeer>>
    BY DEF PeerAsks
<1>2. /\ toHost \in Seq(Byte) /\ toPeer \in Seq(Token) /\ Once(toPeer) /\ peer \in PeerType
      /\ Foreseen(tel, term, toHost, toPeer, peer)
    BY DEF TelInv
<1> DEFINE v == IF peer[side][o] = "NO" THEN "WANT_YES" ELSE "WANT_NO"
           c == IF peer[side][o] = "NO" THEN On(side) ELSE Off(side)
<1>3. /\ peer[side][o] \in {"NO", "YES"}
      /\ peer' = Turned(peer, side, o, v) /\ toHost' = toHost \o Sent(c, o)
    BY DEF PeerAsks, Turned, On, Off
<1>4. v \in OptionState
    BY DEF OptionState
<1>5. /\ Turned(peer, side, o, v) \in PeerType /\ toHost \o Sent(c, o) \in Seq(Byte)
      /\ Foreseen(tel, term, toHost \o Sent(c, o), toPeer, Turned(peer, side, o, v))
    BY <1>1, <1>2, <1>3, ForeseenAsks
<1> HIDE DEF v, c
<1>6. peer'.screen = peer.screen /\ peer'.up = peer.up
    BY <1>2, <1>3, <1>4, ViewIs
<1>7. TelInv'
    BY <1>1, <1>2, <1>3, <1>5 DEF TelInv
<1> QED
    BY <1>1, <1>6, <1>7

LEMMA ReceivesKeeps ==
    ASSUME TelInv, PeerReceives, clean' \in BOOLEAN
    PROVE  /\ TelInv' /\ UNCHANGED <<tel, term, at>> /\ peer'.up = peer.up
           /\ \A l : Draws(peer.screen, toPeer, l) => Draws(peer'.screen, toPeer', l)
<1>1. /\ peer.up /\ toPeer # <<>> /\ toPeer' = Tail(toPeer) /\ UNCHANGED <<tel, term, at>>
    BY DEF PeerReceives
<1>2. /\ toHost \in Seq(Byte) /\ toPeer \in Seq(Token) /\ Once(toPeer) /\ peer \in PeerType
      /\ Foreseen(tel, term, toHost, toPeer, peer)
    BY DEF TelInv
<1> DEFINE k == Head(toPeer)
<1>3. k \in Token /\ Tail(toPeer) \in Seq(Token) /\ Once(Tail(toPeer))
    BY <1>1, <1>2, HeadTailProperties, HeadAnswers
<1>4. \A l : Draws(peer.screen, toPeer, l)
            => Draws(IF k \in Answer THEN peer.screen ELSE Shown(peer.screen, k[1]), Tail(toPeer), l)
    BY <1>1, <1>2, DrawHead
<1>5. CASE k \in OnScreen
    <2>1. Len(k) = 1 /\ k \notin Answer
        BY <1>5, TokenKinds
    <2>2. peer' = [peer EXCEPT !.screen = Shown(@, k[1])] /\ toHost' = toHost
        BY <2>1 DEF PeerReceives
    <2>3. peer' \in PeerType /\ Foreseen(tel, term, toHost, Tail(toPeer), peer')
        BY <1>1, <1>2, <1>5, <2>2, ForeseenShown
    <2>4. peer'.screen = Shown(peer.screen, k[1]) /\ peer'.up = peer.up
        BY <1>2, <2>2 DEF PeerType
    <2> HIDE DEF k
    <2>5. TelInv'
        BY <1>1, <1>2, <1>3, <2>2, <2>3 DEF TelInv
    <2> QED BY <1>1, <1>4, <2>1, <2>4, <2>5
<1>6. CASE k \in Answer
    <2>1. Len(k) = 2 /\ k[1] \in Negotiation /\ k[2] \in AnyOption /\ k = <<k[1], k[2]>>
        BY <1>6, TokenKinds
    <2>2. AnswerTo(k[1], k[2])
        <3>1. Len(Head(toPeer)) # 1
            BY <2>1
        <3> QED BY <3>1 DEF PeerReceives
    <2> DEFINE c == k[1]
               o == k[2]
    <2>3. Head(toPeer) = <<c, o>> /\ c \in Negotiation /\ o \in AnyOption /\ AnswerTo(c, o)
        BY <2>1, <2>2
    <2> HIDE DEF k, c, o
    <2>4. PICK side \in Side :
            /\ c \in {Yes(side), No(side)}
            /\ \E r \in Turns(peer[side][o], c, side) :
                /\ peer' = Turned(peer, side, o, r[1])
                /\ toHost' = IF r[2] = <<>> THEN toHost ELSE toHost \o Sent(r[2][1], o)
        BY <2>3, AnswerToIs
    <2>5. PICK r \in Turns(peer[side][o], c, side) :
            /\ peer' = Turned(peer, side, o, r[1])
            /\ toHost' = IF r[2] = <<>> THEN toHost ELSE toHost \o Sent(r[2][1], o)
        BY <2>4
    <2>6. /\ Turned(peer, side, o, r[1]) \in PeerType /\ toHost' \in Seq(Byte)
          /\ Foreseen(tel, term, toHost', Tail(toPeer), Turned(peer, side, o, r[1]))
        BY <1>1, <1>2, <2>3, <2>4, <2>5, ForeseenGets
    <2>7. peer'.screen = peer.screen /\ peer'.up = peer.up
        BY <1>2, <2>4, <2>5 DEF Turned, PeerType, Side
    <2>8. TelInv'
        BY <1>1, <1>2, <1>3, <2>5, <2>6 DEF TelInv
    <2> QED BY <1>1, <1>4, <1>6, <2>7, <2>8
<1> QED
    BY <1>3, <1>5, <1>6 DEF Token

LEMMA HangsUpKeeps ==
    ASSUME TelInv, PeerHangsUp, clean' \in BOOLEAN PROVE TelInv' /\ ~peer'.up
<1>1. PICK n \in 0 .. Len(toHost) : toHost' = SubSeq(toHost, 1, n)
    BY DEF PeerHangsUp
<1>2. /\ peer' = [peer EXCEPT !.up = FALSE] /\ toPeer' = <<>>
      /\ UNCHANGED <<tel, term, at>>
    BY DEF PeerHangsUp
<1>3. /\ toHost \in Seq(Byte) /\ peer \in PeerType /\ Foreseen(tel, term, toHost, toPeer, peer)
    BY DEF TelInv
<1>4. peer' \in PeerType /\ toHost' \in Seq(Byte) /\ Foreseen(tel, term, toHost', <<>>, peer')
    BY <1>1, <1>2, <1>3, ForeseenHangsUp
<1>5. Once(<<>>) /\ <<>> \in Seq(Token)
    BY AddsNothing, EmptySeq
<1>6. TelInv'
    BY <1>2, <1>3, <1>4, <1>5 DEF TelInv
<1>7. ~peer'.up
    BY <1>2, <1>3 DEF PeerType
<1> QED
    BY <1>6, <1>7

\* When the line on the screen and the line the user wants are both empty and
\* nothing is on its way, the screen follows the line.
LEMMA CleanStarts ==
    ASSUME TelInv', Quiet', peer'.want = <<>>, peer'.screen = <<>>
    PROVE  Draws(peer'.screen, toPeer', term'.line)
<1>1. toHost' = <<>> /\ toPeer' = <<>> /\ peer'.up /\ at' = "session"
    BY DEF Quiet
<1>2. Foreseen(tel', term', toHost', toPeer', peer')
    BY DEF TelInv
<1>3. Foreseen(tel', term', <<>>, <<>>, peer')
    BY <1>1, <1>2
<1>4. term'.line = <<>>
    <2>1. term'.state # "DONE"
        BY <1>1 DEF TelInv
    <2> QED BY <1>1, <1>3, <2>1, Settled
<1>5. <<>> \in Seq(Glyph)
    BY EmptySeq
<1> QED
    BY <1>1, <1>4, <1>5, DrawNone

LEMMA NextInv == TelInv /\ ScreenInv /\ [Next]_vars => TelInv' /\ ScreenInv'
<1> SUFFICES ASSUME TelInv, ScreenInv, [Next]_vars PROVE TelInv' /\ ScreenInv'
    OBVIOUS
<1>1. CASE UNCHANGED vars
    <2>1. TelInv'
        BY <1>1 DEF TelInv, vars
    <2>2. ScreenInv'
        BY <1>1 DEF ScreenInv, vars
    <2> QED BY <2>1, <2>2
<1>2. CASE Next
    <2>1. clean' = (EchoSettled' /\ (clean \/ (Quiet' /\ peer'.want = <<>> /\ peer'.screen = <<>>)))
        BY <1>2 DEF Next
    <2>2. clean' \in BOOLEAN
        BY <2>1
    <2> SUFFICES /\ TelInv'
                 /\ clean /\ EchoSettled' /\ at' = "session" /\ peer'.up
                      => Draws(peer'.screen, toPeer', term'.line)
        <3> SUFFICES ASSUME TelInv',
                            clean /\ EchoSettled' /\ at' = "session" /\ peer'.up
                                => Draws(peer'.screen, toPeer', term'.line),
                            clean', at' = "session", peer'.up
                     PROVE  Draws(peer'.screen, toPeer', term'.line)
            BY DEF ScreenInv
        <3>1. CASE clean
            BY <2>1, <3>1
        <3>2. CASE ~clean
            <4>1. Quiet' /\ peer'.want = <<>> /\ peer'.screen = <<>>
                BY <2>1, <3>2
            <4> QED BY <4>1, CleanStarts
        <3> QED BY <3>1, <3>2
    <2>3. CASE Accept
        <3>1. TelInv' /\ tel'.local["ECHO"] = "WANT_YES"
            BY <2>2, <2>3, AcceptKeeps
        <3>2. ~EchoSettled'
            BY <3>1 DEF EchoSettled
        <3> QED BY <3>1, <3>2
    <2>4. CASE term_session
        <3>1. /\ TelInv' /\ peer' = peer /\ at = "session"
              /\ tel'.local["ECHO"] = "YES" /\ peer.up /\ Draws(peer.screen, toPeer, term.line)
                    => Draws(peer.screen, toPeer', term'.line)
            BY <2>2, <2>4, SessionKeeps DEF term_session
        <3> QED BY <3>1 DEF EchoSettled, ScreenInv
    <2>5. CASE HungUp
        <3>1. at' = "accept" /\ UNCHANGED <<tel, term, toHost, toPeer, peer>>
            BY <2>5 DEF HungUp
        <3>2. TelInv'
            BY <2>2, <3>1 DEF TelInv
        <3> QED BY <3>1, <3>2
    <2>6. CASE PeerTypes
        <3>1. /\ TelInv' /\ peer'.screen = peer.screen /\ peer'.up = peer.up
              /\ UNCHANGED <<tel, term, at, toPeer>>
            BY <2>2, <2>6, TypesKeeps
        <3> QED BY <3>1 DEF ScreenInv
    <2>7. CASE PeerReceives
        <3>1. /\ TelInv' /\ UNCHANGED <<tel, term, at>> /\ peer'.up = peer.up
              /\ \A l : Draws(peer.screen, toPeer, l) => Draws(peer'.screen, toPeer', l)
            BY <2>2, <2>7, ReceivesKeeps
        <3> QED BY <3>1 DEF ScreenInv
    <2>8. CASE PeerHangsUp
        <3>1. TelInv' /\ ~peer'.up
            BY <2>2, <2>8, HangsUpKeeps
        <3> QED BY <3>1
    <2>9. CASE \E side \in {"him", "us"}, option \in AnyOption : PeerAsks(side, option)
        <3>1. PICK side \in Side, option \in AnyOption : PeerAsks(side, option)
            BY <2>9 DEF Side
        <3>2. /\ TelInv' /\ peer'.screen = peer.screen /\ peer'.up = peer.up
              /\ UNCHANGED <<tel, term, at, toPeer>>
            BY <2>2, <3>1, AsksKeeps
        <3> QED BY <3>2 DEF ScreenInv
    <2> QED BY <1>2, <2>3, <2>4, <2>5, <2>6, <2>7, <2>8, <2>9 DEF Next, Step
<1> QED
    BY <1>1, <1>2

LEMMA Invariant == Spec => [](TelInv /\ ScreenInv)
<1> QED
    BY InitInv, NextInv, PTL DEF Spec

-----------------------------------------------------------------------------
(* What a user relies on.                                                  *)

\* The device never leaves the states of its parser, a command is remembered
\* whenever an option is awaited, and a line leaves room for its terminator,
\* for reads of any length and any lengths of a line (process, process_option,
\* term_handle_normal, run_line).
THEOREM TypeCorrect == Spec => []TypeOK
<1>1. TelInv => TypeOK
    <2> SUFFICES ASSUME TelInv PROVE TypeOK
        OBVIOUS
    <2>1. tel \in Memory /\ term \in Terminal
        BY ForeseenTyped DEF TelInv
    <2>2. peer \in PeerType /\ at \in {"accept", "session"} /\ clean \in BOOLEAN
        BY DEF TelInv
    <2>3. {peer.up, clean} \subseteq BOOLEAN
        BY <2>2 DEF PeerType
    <2>4. peer.him \in [AnyOption -> OptionState] /\ peer.us \in [AnyOption -> OptionState]
        BY <2>2 DEF PeerType
    <2> QED BY <2>1, <2>2, <2>3, <2>4 DEF TypeOK, Memory, Terminal
<1> QED
    BY <1>1, Invariant, PTL

\* Both ends agree on every option once nothing is on its way, however requests
\* and answers crossed (process_option, enable_option, telnet_open).
THEOREM OptionsSettle == Spec => []OptionsAgree
<1>1. TelInv => OptionsAgree
    <2> SUFFICES ASSUME TelInv, Quiet PROVE OptionsAgree
        BY DEF OptionsAgree
    <2>1. tel \in Memory
        BY ForeseenTyped DEF TelInv
    <2>2. Foreseen(tel, term, <<>>, <<>>, peer) /\ peer.up /\ term.state # "DONE"
        BY DEF TelInv, Quiet
    <2>3. \A side \in Side, o \in AnyOption :
            \/ View(peer, side)[o] = "NO" /\ Of(tel, side, o) \in {"NO", "UNKNOWN"}
            \/ View(peer, side)[o] = "YES" /\ Of(tel, side, o) = "YES"
        BY <2>2, Settled
    <2>4. ASSUME NEW o \in AnyOption
          PROVE  /\ \/ peer.him[o] = "NO" /\ Of(tel, "him", o) \in {"NO", "UNKNOWN"}
                    \/ peer.him[o] = "YES" /\ Of(tel, "him", o) = "YES"
                 /\ \/ peer.us[o] = "NO" /\ Of(tel, "us", o) \in {"NO", "UNKNOWN"}
                    \/ peer.us[o] = "YES" /\ Of(tel, "us", o) = "YES"
        BY <2>3 DEF View, Side
    <2>5. ASSUME NEW o \in Option
          PROVE  /\ Of(tel, "him", o) = tel.local[o] /\ tel.local[o] \in OptionState
                 /\ Of(tel, "us", o) = tel.remote[o] /\ tel.remote[o] \in OptionState
        BY <2>1 DEF Of, Dev, get_option_state, Memory
    <2>6. \A o \in Option : tel.local[o] = peer.him[o] /\ tel.remote[o] = peer.us[o]
        BY <2>4, <2>5 DEF AnyOption, OptionState
    <2>7. \A o \in AnyOption : {peer.him[o], peer.us[o]} \subseteq {"NO", "YES"}
        BY <2>4
    <2> QED BY <2>6, <2>7 DEF OptionsAgree
<1> QED
    BY <1>1, Invariant, PTL

\* The line that will be run is the line that was typed, and the screen shows it
\* once the echo was agreed on, for every cut of the stream into reads
\* (process, term_handle_key, the erasures of term_handle_normal).
THEOREM LineIsTyped == Spec => []LineAsTyped
<1>1. TelInv /\ ScreenInv => LineAsTyped
    <2> SUFFICES ASSUME TelInv, ScreenInv, Quiet
                 PROVE  term.line = peer.want /\ (clean => peer.screen = peer.want)
        BY DEF LineAsTyped
    <2>1. Foreseen(tel, term, <<>>, <<>>, peer) /\ peer.up /\ term.state # "DONE"
        BY DEF TelInv, Quiet
    <2>2. term.line = peer.want
        BY <2>1, Settled
    <2>3. ASSUME clean PROVE peer.screen = term.line
        <3>1. Draws(peer.screen, <<>>, term.line)
            BY <2>3 DEF ScreenInv, Quiet
        <3> QED BY <3>1, DrawEmpty
    <2> QED BY <2>2, <2>3
<1> QED
    BY <1>1, Invariant, PTL
=============================================================================
