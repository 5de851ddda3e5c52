---------------------------- MODULE MessageParser ---------------------------
(***************************************************************************)
(* ParseFromArray of a generated message: MergePartialFromCodedStream, the *)
(* ReadMessage and ReadGroup of WireFormatLite it recurses through, and    *)
(* the skipping of fields the message does not know, which are saved.  The *)
(* message type has a submessage and a group of its own type, a scalar     *)
(* field, and an enum extension.  The encoded input is a sequence of       *)
(* tokens: a tag with its value or its length, an end-group tag, or a zero *)
(* byte; the tokens after a length are the contents.  The call stack is    *)
(* frames.                                                                 *)
(***************************************************************************)
EXTENDS Integers, Sequences, SequencesExt

CONSTANTS Sub, Grp, Scalar, Enum,  \* the fields of the message type
          Tokens,                  \* what an input is made of
          MaxTokens,               \* bound: its length
          RecursionLimit           \* recursion_limit_

ASSUME ParserAssumption ==
    /\ \A t \in Tokens : /\ t.k \in {"value", "len", "start", "end", "zero"}
                         /\ t.n \in Nat
    /\ {MaxTokens, RecursionLimit} \subseteq Nat

VARIABLES
    skipper,   \* the FieldSkipper: into an UnknownFieldSet, or the lite one
    input,     \* the encoded message
    pos,       \* the first token not read
    limit,     \* current_limit_: the token the innermost message ends before
    depth,     \* recursion_depth_
    frames,    \* the calls of MergePartialFromCodedStream and SkipMessage
    legit,     \* legitimate_message_end_
    saved,     \* what the skipper has saved, as it is written back
    parsed,    \* history: the positions of the tokens a field was set from
    result     \* of ParseFromArray

given == <<skipper, input>>
parserVars == <<given, pos, limit, depth, frames, legit, saved, parsed, result>>

EndTag(f) == [k |-> "end", f |-> f, n |-> 0]
None == [k |-> "none", f |-> 0, n |-> 0]

Top == [call |-> "message", f |-> 0, limit |-> 0]

ParserInit ==
    /\ skipper \in {"set", "coded"}
    /\ input \in BoundedSeq(Tokens, MaxTokens)
    /\ pos = 1 /\ limit = Len(input) + 1
    /\ depth = 0 /\ frames = <<Top>> /\ legit = FALSE
    /\ saved = << >> /\ parsed = {}
    /\ result = "none"

Running == result = "none"
Token == input[pos]
Reads(k) == Running /\ pos < limit /\ Token.k = k
Merging == Last(frames).call # "skip"

Reject == result' = "false" /\ UNCHANGED <<given, pos, limit, depth, frames, legit, saved, parsed>>

-----------------------------------------------------------------------------
(* A call on top of the others, within the recursion limit.                 *)
Call(call, end, set, save) ==
    IF depth + 1 > RecursionLimit THEN Reject
    ELSE /\ depth' = depth + 1 /\ pos' = pos + 1
         /\ frames' = Append(frames, [call |-> call, f |-> Token.f, limit |-> limit])
         /\ limit' = end /\ saved' = saved \o save
         /\ parsed' = IF set THEN parsed \cup {pos} ELSE parsed
         /\ UNCHANGED <<given, legit, result>>

(* PushLimit: the limits pushed before stay in force.                       *)
PushedLimit(n) == IF pos + 1 + n <= limit THEN pos + 1 + n ELSE limit

ReadMessage ==
    /\ Reads("len") /\ Merging /\ Token.f = Sub
    /\ Call("message", PushedLimit(Token.n), TRUE, << >>)

ReadGroup ==
    /\ Reads("start") /\ Merging /\ Token.f = Grp
    /\ Call("group", limit, TRUE, << >>)

(* Mutant: the fields of a group are saved, the tag that begins it is not. *)
SkipGroupUntagged ==
    /\ Reads("start") /\ ~(Merging /\ Token.f = Grp)
    /\ Call("skip", limit, FALSE, << >>)

(* SkipField of a group.                                                    *)
SkipGroup ==
    /\ Reads("start") /\ ~(Merging /\ Token.f = Grp)
    /\ Call("skip", limit, FALSE, <<Token>>)

(* Tokens that a field is set from, or that are saved.                      *)
Consume(n, set, save) ==
    /\ pos' = pos + n
    /\ parsed' = IF set THEN parsed \cup (pos .. pos + n - 1) ELSE parsed
    /\ saved' = saved \o save
    /\ UNCHANGED <<given, limit, depth, frames, legit, result>>

ReadPrimitive ==
    /\ Reads("value") /\ Merging /\ Token.f = Scalar
    /\ Consume(1, TRUE, << >>)

(* ExtensionSet::ParseField of an enum value that is not one: the skipper   *)
(* of UnknownFieldSets adds a varint field, the other writes the number of  *)
(* the field where its tag belongs.                                         *)
SkipUnknownEnum ==
    /\ Reads("value") /\ Merging /\ Token.f = Enum
    /\ Consume(1, FALSE, IF skipper = "set" THEN <<Token>> ELSE <<[Token EXCEPT !.k = "number"]>>)

SkipValue ==
    /\ Reads("value") /\ ~(Merging /\ Token.f \in {Scalar, Enum})
    /\ Consume(1, FALSE, <<Token>>)

SkipBytes ==
    /\ Reads("len") /\ ~(Merging /\ Token.f = Sub)
    /\ LET after == pos + 1 + Token.n
       IN  IF after > limit THEN Reject
           ELSE Consume(1 + Token.n, FALSE, SubSeq(input, pos, after - 1))

-----------------------------------------------------------------------------
(* Returning.                                                              *)

Pop(end, legitimate, save) ==
    /\ frames' = Front(frames) /\ depth' = depth - 1
    /\ limit' = end /\ legit' = legitimate /\ saved' = saved \o save
    /\ UNCHANGED <<given, result>>

(* Mutant: a group may end with any end-group tag. *)
EndedByAny(frame, tag, legitimate) ==
    IF frame.call = "message" THEN legitimate ELSE tag # None

(* The caller accepts a message that was consumed to its end, and a group   *)
(* whose own end tag was the last.                                          *)
EndedWell(frame, tag, legitimate) ==
    IF frame.call = "message" THEN legitimate ELSE tag = EndTag(frame.f)

(* A tag that is 0 or ends a group ends the innermost call.                 *)
Returns(tag, legitimate) ==
    LET frame == Last(frames) IN
    IF Len(frames) = 1 \/ ~EndedWell(frame, tag, legitimate)
    THEN /\ result' = IF Len(frames) = 1 /\ legitimate THEN "true" ELSE "false"
         /\ legit' = legitimate
         /\ UNCHANGED <<given, limit, depth, frames, saved>>
    ELSE Pop(frame.limit, frame.call # "message" /\ legitimate,
             IF frame.call = "skip" THEN <<tag>> ELSE << >>)

(* ReadTag at a limit, or at the end of the array.                          *)
EndOfMessage ==
    /\ Running /\ pos = limit
    /\ Returns(None, TRUE)
    /\ UNCHANGED <<pos, parsed>>

EndGroup ==
    /\ Reads("end") \/ Reads("zero")
    /\ pos' = pos + 1
    /\ Returns(IF Token.k = "end" THEN Token ELSE None, legit)
    /\ parsed' = IF Merging THEN parsed \cup {pos} ELSE parsed

ParserNext ==
    \/ ReadMessage \/ ReadGroup \/ ReadPrimitive
    \/ SkipGroup \/ SkipUnknownEnum \/ SkipValue \/ SkipBytes
    \/ EndOfMessage \/ EndGroup

ParserSpec == ParserInit /\ [][ParserNext]_parserVars

-----------------------------------------------------------------------------
(* What an encoded message is, independently of the parser: a sequence of   *)
(* fields.  A span of the tokens is one, at a recursion depth d, in a       *)
(* message (known) or in a group that is skipped; lim is the end of the     *)
(* message around, which may cut a submessage short.                        *)
Ends(in) == 1 .. (Len(in) + 1)
Spans(in) ==
    [from : Ends(in), to : Ends(in), d : 0 .. RecursionLimit, known : BOOLEAN, lim : Ends(in)]

Fields(in) ==
    LET all[x \in Spans(in)] ==
            \/ x.from = x.to
            \/ \E k \in (x.from + 1) .. x.to :
                  LET t == in[x.from]
                      sub == x.known /\ t.f = IF t.k = "len" THEN Sub ELSE Grp
                      Inner(to, known, lim) ==
                          [from |-> x.from + 1, to |-> to, d |-> x.d + 1, known |-> known, lim |-> lim]
                  IN  /\ all[[x EXCEPT !.from = k]]
                      /\ \/ t.k = "value" /\ k = x.from + 1
                         \/ t.k = "len" /\ ~sub /\ k = x.from + 1 + t.n
                         \/ /\ t.k = "len" /\ sub /\ x.d < RecursionLimit
                            /\ k = x.from + 1 + t.n \/ (k = x.lim /\ k < x.from + 1 + t.n)
                            /\ all[Inner(k, TRUE, k)]
                         \/ /\ t.k = "start" /\ x.d < RecursionLimit /\ k > x.from + 1
                            /\ in[k - 1] = EndTag(t.f)
                            /\ all[Inner(k - 1, sub, x.lim)]
    IN  all[[from |-> 1, to |-> Len(in) + 1, d |-> 0, known |-> TRUE, lim |-> Len(in) + 1]]

(* The limit in force is never behind the reader nor past the input, and    *)
(* the recursion depth is that of the call stack.                           *)
ParserTypeOK ==
    /\ pos \in 1 .. (Len(input) + 1) /\ limit \in pos .. (Len(input) + 1)
    /\ depth = Len(frames) - 1 /\ depth \in 0 .. RecursionLimit
    /\ skipper \in {"set", "coded"} /\ legit \in BOOLEAN /\ result \in {"none", "true", "false"}

(* The parser accepts exactly the sequences of fields, with submessages cut *)
(* by the message around them, and nothing nested too deep.                 *)
AcceptsExactly == ParserTypeOK /\ (~Running => (result = "true" <=> Fields(input)))

(* What was accepted and set no field was saved, in order and as it was     *)
(* read; only the tag of an enum value does not survive the lite skipper.   *)
Verbatim(s, t) ==
    s = t \/ (skipper = "coded" /\ t.k = "value" /\ t.f = Enum /\ s = [t EXCEPT !.k = "number"])

SavedVerbatim ==
    result = "true" =>
        \E at \in [1 .. Len(saved) -> 1 .. Len(input)] :
            /\ \A i, j \in 1 .. Len(saved) : i < j => at[i] < at[j]
            /\ {at[i] : i \in 1 .. Len(saved)} = (1 .. Len(input)) \ parsed
            /\ \A i \in 1 .. Len(saved) : Verbatim(saved[i], input[at[i]])
=============================================================================
