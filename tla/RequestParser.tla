---------------------------- MODULE RequestParser ----------------------------
(***************************************************************************)
(* What a running server reads in the body of an image request: the scan   *)
(* of a multipart form (parse_multipart_request), which looks for          *)
(* delimiters and blank lines as texts and may be given a form that was    *)
(* cut off, and the reading of a JSON object (parse_request) with its      *)
(* fall-back for a body that is no JSON.  Both start from the defaults the *)
(* command line left, and both keep all they know in one GenParams of      *)
(* their own, so one body is read at a time.                               *)
(*                                                                         *)
(* One field stands for those that are read alike: "prompt" and "model"    *)
(* for the texts, "lora_force" for the switches, "lora_rank" for the       *)
(* numbers of a form, "steps" for those that only an object has.           *)
(***************************************************************************)
EXTENDS ServerStart, FiniteSets

CONSTANTS
  Forms,    \* sequences of parts [names, data]
  Objects,  \* JSON objects: [subset of the field names -> token]
  Shows     \* the ratios that a text contains

\* A body is a sequence of tokens; all but a header line have two bytes.
Delimiter == <<"delimiter">>
CRLF == <<"CRLF">>
Dashes == <<"--">>
Line(names) == <<"line">> \o names  \* a header line, and what follows each name="
Text(v) == <<"text", v>>

\* A part without names has no header line.
EncodePart(part) ==
  <<Delimiter, CRLF>> \o (IF part.names = << >> THEN << >> ELSE <<Line(part.names), CRLF>>)
    \o <<CRLF>> \o part.data \o <<CRLF>>
\* The first n parts, and a form.
Encoded(parts) ==
  LET encoded[n \in 0 .. Len(parts)] ==
        IF n = 0 THEN << >> ELSE encoded[n - 1] \o EncodePart(parts[n])
  IN  encoded
Encode(parts) == Encoded(parts)[Len(parts)] \o <<Delimiter, Dashes, CRLF>>

\* The words of this module, and any other.
Word ==
  {"delimiter", "CRLF", "--", "line", "text", "default", "flux.2-klein-4B"} \cup STRING
Token == Seq(Word) \ {<< >>}
Part == [names : Seq(Word), data : Seq(Token)]
Types == {"text", "number", "boolean"}

\* Clients choose a delimiter that is not in their data, give no empty names, and
\* send nothing that reads as a name in a part that has none.
ASSUME BodyAssumption ==
  /\ Forms \subseteq Seq(Part)
  /\ \A parts \in Forms : \A k \in DOMAIN parts :
       /\ parts[k].names # << >> => parts[k].names[1] # ""
       /\ \A n \in DOMAIN parts[k].data :
            /\ parts[k].data[n] # Delimiter
            /\ parts[k].names = << >> => parts[k].data[n][1] # "line"
  /\ \A o \in Objects : \A f \in DOMAIN o :
       /\ o[f][1] \in Types
       /\ o[f][1] = "boolean" => o[f][2] \in {"true", "false"}
       /\ o[f][1] = "number" => o[f][2] \in DOMAIN Numbers
       /\ o[f][2] \in STRING
  /\ \A o \in Objects : "prompt" \in DOMAIN o => o["prompt"][1] = "text"

VARIABLES
  sent,     \* what the client meant: parts or an object, all of it or not
  body,     \* the tokens of a form
  pos,      \* start_pos
  reading,  \* "no", "form", "object", "done"
  params    \* GenParams, and whether reading threw

parserVars == <<sent, body, pos, reading, params>>
allVars == <<startVars, parserVars>>

\* GenParams.
Sizes == {"default", "768x1024", "1024x768", "576x1024", "1024x576", "1024x1024"}
GenParams ==
  [model : Seq(Token), prompt : Seq(Token), size : Sizes, steps : Ints, force : BOOLEAN,
   rank : Ints, images : Seq(Seq(Token)), threw : BOOLEAN]

ParserTypeOK ==
  /\ body \in Seq(Token) /\ pos \in Nat \ {0}
  /\ reading \in {"no", "form", "object", "done"}
  /\ params \in GenParams

\* apply_cli_defaults.
DefaultParams ==
  [model |-> <<Text(settings.model)>>, prompt |-> <<Text("default")>>, size |-> "default",
   steps |-> settings.steps, force |-> FALSE, rank |-> 0, images |-> << >>,
   threw |-> FALSE]

ParserInit ==
  /\ sent = None /\ body = << >> /\ pos = 1 /\ reading = "no"
  /\ params = DefaultParams

\* A form arrives, the whole of it or some of its tokens.  Its header gives the
\* delimiter as it is in the body: no quotes, and no parameter behind it.
ReceiveForm ==
  /\ phase = "serving" /\ reading = "no"
  /\ \E parts \in Forms : \E n \in 0 .. Len(Encode(parts)) :
       /\ sent' = [kind |-> "form", parts |-> parts]
       /\ body' = SubSeq(Encode(parts), 1, n)
  /\ params' = DefaultParams
  /\ reading' = "form"
  /\ UNCHANGED <<startVars, pos>>

\* An object arrives, or one without its end.
ReceiveObject ==
  /\ phase = "serving" /\ reading = "no"
  /\ \E o \in Objects, whole \in BOOLEAN : sent' = [kind |-> "object", object |-> o, whole |-> whole]
  /\ params' = DefaultParams
  /\ reading' = "object"
  /\ UNCHANGED <<startVars, body, pos>>

-----------------------------------------------------------------------------
(* Fields.                                                                  *)

\* apply_size_preset; another text changes nothing.
Preset(value) ==
  CASE value \in {"3:4", "768x1024"} -> "768x1024"
    [] value \in {"4:3", "1024x768"} -> "1024x768"
    [] value \in {"9:16", "576x1024"} -> "576x1024"
    [] value \in {"16:9", "1024x576"} -> "1024x576"
    [] value \in {"1:1", "1024x1024"} -> "1024x1024"
    [] OTHER -> None
WithSize(p, value) == IF Preset(value) = None THEN p ELSE [p EXCEPT !.size = Preset(value)]

\* The text of data of one token; all the names and numbers that matter are short.
TextOf(data) == IF Len(data) = 1 /\ Len(data[1]) = 2 THEN data[1][2] ELSE ""

Truths == {"true", "1", "yes", "on"}

\* What one part of a form does.
ApplyField(p, name, data) ==
  IF p.threw THEN p ELSE
  CASE name = "prompt" -> [p EXCEPT !.prompt = data]
    [] name = "model" -> [p EXCEPT !.model = data]
    [] name = "size" -> WithSize(p, TextOf(data))
    [] name = "lora_force" -> [p EXCEPT !.force = TextOf(data) \in Truths]
    [] name = "lora_rank" /\ IsNumber(TextOf(data)) ->
         [p EXCEPT !.rank = Numbers[TextOf(data)]]
    [] name = "lora_rank" /\ ~IsNumber(TextOf(data)) -> [p EXCEPT !.threw = TRUE]
    [] name \in {"image", "image[]"} /\ p.images = << >> -> [p EXCEPT !.images = <<data>>]
    [] OTHER -> p

-----------------------------------------------------------------------------
(* The scan of a form.                                                      *)

\* body.find: where tokens are found from an index on, or 0.
Find(tokens, from) ==
  LET at == {j \in from .. Len(body) - Len(tokens) + 1 :
               SubSeq(body, j, j + Len(tokens) - 1) = tokens}
  IN  IF at = {} THEN 0 ELSE CHOOSE j \in at : \A k \in at : j <= k

Start == Find(<<Delimiter>>, pos) + 2  \* after the delimiter and two bytes more
HeaderEnd == Find(<<CRLF, CRLF>>, Start)
BodyStart == HeaderEnd + 2
NextDelimiter == Find(<<Delimiter>>, BodyStart)

\* The while condition and the three breaks.
HasPart ==
  /\ Find(<<Delimiter>>, pos) # 0
  /\ Start - 1 \in DOMAIN body => body[Start - 1] # Dashes
  /\ HeaderEnd # 0
  /\ NextDelimiter # 0

\* The first name="..." that is not empty, wherever in the headers; "" if none.
HeaderName ==
  LET named == {k \in Start .. HeaderEnd - 1 :
                  body[k][1] = "line" /\ \E n \in 2 .. Len(body[k]) : body[k][n] # ""}
      line == body[Min(named)]
  IN  IF named = {} THEN "" ELSE line[Min({n \in 2 .. Len(line) : line[n] # ""})]

PartData == SubSeq(body, BodyStart, NextDelimiter - 2)

\* Mutant: the scan goes on behind the next delimiter.
ReadPartSkipping ==
  /\ reading = "form" /\ ~params.threw /\ HasPart
  /\ params' = IF HeaderName = "" THEN params ELSE ApplyField(params, HeaderName, PartData)
  /\ pos' = NextDelimiter + 1
  /\ UNCHANGED <<startVars, sent, body, reading>>

ReadPart ==
  /\ reading = "form" /\ ~params.threw /\ HasPart
  /\ params' = IF HeaderName = "" THEN params ELSE ApplyField(params, HeaderName, PartData)
  /\ pos' = NextDelimiter
  /\ UNCHANGED <<startVars, sent, body, reading>>

EndForm ==
  /\ reading = "form" /\ (params.threw \/ ~HasPart)
  /\ reading' = "done"
  /\ UNCHANGED <<startVars, sent, body, pos, params>>

-----------------------------------------------------------------------------
(* Objects.                                                                 *)

\* Mutant: a field is taken whatever its type.
HasAnyType(name, type) == name \in DOMAIN sent.object

Has(name, type) == name \in DOMAIN sent.object /\ sent.object[name][1] = type
ValueOf(name) == sent.object[name][2]

\* get<int> keeps the low bits.
Wrap(n) == ((n + IntHalf) % (2 * IntHalf)) - IntHalf

\* parse_request; a field of another type is left alone.
ReadObject ==
  /\ reading = "object" /\ sent.whole
  /\ params' = [params EXCEPT
       !.model = IF Has("model", "text") THEN <<Text(ValueOf("model"))>> ELSE @,
       !.prompt = IF Has("prompt", "text") THEN <<Text(ValueOf("prompt"))>> ELSE @,
       !.steps = IF Has("steps", "number") THEN Wrap(Numbers[ValueOf("steps")]) ELSE @,
       !.size = IF Has("size", "text") THEN WithSize(params, ValueOf("size")).size ELSE @,
       !.force = IF Has("lora_force", "boolean") THEN ValueOf("lora_force") = "true" ELSE @,
       !.rank = IF Has("lora_rank", "number") THEN Wrap(Numbers[ValueOf("lora_rank")]) ELSE @]
  /\ reading' = "done"
  /\ UNCHANGED <<startVars, sent, body, pos>>

\* apply_size_from_body_fallback looks for a ratio in the whole body.
Ratios == <<"3:4", "4:3", "9:16", "16:9", "1:1">>
Shown == UNION {Shows[ValueOf(f)] : f \in DOMAIN sent.object \cap {"model", "prompt", "size"}}
NoneShown == \A n \in DOMAIN Ratios : Ratios[n] \notin Shown
FirstShown ==
  CHOOSE n \in DOMAIN Ratios :
    Ratios[n] \in Shown /\ \A m \in 1 .. n - 1 : Ratios[m] \notin Shown

\* A body that does not parse: its model, switches and LoRA are not looked for; a
\* number of digits that no int holds throws.
ReadFallback ==
  /\ reading = "object" /\ ~sent.whole
  /\ LET digits == Has("steps", "number") /\ Numbers[ValueOf("steps")] >= 0
         holds == digits => IsNumber(ValueOf("steps"))
     IN  params' = [params EXCEPT
           !.size = IF NoneShown THEN @ ELSE Preset(Ratios[FirstShown]),
           !.steps = IF digits /\ holds THEN Numbers[ValueOf("steps")] ELSE @,
           !.prompt = IF Has("prompt", "text") /\ holds THEN <<Text(ValueOf("prompt"))>> ELSE @,
           !.threw = ~holds]
  /\ reading' = "done"
  /\ UNCHANGED <<startVars, sent, body, pos>>

-----------------------------------------------------------------------------

Init == StartInit /\ ParserInit

Next ==
  \/ StartNext /\ UNCHANGED parserVars
  \/ ReceiveForm \/ ReadPart \/ EndForm
  \/ ReceiveObject \/ ReadObject \/ ReadFallback

Spec == Init /\ [][Next]_allVars

-----------------------------------------------------------------------------
(* What must hold.                                                          *)

\* What the first n parts of a form say: each in turn, those without names left out.
MeantFrom(defaults, parts) ==
  LET meant[n \in 0 .. Len(parts)] ==
        IF n = 0 THEN defaults
        ELSE IF parts[n].names = << >> THEN meant[n - 1]
        ELSE ApplyField(meant[n - 1], parts[n].names[1], parts[n].data)
  IN  meant
Meant(parts) == MeantFrom(DefaultParams, parts)

\* A form is read as it was meant, whatever its data look like, or, if its end was
\* lost, as far as the last part that is known to be complete.
PartsRead ==
  (reading = "done" => (sent.kind = "form" =>
    LET complete == Cardinality({k \in DOMAIN body : body[k] = Delimiter}) - 1
    IN  params = Meant(sent.parts)[IF complete < 0 THEN 0 ELSE complete]))

\* The fields of an object as parts of a form; one that is not there, or of another
\* type, makes a part without a name.
Shared == <<"model", "prompt", "size", "lora_force", "lora_rank">>
TypeOf(f) == CASE f = "lora_force" -> "boolean" [] f = "lora_rank" -> "number" [] OTHER -> "text"
AsPart(o, f) ==
  IF f \in DOMAIN o /\ o[f][1] = TypeOf(f)
    THEN [names |-> <<f>>, data |-> <<Text(o[f][2])>>]
    ELSE [names |-> << >>, data |-> << >>]
AsParts(o) == [k \in 1 .. Len(Shared) |-> AsPart(o, Shared[k])]

\* The two readers agree: an object and the form with the same fields make the same
\* request, but for the steps, which a form cannot ask for, and for numbers that no
\* int holds, which an object wraps and a form is refused for.
FormsAgree ==
  (reading = "done" => (sent.kind = "object" /\ sent.whole =>
      LET form == Meant(AsParts(sent.object))[Len(Shared)]
      IN  form.threw \/ [params EXCEPT !.steps = settings.steps] = form))

-----------------------------------------------------------------------------
(* The inductive invariant of the proofs.                                   *)

\* The scan of a form is where some part ends and has read what the parts up to it
\* say.
ReadSoFar ==
  reading = "form" =>
    /\ sent.kind = "form" /\ sent.parts \in Forms
    /\ \E n \in 0 .. Len(Encode(sent.parts)) :
         /\ body = SubSeq(Encode(sent.parts), 1, n)
         /\ \E k \in 0 .. Len(sent.parts) :
              /\ pos = Len(Encoded(sent.parts)[k]) + 1
              /\ k > 0 => pos <= n
              /\ params = Meant(sent.parts)[k]

ParserIInv ==
  /\ reading # "no" => phase = "serving"
  /\ reading = "no" => pos = 1
  /\ reading = "object" =>
       sent.kind = "object" /\ sent.object \in Objects /\ params = DefaultParams
  /\ ReadSoFar
  /\ PartsRead
  /\ FormsAgree

=============================================================================
