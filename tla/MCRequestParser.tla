--------------------------- MODULE MCRequestParser ---------------------------
(***************************************************************************)
(* Instances for TLC: a tree of three directories, command lines that mix  *)
(* the flags, and bodies whose data look like parts of a body.             *)
(***************************************************************************)
EXTENDS RequestParser

CONSTANTS Top, Home, Bin

ParentOf == (Top :> None) @@ (Home :> Top) @@ (Bin :> Home)

SomeStarts ==
  {[cwd |-> Bin, exe |-> Bin], [cwd |-> Top, exe |-> Bin], [cwd |-> None, exe |-> Bin],
   [cwd |-> Bin, exe |-> None]}
SomeInstalls == {{}, {<<Home, "">>}, {<<Home, "vigenflow_win">>, <<Top, "">>},
                 {<<Bin, "">>, <<Bin, "vigenflow_win">>}}

SomeCommandLines ==
  {<< >>, <<"m">>, <<"-w", "/w", "m">>, <<"-w", "-d", "x">>, <<"-w", "a", "-w", "b", "-n", "n">>,
   <<"--exe-base-dir", "e", "-d">>, <<"-p", "65616">>, <<"-p", "-1", "-k", "true">>,
   <<"-p", "80", "-o", "/out">>, <<"-p", "x">>, <<"-p", "300000">>, <<"-k", "1", "-o", "out">>,
   <<"-o", "out", "-k", "no">>, <<"-o", "/tmp", "-k", "true">>, <<"--steps", "8", "m">>,
   <<"--no-flux-klein-bf16-auto-download", "-h">>, <<"--no-flux-klein-bf16-auto-download">>,
   <<"--bogus">>, <<"", "m">>, <<"-k">>}

SomeNumbers ==
  ("8" :> 8) @@ ("80" :> 80) @@ ("65616" :> 65616) @@ ("-1" :> -1) @@ ("300000" :> 300000)
    @@ ("1" :> 1) @@ ("12x" :> 12)
SomeRooted == {"/w", "/out", "/tmp"}

x == Text("x")
Datas == {<< >>, <<x>>, <<CRLF, CRLF, x>>, <<CRLF>>, <<Dashes, x>>}
TextParts == [names : {<<"prompt">>}, data : Datas]
ImageParts == [names : {<<"image", "image.png">>, <<"image[]", "prompt">>}, data : {<<x>>, <<CRLF, x>>}]
BareParts == [names : {<< >>}, data : Datas]
Fields ==
  {[names |-> <<f>>, data |-> <<Text(v)>>] :
     f \in {"size", "lora_rank"}, v \in {"9:16", "1024x768", "300000", "12x"}}
    \cup {[names |-> <<f>>, data |-> <<Text(v)>>] :
     f \in {"model", "lora_force"}, v \in {"on", "no"}}
AllParts == TextParts \cup ImageParts \cup BareParts \cup Fields

SomeForms ==
  {<< >>} \cup {<<p>> : p \in AllParts} \cup {<<p, q>> : p \in TextParts \cup ImageParts \cup BareParts, q \in TextParts}
    \cup {<<p, q>> : p, q \in ImageParts}
    \cup {<<p, f>> : p \in ImageParts, f \in Fields} \cup {<<f, p>> : f \in Fields, p \in BareParts}

SomeObjects ==
  {("prompt" :> Text(p)) @@ ("steps" :> <<"number", n>>) @@ more :
     p \in {"x", "in 4:3"}, n \in {"8", "-1", "300000"},
     more \in {("model" :> Text("m")), ("size" :> Text("9:16")), ("size" :> Text("1024x768")),
               ("lora_rank" :> <<"number", "8">>), ("lora_rank" :> <<"number", "300000">>),
               ("lora_rank" :> Text("8")), ("lora_force" :> <<"boolean", "true">>),
               ("lora_force" :> Text("true")), ("model" :> <<"number", "8">>)}}
SomeShows ==
  [t \in {"x", "m", "8", "in 4:3", "9:16", "1024x768"} |->
     CASE t = "in 4:3" -> {"4:3"} [] t = "9:16" -> {"9:16"} [] OTHER -> {}]

=============================================================================
