-------------------------------- MODULE MCText ------------------------------
(***************************************************************************)
(* Two instances for TLC that share nothing: part says whether calls are   *)
(* made on a Buffer or http_parse.cpp serves a client, and the other stays *)
(* where it begins.                                                        *)
(*                                                                         *)
(* Buffer: strings of a bounded length over two bytes.  Bytes are only     *)
(* moved, never looked at, so two of them and the filler are enough to see *)
(* one of them lost, repeated or out of order.                             *)
(*                                                                         *)
(* HttpParse: LineStreams, up to MaxLines lines, each one of a few texts   *)
(* with one of the ends a sender may produce; RequestStreams, one complete *)
(* line, every line of up to MaxTokens tokens (GET and HTTP also stand for *)
(* a word that is out of place).                                           *)
(***************************************************************************)
EXTENDS Buffer, HttpParse, SequencesExt

CONSTANTS
  MaxString,   \* bound: bytes in one call of a Buffer
  MaxLines,    \* bound: lines a client sends
  MaxTokens    \* bound: tokens in a request line

VARIABLE part

ShortStrings == UNION {[1 .. n -> Bytes] : n \in 0 .. MaxString}

Request == <<"GET", "SP", "PATH", "SP", "HTTP">>
Texts == {Request, <<"GET", "PATH">>, <<"WORD">>, <<>>}
Ends == {<<"CR", "LF">>, <<"CR">>, <<"LF">>, <<"CR", "CR", "LF">>}
Lines == {t \o e : t \in Texts, e \in Ends}

LineStreams == {FlattenSeq(ls) : ls \in BoundedSeq(Lines, MaxLines)}
RequestStreams ==
  {l \o <<"CR", "LF">> :
     l \in BoundedSeq({"SP", "GET", "HTTP", "PATH", "SCHEME"}, MaxTokens)}

ClientStreams == LineStreams \cup RequestStreams

TextInit ==
  /\ part \in {"buffer", "parse"}
  /\ Init /\ ParseInit
  /\ part = "parse" \/ stream = <<>>

TextNext ==
  /\ UNCHANGED part
  /\ \/ part = "buffer" /\ Next /\ UNCHANGED parseVars
     \/ part = "parse" /\ ParseNext /\ UNCHANGED bufferVars

TextSpec == TextInit /\ [][TextNext]_<<part, bufferVars, parseVars>>
=============================================================================
