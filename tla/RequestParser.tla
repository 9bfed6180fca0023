---------------------------- MODULE RequestParser ----------------------------
(***************************************************************************)
(* The HTTP request parser, and connection::do_read, which hands it one    *)
(* read after the other and looks for the body in each read by itself.     *)
(*                                                                         *)
(* A byte is a symbol that stands for those the parser does not tell from  *)
(* it: "H" for the letters but T and P, "1" for the digits, "ctl" and      *)
(* "high" for the control characters and for those above 127, which are    *)
(* negative as a char.  req.json is not modelled, nor are the numbers of   *)
(* the version, which nothing reads.                                       *)
(***************************************************************************)
EXTENDS Integers, FiniteSets, Sequences, SequencesExt

CONSTANTS
  MaxText,      (* symbols of the fields of a request together             *)
  MaxDigits     (* digits of each number of the version                    *)

ASSUME ParserAssumption == MaxText \in Nat \ {0} /\ MaxDigits \in Nat \ {0}

VARIABLES
  state,        (* request_parser::state_                                  *)
  req,          (* the request: method, uri, and headers as <<name, value>>*)
  result,       (* "indeterminate", "good", "bad", or "thrown" by do_read  *)
  input,        (* the bytes parsed (history)                              *)
  read,         (* the current read, as far as it is known                 *)
  body          (* request::body                                           *)

parserVars == <<state, req, result, input, read, body>>

Ctl     == {"tab", "CR", "LF", "ctl"}
Special == {"/", ":", "space", "tab"}
Symbols == Ctl \cup Special \cup {"H", "T", "P", "1", ".", "high"}
Token   == Symbols \ (Ctl \cup Special \cup {"high"})
Text    == Symbols \ Ctl
Blank   == {"space", "tab"}
Written == Symbols \ (Token \ {"H"})

(* consume, as rules: in this state such a symbol leads to that state and   *)
(* joins that field, or "none".  "header" begins a header with the symbol.  *)
RequestLineRules ==
  { <<"method_start", Token, "method", "method">>,
    <<"method", {"space"}, "uri", "none">>,
    <<"method", Token, "method", "method">>,
    <<"uri", {"space"}, "http_version_h", "none">>,
    <<"uri", Text \ {"space"}, "uri", "uri">>,
    <<"http_version_h", {"H"}, "http_version_t_1", "none">>,
    <<"http_version_t_1", {"T"}, "http_version_t_2", "none">>,
    <<"http_version_t_2", {"T"}, "http_version_p", "none">>,
    <<"http_version_p", {"P"}, "http_version_slash", "none">>,
    <<"http_version_slash", {"/"}, "http_version_major_start", "none">>,
    <<"http_version_major_start", {"1"}, "http_version_major", "none">>,
    <<"http_version_major", {"."}, "http_version_minor_start", "none">>,
    <<"http_version_major", {"1"}, "http_version_major", "none">>,
    <<"http_version_minor_start", {"1"}, "http_version_minor", "none">>,
    <<"http_version_minor", {"CR"}, "expecting_newline_1", "none">>,
    <<"http_version_minor", {"1"}, "http_version_minor", "none">>,
    <<"expecting_newline_1", {"LF"}, "header_line_start", "none">> }

HeaderRules ==
  { <<"header_line_start", {"CR"}, "expecting_newline_3", "none">>,
    <<"header_line_start", Blank, "header_lws", "none">>,
    <<"header_line_start", Token, "header_name", "header">>,
    <<"header_lws", {"CR"}, "expecting_newline_2", "none">>,
    <<"header_lws", Blank, "header_lws", "none">>,
    <<"header_lws", Text \ Blank, "header_value", "value">>,
    <<"header_name", {":"}, "space_before_header_value", "none">>,
    <<"header_name", Token, "header_name", "name">>,
    <<"space_before_header_value", {"space"}, "header_value", "none">>,
    <<"header_value", {"CR"}, "expecting_newline_2", "none">>,
    <<"header_value", Text, "header_value", "value">>,
    <<"expecting_newline_2", {"LF"}, "header_line_start", "none">> }

Rules == RequestLineRules \cup HeaderRules

(* Seeded fault: also before the first header.                              *)
AppliesFault(rule, c) ==
  /\ rule[1] = state
  /\ c \in rule[2]

(* A line that begins with a blank continues a header, if there is one.     *)
Applies(rule, c) ==
  /\ rule[1] = state
  /\ c \in rule[2]
  /\ rule[3] = "header_lws" /\ state = "header_line_start" => req.headers # <<>>

Stored(field, c) ==
  CASE field = "none"   -> req
    [] field = "header" -> [req EXCEPT !.headers = Append(@, <<<<c>>, <<>>>>)]
    [] field = "name"   -> [req EXCEPT !.headers[Len(req.headers)][1] = Append(@, c)]
    [] field = "value"  -> [req EXCEPT !.headers[Len(req.headers)][2] = Append(@, c)]
    [] OTHER            -> [req EXCEPT ![field] = Append(@, c)]

TextOf(r) ==
  LET sum[n \in 0 .. Len(r.headers)] ==
        IF n = 0 THEN Len(r.method) + Len(r.uri)
        ELSE sum[n - 1] + Len(r.headers[n][1]) + Len(r.headers[n][2])
  IN  sum[Len(r.headers)]

InitParser ==
  /\ state = "method_start"
  /\ req = [method |-> <<>>, uri |-> <<>>, headers |-> <<>>]
  /\ result = "indeterminate"
  /\ input = <<>> /\ read = <<>> /\ body = <<>>

MoreDigits == \E i \in (Len(input) - MaxDigits + 1) .. Len(input) : input[i] # "1"

(* request_parser::parse takes the next byte of the read.  A client may     *)
(* send any byte, but writes its fields with "H" alone of the tokens,       *)
(* within the bounds, and folds one value once.                             *)
Consume(c) ==
  /\ result = "indeterminate"
  /\ input' = Append(input, c)
  /\ read' = Append(read, c)
  /\ \/ \E rule \in Rules :
          /\ Applies(rule, c)
          /\ state' = rule[3]
          /\ req' = Stored(rule[4], c)
          /\ rule[4] # "none" => c \in Written
          /\ TextOf(req') <= MaxText
          /\ state \in {"http_version_major", "http_version_minor"} /\ c = "1" => MoreDigits
          /\ rule[3] = "header_lws" => Cardinality({i \in DOMAIN input : input[i] = "LF"}) <= 2 /\ state # "header_lws"
          /\ UNCHANGED result
     \/ /\ \A rule \in Rules : ~Applies(rule, c)
        /\ result' = IF state = "expecting_newline_3" /\ c = "LF" THEN "good" ELSE "bad"
        /\ UNCHANGED <<state, req>>
  /\ UNCHANGED body

CRLF == <<"CR", "LF">>
End  == CRLF \o CRLF

(* Seeded fault: what follows is taken from three bytes on.                 *)
BodyFault(s) ==
  LET x == {i \in DOMAIN s : i + 3 <= Len(s) /\ SubSeq(s, i, i + 3) = End}
      skip == IF x = {} THEN 3 ELSE (CHOOSE i \in x : \A j \in x : i <= j) + 2
  IN  SubSeq(s, skip + 1, Len(s))

(* request_.body: what follows the first end of headers in this read, or    *)
(* the read without three bytes if there is none.                           *)
BodyOf(s) ==
  LET x == {i \in DOMAIN s : i + 3 <= Len(s) /\ SubSeq(s, i, i + 3) = End}
      skip == IF x = {} THEN 3 ELSE (CHOOSE i \in x : \A j \in x : i <= j) + 3
  IN  SubSeq(s, skip + 1, Len(s))

(* The read ends; a shorter one than three bytes makes the range of the     *)
(* string negative, which throws.  A client sends a request in two reads at *)
(* most.                                                                    *)
EndRead ==
  /\ result = "indeterminate"
  /\ read # <<>> /\ read = input
  /\ body' = BodyOf(read)
  /\ result' = IF Len(read) < 3 THEN "thrown" ELSE result
  /\ read' = <<>>
  /\ UNCHANGED <<state, req, input>>

(* The read that completes the request goes on with rest.                   *)
Complete(rest) ==
  /\ result = "good"
  /\ read # <<>>
  /\ body' = BodyOf(read \o rest)
  /\ result' = IF Len(read \o rest) < 3 THEN "thrown" ELSE result
  /\ read' = <<>>
  /\ UNCHANGED <<state, req, input>>

NextParser ==
  \/ \E c \in Symbols : Consume(c)
  \/ EndRead
  \/ \E rest \in {<<>>, <<"H">>, End \o <<"1">>} : Complete(rest)

-----------------------------------------------------------------------------
(* The requests as a grammar: the text of each with the fields it has.      *)
(* Heads has what n headers end with; the first may be folded.              *)
Words(set, least) == UNION {[1 .. n -> set \cap Written] : n \in least .. MaxText}
VersionStart == <<"H", "T", "T", "P", "/">>
Digits == UNION {[1 .. n -> {"1"}] : n \in 1 .. MaxDigits}
Versions == {VersionStart \o w[1] \o <<".">> \o w[2] : w \in Digits \X Digits}
WithHeader(r, name, value) == [r EXCEPT !.headers = Append(@, <<name, value>>)]
Continued(r, more) == [r EXCEPT !.headers[Len(r.headers)][2] = @ \o more]
Within(lines) == {p \in lines : TextOf(p[2]) <= MaxText}

RequestLines ==
  Within({<<w[1] \o <<"space">> \o w[2] \o <<"space">> \o w[3] \o CRLF,
            [method |-> w[1], uri |-> w[2], headers |-> <<>>]>> :
            w \in Words(Token, 1) \X Words(Text \ {"space"}, 0) \X Versions})
Header(lines) ==
  Within({<<w[1][1] \o w[2] \o <<":", "space">> \o w[3] \o CRLF, WithHeader(w[1][2], w[2], w[3])>> :
            w \in lines \X Words(Token, 1) \X Words(Text, 0)})
Folded(lines) ==
  Within({<<w[1][1] \o <<w[2]>> \o w[3] \o CRLF, Continued(w[1][2], w[3])>> :
            w \in lines \X Blank \X {more \in Words(Text, 0) : more = <<>> \/ more[1] # "space"}})

Heads[n \in 0 .. MaxText] ==
  IF n = 0 THEN RequestLines
  ELSE IF n = 1 THEN Header(RequestLines) \cup Folded(Header(RequestLines))
  ELSE Header(Heads[n - 1])

Requests == {<<p[1] \o CRLF, p[2]>> : p \in UNION {Heads[n] : n \in 0 .. MaxText}}
Openings == UNION {Prefixes(r[1]) : r \in Requests}

(* "The enum return value is good when a complete request has been parsed,  *)
(* bad if the data is invalid, indeterminate when more data is required"    *)
(* (request_parser.hpp): over any sequence of reads the parser is good at   *)
(* the end of a request of the grammar, with its fields and no earlier or   *)
(* later, and bad at the first byte that none goes on with.                 *)
Recognises ==
  /\ result = "good" => <<input, req>> \in Requests
  /\ result = "indeterminate" => input \in Openings /\ \A r \in Requests : r[1] # input
  /\ result = "bad" => input \notin Openings

(* The body is what follows the headers, if the read that completes them    *)
(* has all of their end: do_read searches each read without the parser, yet *)
(* finds no other place.                                                    *)
BodyFollows ==
  [][\A rest \in {<<>>, <<"H">>, End \o <<"1">>} :
       Complete(rest) /\ Len(read) >= 4 => body' = rest]_parserVars
=============================================================================
