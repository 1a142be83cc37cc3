---------------------------- MODULE MCHttpInput -----------------------------
(***************************************************************************)
(* Instances of HttpInput for TLC: single requests in every combination of *)
(* a right and a wrong start line and up to two right or wrong field       *)
(* lines, pairs of requests on one connection, and requests whose body     *)
(* ends where the server does not expect it.                               *)
(***************************************************************************)
EXTENDS HttpInput

Request(m, u, v, f, b) ==
  [method |-> m, url |-> u, version |-> v, fields |-> f, body |-> b]

Host == <<"Host:", SP, "x">>
Length(n) == <<"content-length:", SP, n>>
FieldLines == {Host, Length("0"), <<"Content-Length:", SP, "1">>,
               <<"Host:", "x">>, <<"Host:", SP>>, <<"x", SP, "Host:">>}
FieldLists == {<<>>} \cup {<<f>> : f \in FieldLines}
                \cup {<<Host, f>> : f \in FieldLines}
                \cup {<<f, Host>> : f \in FieldLines}

Singles == {Request(m, u, v, f, <<>>) :
              m \in {"GET", "POST", "PUT"}, u \in {"/", "x"},
              v \in {"HTTP/1.1", "HTTP/2"}, f \in FieldLists}

Short == Request("GET", "/", "HTTP/1.1", <<Host>>, <<>>)
WithBody == Request("GET", "/", "HTTP/1.1", <<Host, Length("2")>>, <<"x", "CR">>)
Posted == Request("POST", "/", "HTTP/1.1",
                  <<Host, <<"Content-Length:", SP, "1">>, Length("1")>>, <<"x">>)
Long == Request("GET", "/", "HTTP/1.1", <<Host, Host, Host>>, <<>>)
Pairs == {<<r, s>> : r, s \in {Short, WithBody, Posted, Long}}

Dialogues == {<<r>> : r \in Singles} \cup Pairs

\* Bodies under Content-Length, with a space, too long and too short for the server.
Stray == {Request(m, "/", "HTTP/1.1", f, b) :
            m \in {"GET", "POST"},
            f \in {<<Host, <<"Content-Length:", SP, "1">>>>,
                  <<Host, <<"Content-Length:", SP, "1">>, Length("1")>>},
            b \in {<<>>, <<"x">>, <<SP>>, <<"x", SP, "x">>}}
Talks == Dialogues \cup {<<r>> : r \in Stray} \cup {<<r, Short>> : r \in Stray}
           \cup {<<Short, r>> : r \in Stray}
=============================================================================
