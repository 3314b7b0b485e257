----------------------------- MODULE Requests -----------------------------
(***************************************************************************)
(* A read request from its text to the text of its reply: what ev_handler  *)
(* takes out of the URI and the body, the query it runs (Queries), and the *)
(* body it answers with.                                                   *)
(***************************************************************************)
EXTENDS Queries, Json

CONSTANT Wanted   \* [from, to, uri, body]: what clients mean and what they send

VARIABLES
    want,     \* the request as the client means it
    command   \* string request of ev_handler

rvars == <<vars, want, command>>

NODE_ID == <<"n", "i", "d">>      \* node_id
NODE_A_ID == <<"n", "a">>         \* node_a_id
NODE_B_ID == <<"n", "b">>         \* node_b_id

(* The part of the request line between its last slash and the first space. *)
get_command_type_from_uri(uri) ==
    LET space == SelectInSeq(uri, LAMBDA ch : ch = " ")
        str   == IF space = 0 THEN uri ELSE SubSeq(uri, 1, space - 1)
    IN  SubSeq(str, SelectLastInSeq(str, LAMBDA ch : ch = "/") + 1, Len(str))

(* 0, which is no id, for a token that is missing: the code reads through  *)
(* a null pointer there.                                                   *)
get_node_from_token(s, toks, key) ==
    LET tk == IF toks = <<>> THEN 0 ELSE find_json_token(s, toks, key)
    IN  IF tk = 0 THEN 0 ELSE stoull(TokenText(s, toks[tk]))

(* The ids of a request's text. *)
Ids(s, toks) == [from |-> get_node_from_token(s, toks, NODE_A_ID),
                 to |-> get_node_from_token(s, toks, NODE_B_ID)]

(* gen_neighbor_json_result: the neighbours in the order of the vector. *)
gen_neighbor_json_result(n, nodes) ==
    LET Number(i) == DigitsOf[nodes[i]] \o (IF i < Len(nodes) THEN <<",">> ELSE <<>>)
    IN  <<"{", "\"">> \o NODE_ID \o <<"\"", ":", " ">> \o DigitsOf[n]
        \o <<",", "\"", "n", "s", "\"", ":", " ", "[">>
        \o FlattenSeq([i \in DOMAIN nodes |-> Number(i)]) \o <<"]", "}">>

(* The bodies of the replies to get_node and get_edge, and to shortest_path. *)
InGraph(yes) ==
    json_emit(IF yes = 1 THEN <<"{", " ", "s", ":", " ", "T", " ", "}">>
              ELSE <<"{", " ", "s", ":", " ", "F", " ", "}">>, <<<<"i", "n">>>>)

DistanceText(n) ==
    json_emit(<<"{", " ", "s", ":", " ", "i", " ", "}">>, <<<<"d">>, n>>)

(* The status line and the length of the body that follows. *)
gen_result_http_header(code, len) == [code |-> code, content_length |-> len]

(* What is sent for the search: header and body in one text. *)
HttpResult ==
    LET json_result == IF res.first = 200 THEN DistanceText(res.second) ELSE <<>>
    IN  [header |-> gen_result_http_header(res.first, Len(json_result)),
         body   |-> json_result]

Receive ==
    /\ want \in Wanted
    /\ command = get_command_type_from_uri(want.uri)
    /\ ask = Ids(want.body, parse_json2(want.body))
    /\ Called

Handle == shortestPath /\ UNCHANGED <<want, command>>

RequestSpec == Receive /\ [][Handle]_rvars /\ WF_rvars(Handle)

----------------------------------------------------------------------------
(* The token a key of a text leads to, and the numbers behind it. *)
TokenOf(s, toks, key) == toks[find_json_token(s, toks, key)]

Token(s, key) == TokenOf(s, parse_json2(s), key)

NumbersBehind(s, toks, key) ==
    {stoull(TokenText(s, tok)) : tok \in {t \in Range(toks) :
        t.type = "number" /\ t.ptr > TokenOf(s, toks, key).ptr}}

NumberAt(s, key) == get_node_from_token(s, parse_json2(s), key)

(* A list of neighbours reads back as it was meant. *)
ListUnderstood(s, toks, node, near) ==
    /\ get_node_from_token(s, toks, NODE_ID) = node
    /\ NumbersBehind(s, toks, <<"n", "s">>) = near
    /\ TokenOf(s, toks, <<"n", "s">>).num_desc = Cardinality(near)

(* The server runs the command and the ids that the client's request       *)
(* means: the members with those names in the outermost object, the first  *)
(* of several, whatever is nested in other members or quoted in strings,   *)
(* and however the text is laid out.  What it answers reads back, with the *)
(* same reader, as the result of the query.                                *)
TextsUnderstood ==
    /\ pc = "call" =>
          /\ command = <<"g", "e">>
          /\ ask = [from |-> want.from, to |-> want.to]
    /\ pc = "return" =>
          LET here == getNode(g, ask.from).second
              edge == getEdge(g, ask.from, ask.to)
              near == getNeighbors(g, ask.from)
              list == gen_neighbor_json_result(ask.from, SetToSeq(near.second))
          IN  /\ Token(InGraph(here), <<"i", "n">>).type =
                     IF ask.from \in DOMAIN g THEN "true" ELSE "false"
              /\ edge.first = 200 =>
                     (Token(InGraph(edge.second), <<"i", "n">>).type = "true"
                         <=> ask.to \in g[ask.from])
              /\ HttpResult.header.code = 200 =>
                     LET text == SubSeq(HttpResult.body, 1, HttpResult.header.content_length)
                     IN  NumberAt(text, <<"d">>) = res.second
              /\ HttpResult.header.code # 200 => HttpResult.header.content_length = 0
              /\ near.first = 200 =>
                     ListUnderstood(list, parse_json2(list), ask.from, near.second)
=============================================================================
