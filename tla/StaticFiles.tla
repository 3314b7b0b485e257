---------------------------- MODULE StaticFiles ----------------------------
(***************************************************************************)
(* Static content: how mg_serve_http turns a URI into a path under         *)
(* web_root and a path into a reply, with the options the server sets      *)
(* (document_root alone; no DAV root, no authentication, no rewrites).     *)
(* Texts are sequences of symbols; a letter stands for a name or a piece   *)
(* of one: in extensions s is shtm, m shtml, c cgi, p php, w htm, wl html  *)
(* and g gz, which is G in upper case; i is index and h .htpasswd.         *)
(***************************************************************************)
EXTENDS Integers, SequencesExt

CONSTANTS
    Request,   \* [method, uri, inm, ims, range]
    Stale,     \* what an unfinished decoding may leave behind its output
    Files,     \* the file system: from sequences of names to nodes
    Times,     \* times of modification, in days
    Sizes,     \* sizes of files
    MaxLevel   \* how deep SSI pages may include each other: 10

VARIABLES
    req,     \* struct http_message
    file,    \* size and time of modification of the files
    src,     \* the decoded URI still to be read by remove_double_dots
    dst,     \* what remove_double_dots has written
    path,    \* document_root and URI
    stack,   \* send_ssi_file, one frame for each open page
    out,     \* what the SSI pages have sent
    reply,
    pc

vars == <<req, file, src, dst, path, stack, out, reply, pc>>

----------------------------------------------------------------------------
(* struct mg_serve_http_opts.  main sets document_root; mg_serve_http      *)
(* gives five others their default, the rest stays NULL.                   *)
document_root == <<"R">>                \* web_root

NULL == <<"NUL">>

opts ==
    [document_root            |-> document_root,
     per_directory_auth_file  |-> <<"h">>,
     index_files              |-> <<"i", ".", "w", "l", ",", "i", ".", "s">>,
     enable_directory_listing |-> TRUE,
     ssi_pattern              |-> <<"*", "*", ".", "s", "$", "|", "*", "*", ".", "m", "$">>,
     cgi_file_pattern         |-> <<"*", "*", ".", "c", "$", "|", "*", "*", ".", "p", "$">>,
     hidden_file_pattern      |-> NULL,
     custom_mime_types        |-> NULL,
     dav_document_root        |-> NULL,
     extra_headers            |-> NULL]

(* The first entry of a comma-separated list, and the list behind it. *)
mg_next_comma_list_entry(list) ==
    LET comma == SelectInSeq(list, LAMBDA ch : ch = ",")
    IN  IF comma = 0 THEN [val |-> list, list |-> <<>>]
        ELSE [val  |-> SubSeq(list, 1, comma - 1),
              list |-> SubSeq(list, comma + 1, Len(list))]

(* Names and paths.                                                        *)

Slash(ch) == ch \in {"/", "\\"}

(* The part of a path behind its last slash. *)
LastName(p) ==
    LET Cuts == {i \in DOMAIN p : p[i] = "/"}
    IN  IF Cuts = {} THEN p ELSE SubSeq(p, Max(Cuts) + 1, Len(p))

DirName(p) == SubSeq(p, 1, Len(p) - Len(LastName(p)))

(* External: how the kernel walks a path.  Empty names and "." stay where  *)
(* they are, ".." goes up, a name behind a file leads nowhere.             *)
Nowhere == <<<<"NUL">>>>

Enter(at, name) ==
    IF at \notin DOMAIN Files \/ ~Files[at].dir THEN Nowhere
    ELSE IF name \in {<<>>, <<".">>} THEN at
    ELSE IF name = <<".", ".">> THEN (IF at = <<>> THEN <<>> ELSE Front(at))
    ELSE at \o <<name>>

Names(p) ==
    LET Cuts == {0, Len(p) + 1} \union {i \in DOMAIN p : p[i] = "/"}
        cuts == SetToSortSeq(Cuts, LAMBDA a, b : a < b)
    IN  [i \in 1..Len(cuts) - 1 |-> SubSeq(p, cuts[i] + 1, cuts[i + 1] - 1)]

Resolve(p) == FoldLeft(Enter, <<>>, Names(p))

mg_stat(p) == Resolve(p) \in DOMAIN Files
IsDir(p) == mg_stat(p) /\ Files[Resolve(p)].dir

----------------------------------------------------------------------------
(* mg_match_prefix: the length matched, or -1.                             *)
RECURSIVE mg_match_prefix(_, _)
RECURSIVE MatchFrom(_, _, _)
mg_match_prefix(p, s) ==
    LET Bars == {i \in DOMAIN p : p[i] = "|"}
        bar  == Min(Bars)
        res  == mg_match_prefix(SubSeq(p, 1, bar - 1), s)
    IN  IF Bars = {} THEN MatchFrom(p, s, 0)
        ELSE IF res > 0 THEN res
        ELSE mg_match_prefix(SubSeq(p, bar + 1, Len(p)), s)

(* The pattern and the text that are left, and how much has been matched.  *)
MatchFrom(p, s, j) ==
    LET deep == Len(p) > 1 /\ p[2] = "*"
        more == SubSeq(p, IF deep THEN 3 ELSE 2, Len(p))
        len  == IF deep THEN Len(s)
                ELSE Cardinality({i \in DOMAIN s : \A k \in 1..i : s[k] # "/"})
        At   == {l \in 0..len : mg_match_prefix(more, SubSeq(s, l + 1, Len(s))) # -1}
    IN  IF p = <<>> THEN j
        ELSE IF p[1] = "?" /\ s # <<>> THEN MatchFrom(Tail(p), Tail(s), j + 1)
        ELSE IF p[1] = "$" THEN IF s = <<>> THEN j ELSE -1
        ELSE IF p[1] = "*"
        THEN IF more = <<>> THEN j + len
             ELSE IF At = {} THEN -1
             ELSE j + Max(At) + mg_match_prefix(more, SubSeq(s, Max(At) + 1, Len(s)))
        ELSE IF s # <<>> /\ p[1] = s[1] THEN MatchFrom(Tail(p), Tail(s), j + 1)
        ELSE -1

(* Mutant: the whole path is compared with the name. *)
HiddenByPath(p) == p \in {<<".">>, <<".", ".">>, opts.per_directory_auth_file}

is_file_hidden(p) ==
    \/ LastName(p) \in {<<".">>, <<".", ".">>, opts.per_directory_auth_file}
    \/ /\ opts.hidden_file_pattern # NULL
       /\ mg_match_prefix(opts.hidden_file_pattern, LastName(p)) > 0

----------------------------------------------------------------------------
(* mg_url_decode.  A malformed escape ends it before the output has got    *)
(* its terminator, and uri_to_path does not ask: what is in the buffer     *)
(* follows.  A decoded NUL ends the text for everyone after it.            *)
Decoded(ch) ==
    CASE ch = "%2e" -> "."
      [] ch = "%2f" -> "/"
      [] ch = "%25" -> "%"
      [] ch = "%20" -> " "
      [] ch = "%00" -> "NUL"
      [] OTHER      -> ch

UpTo(s, ch) ==
    LET At == {i \in DOMAIN s : s[i] = ch}
    IN  IF At = {} THEN s ELSE SubSeq(s, 1, Min(At) - 1)

mg_url_decode(uri, stale) ==
    LET good == UpTo(uri, "%")
        dec  == [i \in DOMAIN good |-> Decoded(good[i])]
    IN  UpTo(IF Len(good) = Len(uri) THEN dec ELSE dec \o stale, "NUL")

Init ==
    /\ req \in Request
    /\ file \in [size : Sizes, mtime : Times]
    /\ src = <<>>
    /\ dst = <<>>
    /\ path = <<>>
    /\ stack = <<>>
    /\ out = <<>>
    /\ reply = [code |-> 0]
    /\ pc = "decode"

Decode ==
    /\ pc = "decode"
    /\ \E stale \in Stale : src' = mg_url_decode(req.uri, stale)
    /\ pc' = "copy"
    /\ UNCHANGED <<req, file, dst, path, stack, out, reply>>

(* remove_double_dots: each symbol is copied; behind a slash, slashes and  *)
(* double dots are skipped.                                                *)
CopySymbol ==
    /\ pc = "copy"
    /\ src # <<>>
    /\ dst' = Append(dst, Head(src))
    /\ src' = Tail(src)
    /\ pc' = IF Slash(Head(src)) THEN "skip" ELSE "copy"
    /\ UNCHANGED <<req, file, path, stack, out, reply>>

Skippable ==
    IF src # <<>> /\ Slash(src[1]) THEN 1
    ELSE IF Len(src) > 1 /\ src[1] = "." /\ src[2] = "." THEN 2
    ELSE 0

(* Mutants: double dots are skipped once behind each slash; the inner loop *)
(* does not stop.                                                          *)
SkipOnce == "copy"
SkipForever == "skip"

SkipNext == IF Skippable = 0 THEN "copy" ELSE "skip"

Skip ==
    /\ pc = "skip"
    /\ src' = SubSeq(src, Skippable + 1, Len(src))
    /\ pc' = SkipNext
    /\ UNCHANGED <<req, file, dst, path, stack, out, reply>>

(* The rest of uri_to_path: there are no rewrites and no DAV root. *)
UriToPath ==
    /\ pc = "copy"
    /\ src = <<>>
    /\ path' = document_root \o dst
    /\ pc' = "serve"
    /\ UNCHANGED <<req, file, src, dst, stack, out, reply>>

----------------------------------------------------------------------------
(* mg_send_http_file: the answers in the order in which they are tried.    *)
is_dav_request == req.method \in {"PUT", "DELETE", "MKCOL", "PROPFIND", "MOVE"}

Answer(r) ==
    /\ reply' = r
    /\ pc' = "done"
    /\ UNCHANGED <<req, file, src, dst, path, stack, out>>

(* How a reply says where it ends: Content-Length, chunks, or the close of *)
(* the connection.                                                         *)
mg_send_response_line(code) == [code |-> code]

mg_send_head(code, cl) == mg_send_response_line(code) @@ [cl |-> cl]

send_http_error(code) == mg_send_head(code, 0) @@ [sent |-> 0]

mg_send_http_chunk(chunks, data) == Append(chunks, data)

NotImplemented ==
    /\ is_dav_request
    /\ opts.dav_document_root = NULL
    /\ Answer(send_http_error(501))

NotFound ==
    /\ ~is_dav_request
    /\ ~mg_stat(path) \/ is_file_hidden(path)
    /\ Answer([code |-> 404, cl |-> 0, sent |-> 0])

Found == ~is_dav_request /\ mg_stat(path) /\ ~is_file_hidden(path)

Moved ==
    /\ Found
    /\ IsDir(path) /\ Last(path) # "/"
    /\ Answer([code |-> 301, cl |-> 0, sent |-> 0, location |-> req.uri \o <<"/">>])

Direct == Found /\ ~(IsDir(path) /\ Last(path) # "/")

Options ==
    /\ Direct
    /\ req.method = "OPTIONS"
    /\ Answer([code |-> 200, drain |-> TRUE])

(* find_index_file: the path without its trailing slashes, a slash and the *)
(* first name of the list that exists.                                     *)
Stripped(p) ==
    LET Keep == {i \in DOMAIN p : \E k \in i..Len(p) : ~Slash(p[k])}
    IN  SubSeq(p, 1, Cardinality(Keep))

IndexPath(name) == Stripped(path) \o <<"/">> \o name

RECURSIVE IndexIn(_)
IndexIn(list) ==
    LET e == mg_next_comma_list_entry(list)
    IN  IF list = <<>> THEN NULL
        ELSE IF mg_stat(IndexPath(e.val)) THEN IndexPath(e.val)
        ELSE IndexIn(e.list)

find_index_file == IndexIn(opts.index_files)

(* A listing.  What may not stand in a URI is escaped in the links; what   *)
(* is shown of a name only has its "<" escaped.                            *)

(* Mutant: the links are the bare names. *)
EncodeNothing(name) == name

mg_url_encode(name) ==
    [i \in DOMAIN name |->
        CASE name[i] = "%" -> "%25"
          [] name[i] = " " -> "%20"
          [] OTHER -> name[i]]

escape(name) == [i \in DOMAIN name |-> IF name[i] = "<" THEN "&lt;" ELSE name[i]]

print_dir_entry(chunks, node) ==
    LET slash == IF Files[node].dir THEN <<"/">> ELSE <<>>
    IN  mg_send_http_chunk(chunks,
            [is |-> "entry", href |-> mg_url_encode(Last(node)) \o slash,
             text |-> escape(Last(node)) \o slash, node |-> node])

(* The entries of the directory, in any order; what is hidden is left out. *)
scan_directory(p, chunks) ==
    LET Shown == {n \in DOMAIN Files : /\ Len(n) = Len(Resolve(p)) + 1
                                      /\ Front(n) = Resolve(p)
                                      /\ ~is_file_hidden(Last(n))}
    IN  FoldLeft(print_dir_entry, chunks, SetToSeq(Shown))

send_directory_listing ==
    LET body == scan_directory(path, mg_send_http_chunk(<<>>, [is |-> "table"]))
    IN  /\ Direct
        /\ req.method # "OPTIONS"
        /\ IsDir(path) /\ find_index_file = NULL
        /\ opts.enable_directory_listing
        /\ Answer(mg_send_response_line(200) @@
                  [chunks |-> mg_send_http_chunk(mg_send_http_chunk(body, [is |-> "end"]),
                                                 [is |-> "empty"]),
                   drain |-> TRUE])

Target == IF IsDir(path) THEN find_index_file ELSE path
HasTarget ==
    Direct /\ req.method # "OPTIONS" /\ (IsDir(path) => find_index_file # NULL)

(* Which files are run as CGI programs; what they answer is not modelled.  *)
Cgi == mg_match_prefix(opts.cgi_file_pattern, Target) > 0

RunCgi ==
    /\ HasTarget
    /\ Cgi
    /\ Answer([code |-> 200, cgi |-> Resolve(Target)])

----------------------------------------------------------------------------
(* The type of a file: the first entry of the table that its path ends in, *)
(* behind a dot.  There are no custom types.                               *)
static_builtin_mime_types ==
    <<[extension |-> <<"w", "l">>, mime_type |-> "text/html"],
      [extension |-> <<"w">>, mime_type |-> "text/html"],
      [extension |-> <<"s">>, mime_type |-> "text/html"],
      [extension |-> <<"m">>, mime_type |-> "text/html"],
      [extension |-> <<"g">>, mime_type |-> "application/x-gunzip"]>>

lowercase(ch) == IF ch = "G" THEN "g" ELSE ch

mg_casecmp(s1, s2) ==
    Len(s1) = Len(s2) /\ \A i \in DOMAIN s1 : lowercase(s1[i]) = lowercase(s2[i])

get_mime_type(p, dflt) ==
    LET EndsIn(e) ==
            LET n == Len(p) - Len(e.extension)
            IN  n > 0 /\ p[n] = "." /\ mg_casecmp(SubSeq(p, n + 1, Len(p)), e.extension)
        i == SelectInSeq(static_builtin_mime_types, EndsIn)
    IN  IF i = 0 THEN dflt ELSE static_builtin_mime_types[i].mime_type

----------------------------------------------------------------------------
(* mg_is_not_modified.  Days stand for seconds since 1970.                 *)
month_names == <<"Jan", "Feb", "Mar", "Apr", "May", "Jun",
                 "Jul", "Aug", "Sep", "Oct", "Nov", "Dec">>

mg_get_month_index(s) == SelectInSeq(month_names, LAMBDA name : name = s) - 1

days_before_month == <<0, 31, 59, 90, 120, 151, 181, 212, 243, 273, 304, 334>>

(* Mutant: centuries are taken for leap years. *)
JulianLeapYears(year) == year \div 4

mg_num_leap_years(year) == year \div 4 - year \div 100 + year \div 400

mg_parse_date_string(d) ==
    LET month == mg_get_month_index(d.month)
    IN  IF d.year > 1970 /\ month # -1
        THEN (d.year - 1970) * 365 + days_before_month[month + 1] + (d.day - 1)
             + mg_num_leap_years(d.year) - mg_num_leap_years(1970)
        ELSE 0

construct_etag(st) == <<st.mtime, st.size>>

mg_is_not_modified ==
    IF req.inm # <<>> THEN req.inm = construct_etag(file)
    ELSE IF req.ims # <<>> THEN file.mtime <= mg_parse_date_string(req.ims[1])
    ELSE FALSE

NotModified ==
    /\ HasTarget
    /\ ~Cgi
    /\ mg_is_not_modified
    /\ Answer(send_http_error(304))

(* mg_send_http_file2: the range of the file that is announced and sent.   *)
(* range is what sscanf stored: none, the first, or both numbers.          *)
Ssi == mg_match_prefix(opts.ssi_pattern, Target) > 0

parse_range_header(r) ==
    [r1 |-> IF Len(r) > 0 THEN r[1] ELSE 0,
     r2 |-> IF Len(r) = 1 THEN file.size - 1 ELSE IF Len(r) > 1 THEN r[2] ELSE 0]

RangeAsked(r) == Len(r) > 0 /\ r[1] >= 0 /\ (Len(r) > 1 => r[2] >= 0)

(* Mutant: the range may end one behind the last byte. *)
OutsideByOne(r) == r.r1 > r.r2 \/ r.r2 > file.size

Outside(r) == r.r1 > r.r2 \/ r.r2 >= file.size

(* What transfer_file_data can read from the offset fseeko set. *)
Readable(from, cl) == IF from + cl > file.size THEN file.size - from ELSE cl

FileReply(code, from, cl) ==
    mg_send_response_line(code) @@
    [node |-> Resolve(Target), type |-> get_mime_type(Target, "text/plain"),
     cl |-> cl, from |-> from, sent |-> Readable(from, cl)]

mg_send_http_file2 ==
    LET r == parse_range_header(req.range)
    IN  /\ HasTarget
        /\ ~Cgi /\ ~mg_is_not_modified /\ ~Ssi
        /\ Answer(IF ~RangeAsked(req.range) THEN FileReply(200, 0, file.size)
                  ELSE IF Outside(r) THEN FileReply(416, 0, 0)
                  ELSE FileReply(206, r.r1, r.r2 - r.r1 + 1))

----------------------------------------------------------------------------
(* SSI pages: handle_ssi_request opens the page, send_ssi_file works off   *)
(* its tags.                                                               *)
Page(p) == [path |-> p, tags |-> Files[Resolve(p)].tags]

handle_ssi_request ==
    /\ HasTarget
    /\ ~Cgi /\ ~mg_is_not_modified /\ Ssi
    /\ stack' = <<Page(Target)>>
    /\ pc' = "ssi"
    /\ UNCHANGED <<req, file, src, dst, path, out, reply>>

TooDeep == Len(stack) > MaxLevel

IncludePath(t, p) ==
    CASE t.by = "virtual" -> document_root \o <<"/">> \o t.name
      [] t.by = "abspath" -> t.name
      [] t.by = "file"    -> DirName(p) \o t.name

Says(what, s) == out' = Append(out, what) /\ stack' = s

send_file_data(s) == Says("file", s)

(* do_ssi_include: an error text, a plain file, or a page of its own; s is *)
(* the stack with the including page past its tag.                         *)
do_ssi_include(t, p, s) ==
    LET q == IncludePath(t, p)
        nested == mg_stat(q) /\ mg_match_prefix(opts.ssi_pattern, q) > 0
    IN  \/ ~mg_stat(q) /\ Says("error", s)
        \/ mg_stat(q) /\ ~nested /\ send_file_data(s)
        \/ nested /\ TooDeep /\ Says("too deep", s)
        \/ nested /\ ~TooDeep /\ stack' = Append(s, Page(q)) /\ UNCHANGED out

(* A malformed command, one that cannot be started, or what it writes. *)
do_ssi_exec(t, s) ==
    \/ t.cmd = <<>> /\ Says("bad exec", s)
    \/ t.cmd # <<>> /\ (Says("exec error", s) \/ send_file_data(s))

(* The front end does nothing on MG_EV_SSI_CALL. *)
do_ssi_call(s) == stack' = s /\ UNCHANGED out

send_ssi_file ==
    LET n    == Len(stack)
        tags == stack[n].tags
        past == [stack EXCEPT ![n].tags = Tail(@)]
    IN  /\ pc = "ssi"
        /\ stack # <<>>
        /\ \/ tags = <<>> /\ stack' = Front(stack) /\ UNCHANGED out
           \/ /\ tags # <<>> /\ Head(tags).do = "include"
              /\ do_ssi_include(Head(tags), stack[n].path, past)
           \/ tags # <<>> /\ Head(tags).do = "call" /\ do_ssi_call(past)
           \/ tags # <<>> /\ Head(tags).do = "exec" /\ do_ssi_exec(Head(tags), past)
           \/ tags # <<>> /\ Head(tags).do = "text" /\ Says("text", past)
        /\ UNCHANGED <<req, file, src, dst, path, reply, pc>>

SsiSent ==
    /\ pc = "ssi"
    /\ stack = <<>>
    /\ reply' = mg_send_response_line(200) @@
                [node |-> Resolve(Target), type |-> get_mime_type(Target, "text/plain"),
                 drain |-> TRUE]
    /\ pc' = "done"
    /\ UNCHANGED <<req, file, src, dst, path, stack, out>>

----------------------------------------------------------------------------
mg_send_http_file ==
    /\ pc = "serve"
    /\ \/ NotImplemented \/ NotFound \/ Moved \/ Options
       \/ send_directory_listing \/ RunCgi \/ NotModified
       \/ mg_send_http_file2 \/ handle_ssi_request

(* The handler has returned. *)
Done == pc = "done" /\ UNCHANGED vars

Next ==
    \/ Decode \/ CopySymbol \/ Skip \/ UriToPath
    \/ mg_send_http_file
    \/ send_ssi_file \/ SsiSent
    \/ Done

Spec == Init /\ [][Next]_vars

(* One thread runs the handler, which never waits: as long as the request  *)
(* is being served it moves on in the URI or in the pages.  The moves are  *)
(* stated without the answers, of which one is always possible (the runs   *)
(* check for deadlock).                                                    *)
UriMoves ==
    \/ Decode \/ CopySymbol \/ Skip \/ UriToPath
    \/ pc = "serve" /\ pc' \in {"ssi", "done"} /\ UNCHANGED src
    \/ pc = "ssi" /\ stack = <<>> /\ pc' = "done" /\ UNCHANGED src

PageMoves ==
    LET n    == Len(stack)
        tags == stack[n].tags
        past == [stack EXCEPT ![n].tags = Tail(@)]
        q    == IncludePath(Head(tags), stack[n].path)
    IN  /\ pc = "ssi"
        /\ stack # <<>>
        /\ \/ tags = <<>> /\ stack' = Front(stack)
           \/ tags # <<>> /\ stack' = past
           \/ /\ tags # <<>> /\ Head(tags).do = "include" /\ mg_stat(q)
              /\ stack' = Append(past, Page(q))

Fairness == WF_<<src, pc>>(UriMoves) /\ WF_stack(PageMoves)

FairSpec == Spec /\ Fairness

----------------------------------------------------------------------------
(* Whatever the URI decodes to, bytes left over from an earlier use of the *)
(* buffer included, no step of the walk along the path leaves web_root:    *)
(* remove_double_dots leaves nothing that goes up.                         *)
PathConfined ==
    pc \in {"serve", "ssi", "done"} =>
        \A i \in DOMAIN Names(path) :
            LET at == FoldLeft(Enter, <<>>, SubSeq(Names(path), 1, i))
            IN  at = Nowhere \/ (at # <<>> /\ Head(Head(at)) = "R")

Entries ==
    IF "chunks" \in DOMAIN reply
    THEN {chunk \in Range(reply.chunks) : chunk.is = "entry"}
    ELSE {}

(* A password file is neither sent, nor run, nor named in a listing, by    *)
(* whatever spelling of its path it is asked for.                          *)
HiddenNeverServed ==
    LET Shown == (IF "node" \in DOMAIN reply THEN {reply.node} ELSE {})
                 \union (IF "cgi" \in DOMAIN reply THEN {reply.cgi} ELSE {})
                 \union {e.node : e \in Entries}
    IN  \A n \in Shown : Last(n) # opts.per_directory_auth_file

(* What remove_double_dots makes of a text, as a function. *)
RECURSIVE Undotted(_, _)
Undotted(s, slash) ==
    IF s = <<>> THEN <<>>
    ELSE IF slash /\ Slash(Head(s)) THEN Undotted(Tail(s), TRUE)
    ELSE IF slash /\ Len(s) > 1 /\ s[1] = "." /\ s[2] = "."
    THEN Undotted(SubSeq(s, 3, Len(s)), TRUE)
    ELSE <<Head(s)>> \o Undotted(Tail(s), Slash(Head(s)))

(* Every link of a listing leads to the entry it is shown for: resolved    *)
(* against a URI without escapes, decoded and rid of its double dots, it   *)
(* is the path of that file.                                               *)
LinksLead ==
    (\A i \in DOMAIN req.uri : req.uri[i] \notin {"%", "%2e", "%2f", "%00"}) =>
        \A e \in Entries :
            LET uri == DirName(req.uri) \o e.href
            IN  Resolve(document_root \o Undotted(mg_url_decode(uri, <<"x">>), FALSE)) = e.node

(* The type the table has for what follows the last dot of a name. *)
TypeOf(name) ==
    LET Dots == {i \in DOMAIN name : name[i] = "."}
        ext  == SubSeq(name, Max(Dots) + 1, Len(name))
        Rows == {row \in Range(static_builtin_mime_types) : mg_casecmp(row.extension, ext)}
    IN  IF Dots = {} \/ Rows = {} THEN "text/plain" ELSE (CHOOSE row \in Rows : TRUE).mime_type

(* A client can tell where a reply ends, and what is announced is what is  *)
(* sent: as many bytes as Content-Length says, all of them inside the      *)
(* file, and a part only when that part was asked for; or chunks of which  *)
(* only the last is empty; or the connection is closed behind it.  The     *)
(* type is that of the file, by whatever path it was found.                *)
RepliesHonest ==
    pc = "done" =>
        /\ {"cl", "chunks", "drain", "cgi"} \intersect DOMAIN reply # {}
        /\ "cl" \in DOMAIN reply => reply.sent = reply.cl
        /\ "type" \in DOMAIN reply => reply.type = TypeOf(Last(reply.node))
        /\ "chunks" \in DOMAIN reply => \A i \in DOMAIN reply.chunks :
               reply.chunks[i].is = "empty" <=> i = Len(reply.chunks)
        /\ (reply.code = 200 /\ "cl" \in DOMAIN reply) =>
               reply.from = 0 /\ reply.cl = file.size
        /\ reply.code = 206 =>
               /\ reply.cl > 0
               /\ reply.from = req.range[1]
               /\ reply.from + reply.cl - 1 =
                      IF Len(req.range) > 1 THEN req.range[2] ELSE file.size - 1
        /\ reply.code = 416 => \A b \in 0..file.size - 1 :
               ~(b = req.range[1] /\ (Len(req.range) > 1 => req.range[2] \in b..file.size - 1))

(* The calendar, counted year by year; an unknown month is time 0. *)
Leap(y) == y % 4 = 0 /\ (y % 100 # 0 \/ y % 400 = 0)
Early(d) == d.month \in {"Jan", "Feb"}
DaysOf(d) ==
    LET month == SelectInSeq(month_names, LAMBDA name : name = d.month)
        YearLength(y) == IF Leap(y) THEN 366 ELSE 365
        years[y \in 1970..d.year] ==
            IF y = 1970 THEN 0 ELSE years[y - 1] + YearLength(y - 1)
    IN  IF month = 0 THEN 0
        ELSE years[d.year] + days_before_month[month] + d.day - 1
             + (IF Leap(d.year) /\ ~Early(d) THEN 1 ELSE 0)

(* 304 is answered only to a client whose copy is current: its tag is the  *)
(* file's, or the file has not changed since the client's date.  In the    *)
(* January and February of a leap year mg_parse_date_string is a day late, *)
(* and so may the answer be.                                               *)
NotModifiedSound ==
    (pc = "done" /\ reply.code = 304) =>
        \/ req.inm = <<file.mtime, file.size>>
        \/ /\ req.inm = <<>> /\ req.ims # <<>>
           /\ LET d == req.ims[1]
              IN  file.mtime <= DaysOf(d) + (IF Leap(d.year) /\ Early(d) THEN 1 ELSE 0)

(* Every request is answered: the loops over the URI end, and pages that   *)
(* include each other or themselves stop at the deepest level.             *)
ServeEnds == <>(pc = "done")
=============================================================================
