--------------------------- MODULE MCStaticFiles ---------------------------
(* A small web_root, and the requests made of it. *)
EXTENDS StaticFiles

Node(dir, tags) == [dir |-> dir, tags |-> tags]
Include(by, name) == [do |-> "include", by |-> by, name |-> name]
R == document_root

(* d has an index and a password file, e has neither, s includes itself    *)
(* twice, d's page includes its neighbour and files that are not there.    *)
MCFiles ==
    << >> :> Node(TRUE, <<>>) @@ <<<<"x">>>> :> Node(FALSE, <<>>)
    @@ <<R>> :> Node(TRUE, <<>>) @@ <<R, <<"f">>>> :> Node(FALSE, <<>>)
    @@ <<R, <<"h">>>> :> Node(FALSE, <<>>) @@ <<R, <<"c", ".", "c">>>> :> Node(FALSE, <<>>)
    @@ <<R, <<"f", ".", "G">>>> :> Node(FALSE, <<>>)
    @@ <<R, <<"s", ".", "s">>>> :>
           Node(FALSE, <<Include("file", <<"s", ".", "s">>), [do |-> "text"],
                         Include("virtual", <<"s", ".", "s">>)>>)
    @@ <<R, <<"d">>>> :> Node(TRUE, <<>>)
    @@ <<R, <<"d">>, <<"i", ".", "s">>>> :>
           Node(FALSE, <<Include("file", <<"n">>), Include("abspath", <<"x">>),
                         [do |-> "call"], [do |-> "exec", cmd |-> <<>>],
                         [do |-> "exec", cmd |-> <<"x">>], Include("virtual", <<"d", "/", "i", ".", "s">>)>>)
    @@ <<R, <<"d">>, <<"h">>>> :> Node(FALSE, <<>>)
    @@ <<R, <<"e">>>> :> Node(TRUE, <<>>)
    @@ <<R, <<"e">>, <<"h">>>> :> Node(FALSE, <<>>)
    @@ <<R, <<"e">>, <<"f">>>> :> Node(FALSE, <<>>)
    @@ <<R, <<"e">>, <<".", "w", "l">>>> :> Node(FALSE, <<>>)
    @@ <<R, <<"e">>, <<"%", "f">>>> :> Node(FALSE, <<>>)
    @@ <<R, <<"e">>, <<"<", " ">>>> :> Node(TRUE, <<>>)

Symbols == {"/", "\\", ".", "%2e", "%2f", "%00", "%", "f", "h", "s", "c", "d", "e"}
Dotty == {"/", "\\", ".", "%2e", "%2f"}

SeqsUpTo(S, n) == UNION {[1..k -> S] : k \in 0..n}

Uris ==
    {<<"/">> \o s : s \in SeqsUpTo(Symbols, 3) \union [1..4 -> Dotty]}
    \union SeqsUpTo(Symbols, 2)
    \union {<<"/", "f", ".", "G">>, <<"/", "e", "/", ".", "w", "l">>,
            <<"/", "d", "/", "i", ".", "s">>, <<"/", "s", "%2e", "s">>}

Get(uri) == [method |-> "GET", uri |-> uri, inm |-> <<>>, ims |-> <<>>, range |-> <<>>]

Date(y, m, d) == [year |-> y, month |-> m, day |-> d]
Dates == {Date(1970, "Mar", 1), Date(1971, "Jan", 1), Date(2015, "Dec", 31),
          Date(2016, "Feb", 28), Date(2016, "Mar", 1), Date(2017, "Jan", 1),
          Date(2017, "jan", 1), Date(2101, "Feb", 1)}

MCTimes == {0} \union {DaysOf(d) : d \in Dates} \union {DaysOf(d) + 1 : d \in Dates}

OfFile == {[Get(<<"/", "f">>) EXCEPT !.range = r] :
              r \in {<<a>> : a \in -1..4} \union {<<a, b>> : a, b \in -1..4}}
    \union {[Get(<<"/", "f">>) EXCEPT !.ims = <<d>>] : d \in Dates}
    \union {[Get(<<"/", "f">>) EXCEPT !.inm = <<t, 3>>, !.ims = <<Date(2017, "Jan", 1)>>] : t \in {0, 365}}
    \union {[Get(<<"/", "f">>) EXCEPT !.method = m] : m \in {"PUT", "OPTIONS", "POST"}}

MCRequest == {Get(u) : u \in Uris} \union OfFile

(* The dates matter to the requests that ask for a file; the others see    *)
(* one file.                                                               *)
MCInit == Init /\ (req.uri # <<"/", "f">> => file = [size |-> 3, mtime |-> 0])
MCSpec == MCInit /\ [][Next]_vars /\ Fairness

MCStale == {<<>>, <<"/", ".", ".">>, <<".", ".", "/">>}
=============================================================================
