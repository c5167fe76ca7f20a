----------------------------- MODULE MCVtabBridge -----------------------------
(* Small instances of VtabBridge for TLC. *)
EXTENDS VtabBridge

CONSTANTS p1, p2, p3, t1, t2, t3

MCPaths   == {p1, p2, p3}
MCTables  == {t1, t2, t3}
MCEngines == 1..3

Doc(node, terms, text, cosine) ==
    [node |-> node, terms |-> terms, text |-> text, cosine |-> cosine]

(* A shard with more documents than it may list, one document in it twice, *)
(* one that scores nothing, one that only a vector search can find.       *)
Stored == << <<Doc(1, <<1>>, 2, 0), Doc(2, <<1, 2>>, 1, 2), Doc(3, <<2, 1>>, 3, -1),
               Doc(1, <<2>>, 1, 1)>>,
             <<Doc(4, <<1, 2, 1>>, 2, 1), Doc(5, <<>>, 0, 2)>>,
             <<Doc(6, <<2>>, 1, 3), Doc(7, <<>>, 0, 0)>> >>

(* All of it, nothing, a shard without documents, and parts of it. *)
Collections == {Stored,
                << <<>>, <<>>, <<>> >>,
                << <<>>, Stored[2], Stored[3] >>,
                << <<Stored[1][3], Stored[1][2]>>, Stored[2], <<>> >>,
                << <<Stored[1][1], Stored[1][2]>>, <<>>, Stored[3] >>,
                << <<Stored[1][1], Stored[1][2], Stored[1][3]>>, Stored[2], Stored[3] >>,
                << <<Stored[1][2], Stored[1][1]>>, <<Stored[2][1]>>, Stored[3] >> }

Query(terms, phrase, text, vector) ==
    [terms |-> terms, is_phrase |-> phrase, use_text |-> text, use_vector |-> vector]

ProgramQueries == {Query(<<>>, FALSE, TRUE, FALSE), Query(<<>>, FALSE, FALSE, TRUE),
                   Query(<<>>, FALSE, TRUE, TRUE), Query(<<1, 2>>, FALSE, TRUE, TRUE),
                   Query(<<1>>, FALSE, TRUE, FALSE), Query(<<1, 2>>, FALSE, TRUE, FALSE),
                   Query(<<1, 2>>, TRUE, TRUE, FALSE)}

MCTableSearches   == {[query |-> Query(<<1, 2>>, TRUE, TRUE, FALSE), docs |-> Stored]}
MCSearches        == [query : ProgramQueries, docs : Collections]
===============================================================================
