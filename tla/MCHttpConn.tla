----------------------------- MODULE MCHttpConn -----------------------------
(***************************************************************************)
(* HttpConn for TLC: the requests clients send.  The last three announce   *)
(* another body than they come with.                                       *)
(***************************************************************************)
EXTENDS HttpConn

Req(l, h, b) == [line |-> l, headers |-> h, body |-> b]

MCRequests == { Req("get", <<"keep">>, <<>>),
                Req("get", <<"other", "other">>, <<>>),
                Req("post", <<"len2">>, <<"b", "b">>),
                Req("post", <<"len1", "keep">>, <<"b">>),
                Req("empty", <<>>, <<>>),
                Req("missing", <<>>, <<>>),
                Req("dir", <<"keep">>, <<>>),
                Req("junk", <<>>, <<>>),
                Req("post", <<"minus">>, <<"b">>),
                Req("get", <<"len1", "keep">>, <<"b", "b">>),
                Req("post", <<"len2">>, <<"b">>) }
=============================================================================
