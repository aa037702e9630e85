------------------------------ MODULE MCGuard ------------------------------
(***************************************************************************)
(* Source s1 with its own cluster, host, VM and interface; s1 and s2 in a   *)
(* cluster of nobody's; and s1 about to be created.                        *)
(***************************************************************************)
EXTENDS Guard, TLC

CONSTANTS p1, p2, i1, i2
Interchangeable == Permutations({p1, p2}) \cup Permutations({i1, i2})

MCKind == [k1 |-> "cluster", k2 |-> "cluster", d1 |-> "device", v1 |-> "vm", v2 |-> "vm", n1 |-> "nic", n2 |-> "nic"]
I1 == <<"s1", "old">>
I2 == <<"s2", "x">>
I3 == <<"s1", "new">>
Obj(c, up, ids) == [cluster |-> c, up |-> up, ids |-> ids, text |-> 0, age |-> 1]
Claim(s, c) == [source |-> s, cluster |-> c, age |-> 1]
Wish(n, s, kind, c, up, place) == [nonce |-> n, source |-> s, kind |-> kind, cluster |-> c, up |-> up, ids |-> {}, place |-> place]
NewNic == Wish("1", "s1", "nic", None, "v1", "k1")
NewVM == [Wish("2", "s1", "vm", "k1", None, "k1") EXCEPT !.ids = {I1}]
OtherNic == Wish("1", "s2", "nic", None, "v1", "k1")
MCRequests == {NewNic, NewVM, OtherNic}
Put(f) == [o \in DOMAIN MCKind |-> IF o \in DOMAIN f THEN f[o] ELSE None]
World(objs, claims) == [objs |-> Put(objs), claims |-> Put(claims), asks |-> {}, posts |-> 0, reviews |-> 2, edits |-> 1,
                        tools |-> {}, others |-> {}, tags |-> {}, arrivals |-> <<>>]
Own == [k1 |-> Obj(None, None, {}), d1 |-> Obj("k1", None, {I1}), v1 |-> Obj("k1", "d1", {I1}), n1 |-> Obj(None, "v1", {})]
OwnClaims == [k1 |-> Claim("s1", "k1"), d1 |-> Claim("s1", "k1"), v1 |-> Claim("s1", "k1"), n1 |-> Claim("s1", "k1")]
SharedObjs == [k1 |-> Obj(None, None, {}), k2 |-> Obj(None, None, {}), v1 |-> Obj("k1", None, {I1}), n1 |-> Obj(None, "v1", {})]
SharedClaims == [v1 |-> Claim("s1", "k1"), n1 |-> Claim("s1", "k1")]
MCWorlds ==
  [none |-> World(<<>>, <<>>),
   own |-> [World(Own, OwnClaims) EXCEPT !.asks = {NewNic}, !.posts = 1, !.tools = {"retire", "retire_source"}, !.edits = 2,
                                         !.others = {"write", "delete"}, !.arrivals = [v1 |-> Own.v1, n1 |-> Own.n1]],
   shared |-> [World(SharedObjs, SharedClaims) EXCEPT !.asks = {NewNic, OtherNic}, !.posts = 2, !.tools = {"retire_source", "archive"},
                                                  !.others = {"tag", "move", "bind", "revoke"}, !.tags = {I2}],
   replaced |-> [World(SharedObjs, SharedClaims) EXCEPT !.asks = {NewVM}, !.posts = 1, !.tools = {"replace", "archive"},
                                                    !.reviews = 3, !.others = {"write", "delete", "tag"}, !.tags = {I3}]]
=============================================================================
