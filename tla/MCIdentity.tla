------------------------------ MODULE MCIdentity ------------------------------
(***************************************************************************)
(* Small instance of authentication and FITs: two requests at one          *)
(* provider, or one whose FIT differs from a good one in a single claim.   *)
(***************************************************************************)
EXTENDS Identity, TLC

CONSTANTS r1, r2, k1, k2, u1, u2  \* two requests, two keys, two clients
CONSTANTS Here, Elsewhere, Mine, Other, Good, Bad, This, That
  \* two servers, two investigations, two issuers, two tools

Pattern(name, sound) == [names |-> name, sound |-> sound]
GoodFit ==
  [typ |-> "FIT+JWT", issuer |-> Good, genuine |-> TRUE, complete |-> TRUE, from |-> 1,
   until |-> 2, aud |-> Here, jti |-> 0, investigation |-> Mine,
   tools |-> <<Pattern(This, TRUE)>>, analyst |-> u1, kinds |-> {"agent_supervised"},
   malformed |-> {}]

Claims(claim) ==
  CASE claim = "typ" -> {"JWT"}
    [] claim = "issuer" -> {None, Bad}
    [] claim \in {"genuine", "complete"} -> {FALSE}
    [] claim = "from" -> {3}
    [] claim = "until" -> {0}
    [] claim = "aud" -> {None, Elsewhere}
    [] claim = "investigation" -> {None, Other}
    [] claim = "tools" -> {<< >>, <<Pattern(That, TRUE)>>, <<Pattern(None, FALSE)>>,
                           <<Pattern(AnyTool, TRUE), Pattern(None, FALSE)>>}
    [] claim = "analyst" -> {None, u2}
    [] claim = "kinds" -> {{}, {"human"}}
    [] claim = "malformed" -> {{"issuer"}, {"tools"}, {"kinds"}, {"until"}}
Fits == {GoodFit} \cup {claim :> value @@ GoodFit : <<claim, value>> \in
           UNION {{c} \X Claims(c) : c \in DOMAIN GoodFit \ {"jti"}}}

Credential(key, until) == [key |-> key, until |-> until, subject |-> u1]
Plain ==
  [credential |-> Credential(None, 0), tool |-> This, investigation |-> None, server |-> Here,
   trusted |-> {Good}, enforce |-> FALSE, fit |-> None]
Presents(credential) == [Plain EXCEPT !.credential = credential]

TwoClients ==
  {(r1 :> Presents(Credential(k, 2))) @@ (r2 :> Presents(Credential(l, 5))) :
     k \in {k1, k2}, l \in {None, k1}}
OneFit(fits) ==
  {(r1 :> [Presents(Credential(k1, 2)) EXCEPT !.fit = fit, !.investigation = investigation,
                                              !.server = server, !.trusted = trusted,
                                              !.enforce = enforce]) @@ (r2 :> Plain) :
     fit \in {None} \cup fits, investigation \in {None, Mine}, server \in {None, Here},
     trusted \in {{}, {Good}}, enforce \in BOOLEAN}

OneAnalyst(subject) ==
  {[e EXCEPT ![r1].credential.subject = subject] :
     e \in {f \in OneFit({[GoodFit EXCEPT !.analyst = a] : a \in {None, u1, u2}}) :
             f[r1].enforce /\ f[r1].investigation = Mine}}

MCInit ==
  /\ \/ /\ mode \in {"token", "oauth"} /\ envelope \in TwoClients /\ file = EmptyStore
     \/ /\ mode = "apikey" /\ envelope \in TwoClients /\ file \in Contents
     \/ /\ mode = "none" /\ envelope \in OneFit(Fits) /\ file = EmptyStore
     \/ /\ mode = "oauth" /\ file = EmptyStore
        /\ envelope \in UNION {OneAnalyst(subject) : subject \in {u1, "local"}}
  /\ served = {k1}
  /\ Start
MCSpec == MCInit /\ [][Next]_vars
=============================================================================
