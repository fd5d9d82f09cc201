---------------------------- MODULE MCDocuments ----------------------------
(* Small instances of the parts of the document routes and of the services *)
(* beside them that keep state of their own. `part` says which of them a   *)
(* behaviour is about; the others rest.                                    *)
EXTENDS HtmlRegistry, Comments, DocLists, DecisionCards, OctoMembership, Migrations, TLC

CONSTANTS b1, b2, b3, h, s1, s2, x1, x2, c1, c2, c3, d1, admin, tom, r1, r2, r3, a1, a2, a3, k1, k2

VARIABLE part

\* Two bots of one human and space, and one of another space.
ThreeBots == {b1, b2, b3}
OneHuman == {h}
OneSlug == {x1}
TwoSpaces == {s1, s2}
TwoIds == {x1, x2}
ThreeCalls == {c1, c2, c3}
BotSpaces == [b \in ThreeBots |-> IF b = b3 THEN s2 ELSE s1]
BotHumans == [b \in ThreeBots |-> IF b = b2 THEN None ELSE h]

OneDoc == {d1}
Writers == {admin, tom}
RolesOfWriters == [u \in Writers |-> IF u = admin THEN "admin" ELSE "commenter"]
ThreeRequests == {r1, r2, r3}

\* Two documents of one space, the user's own among them, and one elsewhere.
ThreeDocuments == 1..3
TwoHomes == <<s1, s1, s2>>
OwnDocuments == {1}
BotDocuments == {2}

\* Three people on the cards, two who ask for a membership, two deploys that share their
\* first file.
ThreePeople == {a1, a2, a3}
TwoCalls == {c1, c2}
TwoDeploys == {k1, k2}
TwoReleases == (k1 :> <<1, 0, 1>>) @@ (k2 :> <<1, 1, 2>>)

MCInit ==
    /\ part \in {"registry", "comments", "lists", "cards", "mentions", "membership", "migrations"}
    /\ inSpaces \in IF part = "lists" THEN SUBSET SpaceSet ELSE {{}}
    /\ deciders \in IF part = "cards" THEN SUBSET (People \ {Owner}) ELSE {{}}
    /\ isMember \in IF part = "membership" THEN BOOLEAN ELSE {TRUE}
    /\ RegistryInit /\ CommentsInit /\ ListsInit
    /\ CardsInit /\ MembershipInit /\ MigrationsInit

MCNext ==
    /\ UNCHANGED part
    /\ \/ /\ part = "registry" /\ RegistryNext
          /\ UNCHANGED <<commentVars, listVars, cardVars, membershipVars, migrationVars>>
       \/ /\ part = "comments" /\ CommentsNext
          /\ UNCHANGED <<registryVars, listVars, cardVars, membershipVars, migrationVars>>
       \/ /\ part = "lists" /\ ListsNext
          /\ UNCHANGED <<registryVars, commentVars, cardVars, membershipVars, migrationVars>>
       \/ /\ \/ part = "cards" /\ CardsNext
             \/ part = "mentions" /\ MentionsNext
          /\ UNCHANGED <<registryVars, commentVars, listVars, membershipVars, migrationVars>>
       \/ /\ part = "membership" /\ MembershipNext
          /\ UNCHANGED <<registryVars, commentVars, listVars, cardVars, migrationVars>>
       \/ /\ part = "migrations" /\ MigrationsNext
          /\ UNCHANGED <<registryVars, commentVars, listVars, cardVars, membershipVars>>

MCSpec == MCInit /\ [][MCNext]_<<part, registryVars, commentVars, listVars,
                                  cardVars, membershipVars, migrationVars>>

(* Calls to other services that nobody waits for or repeats leave nothing  *)
(* false behind: a card tells the outcome, a mention reaches readers only, *)
(* an outage is no answer about a membership, and a release starts on a    *)
(* schema that holds its files in order (DecisionCards, OctoMembership and *)
(* Migrations say each of them).                                           *)
ServicesExact ==
    /\ CardsTellTheOutcome /\ MentionsReach
    /\ MembershipFresh
    /\ MigrationsInOrder
=============================================================================
