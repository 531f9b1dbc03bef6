----------------------------- MODULE MCSession ------------------------------
(***************************************************************************)
(* A consumer in one environment, an event published in another; a public  *)
(* topic, and another user's topic whose row an operator makes public.     *)
(* Two subscribe or unsubscribe frames, one database error.                *)
(***************************************************************************)
EXTENDS Session, TLC

CONSTANTS bob, dev, prod

Orders == [head |-> "orders", ident |-> NoIdent]
UserAlice == [head |-> "user", ident |-> "alice"]

Consumer(env, user) ==
    [environment |-> env, user_id |-> user, organization_id |-> "acme",
     project_ids |-> {}, system_read |-> FALSE, operator |-> FALSE,
     topic_patterns |-> {}]

MCTopics == {Orders, UserAlice}
MCGrantOf == bob :> Consumer(prod, "bob")
MCRows == [k \in Envs \X TopicNames |-> IF k[2] = Orders THEN "public" ELSE "none"]
MCEdits == {[env |-> prod, topic |-> UserAlice, visibility |-> "public"]}
MCPublished == {[env |-> dev, topic |-> Orders]}
=============================================================================
