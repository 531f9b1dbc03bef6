-------------------------------- MODULE Shell --------------------------------
(***************************************************************************)
(* The beacn command in a few terminals of one operator (cli/): a command  *)
(* reads the credentials file, sends at most one request and exits; login  *)
(* writes the file and logout removes it.  The sign-in sessions are rows   *)
(* of the server (routes/api/control.py, cli_login and cli_logout).        *)
(*                                                                         *)
(* The file is read, emptied and written in steps, answers are lost, a     *)
(* request may be handled after its command gave it up, and a command may  *)
(* be interrupted anywhere.                                                *)
(***************************************************************************)
EXTENDS Naturals, FiniteSets

CONSTANTS Terminals,
          Runs,          \* [Terminals -> SUBSET Commands]: what each one runs
          Given,         \* BEACN_TOKEN: [Terminals -> Tokens \cup {NoToken}]
          KeySet,        \* the terminals with BEACN_API_KEY
          Tokens, First, \* sessions there will be, the one there is
          NoToken, Garbled,
          MaxCommands    \* bound: commands run, [Terminals -> Nat]

ASSUME ShellAssumption ==
    /\ First \in Tokens /\ NoToken \notin Tokens /\ Garbled \notin Tokens \cup {NoToken}
    /\ Given \in [Terminals -> Tokens \cup {NoToken}]
    /\ MaxCommands \in [Terminals -> Nat]

VARIABLES creds,         \* credentials.json: a token, NoToken or Garbled
          terms,         \* each terminal's command
          cliRows,       \* the UserSession rows of kind cli
          enabled,       \* the operator's account
          late,          \* requests whose command no longer waits
          excused        \* history: sessions lost with a reason

shellVars == <<creds, terms, cliRows, enabled, late, excused>>

ApiCommands == {"logout", "whoami", "producer create", "producer list", "key create",
                "key list", "key revoke", "topic list"}
KeyCommands == {"events publish", "events inspect", "events replay"}
LocalCommands == {"migrate", "doctor", "work", "user create", "user list", "user show",
                  "user password", "user disable", "user enable", "user role"}
Commands == {"login", "serve", "events tail"} \cup ApiCommands \cup KeyCommands \cup LocalCommands

AtPrompt(left) ==
    [pc |-> "prompt", cmd |-> "serve", token |-> NoToken, ok |-> FALSE, left |-> left]

ShellInit ==
    /\ creds \in {First, NoToken}
    /\ terms = [t \in Terminals |-> AtPrompt(MaxCommands[t])]
    /\ cliRows = [s \in Tokens |-> IF s = First THEN "live" ELSE "none"]
    /\ enabled = TRUE /\ late = {}
    /\ excused = {First} \ {creds}     \* signed in elsewhere

-----------------------------------------------------------------------------
(* Starting a command.                                                     *)

Ready(t, cmd) == terms[t].pc = "prompt" /\ terms[t].left > 0 /\ cmd \in Runs[t]

Start(t, cmd, token, pc) ==
    terms' = [terms EXCEPT ![t] = [pc |-> pc, cmd |-> cmd, token |-> token,
                                   ok |-> FALSE, left |-> @.left - 1]]

ClientOnly == UNCHANGED <<creds, cliRows, enabled, late, excused>>
Exit(t) == terms' = [terms EXCEPT ![t] = AtPrompt(@.left)]
Proceed(t, pc) == terms' = [terms EXCEPT ![t].pc = pc]

\* A file that is not there, or holds no JSON, is no token.
LoadToken == IF creds \in Tokens THEN creds ELSE NoToken

ApiToken(t) == IF Given[t] # NoToken THEN Given[t] ELSE LoadToken

\* Without a token the command says so and exits.
Api(t, cmd) ==
    /\ Ready(t, cmd)
    /\ Start(t, cmd, ApiToken(t), IF ApiToken(t) = NoToken THEN "prompt" ELSE "request")
    /\ ClientOnly

Whoami(t) == Api(t, "whoami")
ProducerCreate(t) == Api(t, "producer create")
ProducerList(t) == Api(t, "producer list")
KeyCreate(t) == Api(t, "key create")
KeyList(t) == Api(t, "key list")
KeyRevoke(t) == Api(t, "key revoke")
TopicList(t) == Api(t, "topic list")

\* Mutant: the file is removed before the server is asked.
SignOutClearsFirst(t) ==
    /\ Ready(t, "logout")
    /\ Start(t, "logout", ApiToken(t), IF ApiToken(t) = NoToken THEN "prompt" ELSE "request")
    /\ creds' = NoToken
    /\ UNCHANGED <<cliRows, enabled, late, excused>>

SignOut(t) == Api(t, "logout")

\* The password is asked for first.
SignIn(t) == Ready(t, "login") /\ Start(t, "login", NoToken, "request") /\ ClientOnly

\* These use BEACN_API_KEY, not the file.
KeyClient(t, cmd, pc) ==
    /\ Ready(t, cmd)
    /\ Start(t, cmd, NoToken, IF t \in KeySet THEN pc ELSE "prompt")
    /\ ClientOnly

EventsPublish(t) == KeyClient(t, "events publish", "request")
EventsInspect(t) == KeyClient(t, "events inspect", "request")
EventsReplay(t) == KeyClient(t, "events replay", "request")
EventsTail(t) == KeyClient(t, "events tail", "runs")
Serve(t) == Ready(t, "serve") /\ Start(t, "serve", NoToken, "runs") /\ ClientOnly

\* With a database connection of its own.
Local(t, cmd) == Ready(t, cmd) /\ Start(t, cmd, NoToken, "local") /\ ClientOnly

Migrate(t) == Local(t, "migrate")
Doctor(t) == Local(t, "doctor")
Work(t) == Local(t, "work")
UserCreate(t) == Local(t, "user create")
UserList(t) == Local(t, "user list")
UserShow(t) == Local(t, "user show")
UserPassword(t) == Local(t, "user password")
UserRole(t) == Local(t, "user role")
UserSetActive(t, cmd) == cmd \in {"user disable", "user enable"} /\ Local(t, cmd)

\* The account's flag, and no more: its sessions keep their rows.
LocalDone(t) ==
    /\ terms[t].pc = "local"
    /\ \/ terms[t].cmd = "user disable" /\ enabled' = FALSE
       \/ terms[t].cmd = "user enable" /\ enabled' = TRUE
       \/ UNCHANGED enabled                  \* any other, or a CliError
    /\ Exit(t)
    /\ UNCHANGED <<creds, cliRows, late, excused>>

-----------------------------------------------------------------------------
(* The server.                                                             *)

Signed(token) == token \in Tokens /\ cliRows[token] = "live" /\ enabled

Asked(t, cmds) == terms[t].pc = "request" /\ terms[t].cmd \in cmds
Becomes(t, pc, token, ok) ==
    terms' = [terms EXCEPT ![t] = [pc |-> pc, cmd |-> @.cmd, token |-> token,
                                   ok |-> ok, left |-> @.left]]
Answers(t, ok) == Becomes(t, "answer", terms[t].token, ok)

\* Permission denied, no such row, a limit: any command may be refused.
ServeCommand(t) ==
    /\ Asked(t, (ApiCommands \ {"logout"}) \cup KeyCommands)
    /\ \E ok \in BOOLEAN :
          /\ ok => terms[t].cmd \in KeyCommands \/ Signed(terms[t].token)
          /\ Answers(t, ok)
    /\ ClientOnly

\* cli_login, for which the password may be wrong.
ServeLogin(t) ==
    /\ Asked(t, {"login"})
    /\ \/ \E s \in Tokens :
             /\ enabled /\ cliRows[s] = "none"
             /\ cliRows' = [cliRows EXCEPT ![s] = "live"]
             /\ Becomes(t, "answer", s, TRUE)
       \/ Answers(t, FALSE) /\ UNCHANGED cliRows
    /\ UNCHANGED <<creds, enabled, late, excused>>

Revoked(token) == [cliRows EXCEPT ![token] = IF @ = "live" THEN "revoked" ELSE @]

\* cli_logout, or an answer that comes from before it.
ServeLogout(t) ==
    /\ Asked(t, {"logout"})
    /\ \/ /\ Signed(terms[t].token)
          /\ cliRows' = Revoked(terms[t].token) /\ Answers(t, TRUE)
       \/ UNCHANGED cliRows /\ Answers(t, FALSE)
    /\ UNCHANGED <<creds, enabled, late, excused>>

Asking(t) == [cmd |-> terms[t].cmd, token |-> terms[t].token]

\* What has become of a request its command no longer waits for.
Abandoned(t) ==
    /\ late' \in IF Asked(t, {"login", "logout"}) THEN {late, late \cup {Asking(t)}} ELSE {late}
    /\ excused' = IF terms[t].cmd = "login" THEN excused \cup {terms[t].token} ELSE excused

ServeLate(a) ==
    /\ late' = late \ {a}
    /\ \/ /\ a.cmd = "logout" /\ Signed(a.token)
          /\ cliRows' = Revoked(a.token) /\ UNCHANGED excused
       \/ \E s \in Tokens :
             /\ a.cmd = "login" /\ enabled /\ cliRows[s] = "none"
             /\ cliRows' = [cliRows EXCEPT ![s] = "live"]
             /\ excused' = excused \cup {s}
       \/ UNCHANGED <<cliRows, excused>>
    /\ UNCHANGED <<creds, terms, enabled>>

-----------------------------------------------------------------------------
(* What the command does with the answer.                                  *)

Answered(t, cmds) == terms[t].pc = "answer" /\ terms[t].cmd \in cmds

\* Done, or the error is printed.
CommandDone(t) ==
    /\ Answered(t, (ApiCommands \ {"logout"}) \cup KeyCommands)
    /\ Exit(t) /\ ClientOnly

SignInAnswered(t) ==
    /\ Answered(t, {"login"})
    /\ IF terms[t].ok THEN Proceed(t, "truncate") ELSE Exit(t)
    /\ ClientOnly

\* Any CliError is passed over.
SignOutAnswered(t) == Answered(t, {"logout"}) /\ Proceed(t, "clear") /\ ClientOnly

\* write_text opens the file for writing, which empties it ...
Truncate(t) ==
    /\ terms[t].pc = "truncate"
    /\ creds' = Garbled
    /\ excused' = excused \cup {LoadToken}
    /\ Proceed(t, "write")
    /\ UNCHANGED <<cliRows, enabled, late>>

\* ... and then writes.  On top of what another login wrote in the meantime it
\* may leave the tail of it.
WriteToken(t) ==
    /\ terms[t].pc = "write"
    /\ creds' \in IF creds \in Tokens THEN {terms[t].token, Garbled} ELSE {terms[t].token}
    /\ excused' = excused \cup IF creds \in Tokens THEN {creds, terms[t].token} ELSE {}
    /\ Exit(t)
    /\ UNCHANGED <<cliRows, enabled, late>>

\* "Signed out." whatever the server said, and whosever the file is by now.
ClearToken(t) ==
    /\ terms[t].pc = "clear"
    /\ creds' = NoToken
    /\ excused' = IF terms[t].ok /\ terms[t].token = LoadToken THEN excused
                  ELSE excused \cup {LoadToken}
    /\ Exit(t)
    /\ UNCHANGED <<cliRows, enabled, late>>

\* httpx.HTTPError, a traceback for the commands that do not catch it.
Unanswered(t) ==
    /\ terms[t].pc \in {"request", "answer"}
    /\ Abandoned(t)
    /\ IF terms[t].cmd = "logout"
       THEN Becomes(t, "clear", terms[t].token, FALSE)
       ELSE Exit(t)
    /\ UNCHANGED <<creds, cliRows, enabled>>

Interrupt(t) ==
    /\ terms[t].pc # "prompt"
    /\ Abandoned(t) /\ Exit(t)
    /\ UNCHANGED <<creds, cliRows, enabled>>

-----------------------------------------------------------------------------
OneRequest(t) ==
    \/ Whoami(t) \/ ProducerCreate(t) \/ ProducerList(t) \/ KeyCreate(t)
    \/ KeyList(t) \/ KeyRevoke(t) \/ TopicList(t) \/ SignOut(t) \/ SignIn(t)
    \/ EventsPublish(t) \/ EventsInspect(t) \/ EventsReplay(t)

NoRequest(t) ==
    \/ EventsTail(t) \/ Serve(t) \/ Migrate(t) \/ Doctor(t) \/ Work(t)
    \/ UserCreate(t) \/ UserList(t) \/ UserShow(t) \/ UserPassword(t) \/ UserRole(t)
    \/ \E cmd \in LocalCommands : UserSetActive(t, cmd)
    \/ LocalDone(t)

ServerStep(t) == ServeCommand(t) \/ ServeLogin(t) \/ ServeLogout(t)

ClientStep(t) ==
    \/ CommandDone(t) \/ SignInAnswered(t) \/ SignOutAnswered(t)
    \/ Truncate(t) \/ WriteToken(t) \/ ClearToken(t)
    \/ Unanswered(t) \/ Interrupt(t)

ShellNext ==
    \/ \E t \in Terminals : OneRequest(t) \/ NoRequest(t) \/ ServerStep(t) \/ ClientStep(t)
    \/ \E a \in late : ServeLate(a)

-----------------------------------------------------------------------------
ShellTypeOK ==
    /\ creds \in Tokens \cup {NoToken, Garbled}
    /\ cliRows \in [Tokens -> {"none", "live", "revoked"}]
    /\ \A t \in Terminals : terms[t].cmd \in Commands /\ terms[t].token \in Tokens \cup {NoToken}

(* docs/CLI.md:14-16: no session that the shell opened stays open behind    *)
(* the operator's back.  Each live one is in the file, or on its way there, *)
(* or has its reason not to be: the answer that named it was never taken    *)
(* in, a later login replaced it, or a logout removed the file and was not  *)
(* carried out on that session - the server did not do it, or BEACN_TOKEN   *)
(* named another.                                                           *)
NoForgottenSession ==
    \A s \in Tokens :
        cliRows[s] = "live" =>
            \/ s = creds \/ s \in excused
            \/ \E t \in Terminals : terms[t].cmd = "login" /\ terms[t].token = s
=============================================================================
