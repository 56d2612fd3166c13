---------------------------- MODULE Connections -----------------------------
(***************************************************************************)
(* Clients and the server: a client turns what is typed into statements,   *)
(* sends each as a request and waits for the answer; the server serves one *)
(* connection at a time.  Connections may break anywhere, the server may   *)
(* be stopped or die in the middle of a request.                           *)
(*                                                                         *)
(* What is typed is a sequence of tokens, the whole of it known from the   *)
(* beginning.  A client that comes to a statement whose mapping is not     *)
(* defined in map_ast.c is followed no further.  service.thrift is what    *)
(* other programs are written against, so a client may also be one of      *)
(* those, with a request of its own.                                       *)
(*                                                                         *)
(* How a script is parsed and mapped, and how requests and answers are     *)
(* spelled on a wire, are parameters here: Service says what they are.     *)
(*                                                                         *)
(* The functions of map_stmt.c end without a result, so the server's       *)
(* handler may succeed, fail or end the process, whatever the statement.   *)
(***************************************************************************)
EXTENDS Integers, Sequences

CONSTANTS
    Clients,
    Works,       \* for each client [script, request]: what is typed or, another
                 \* program, sent: None or [stmt, later], the second the fields
                 \* that a later version of service.thrift may have
    None,
    ParseOf(_, _),      \* of a script from a token on: [ok, node, at]
    HasMapping(_), MappingOf(_),    \* of a tree: its statement
    RequestOf(_),       \* the units a request is on a wire
    RequestIn(_),       \* and what is read of units: [ok, read, rest]
    ReplyOf(_), AnswerIn(_)         \* the same of an outcome and an answer

VARIABLES
    script, request,     \* what a client will type or, another program, send
    at, step, tree, pending,
    line,                \* none, open, accepted, cut
    up, down,            \* what is on the way to the server and back
    server, running,
    sent, executed, told, errors   \* history

typed == <<script, request>>
client == <<at, step, tree, pending>>
wires == <<line, up, down>>
history == <<sent, executed, told, errors>>
vars == <<typed, client, wires, server, running, history>>

Idle == [step |-> "idle", client |-> None, stmt |-> None, outcome |-> "none"]

(* The request for a statement that was read from a token on, and the one  *)
(* of another program.                                                     *)
OfScript(ts, i) ==
    [stmt |-> MappingOf(ParseOf(ts, i).node), later |-> <<>>,
     from |-> i, to |-> ParseOf(ts, i).at - 1]
OfProgram(own) == [stmt |-> own.stmt, later |-> own.later, from |-> 1, to |-> 1]

(* A request is read as it was written, and no beginning of it is one.     *)
IsSeq(s) == s \in Seq({s[k] : k \in DOMAIN s})
Carried(r) ==
    /\ IsSeq(RequestOf(r)) /\ RequestOf(r) # <<>>
    /\ \A n \in 0 .. Len(RequestOf(r)) :
          LET args == RequestIn(SubSeq(RequestOf(r), 1, n))
          IN  /\ args.ok <=> n = Len(RequestOf(r))
              /\ args.ok => args.read[1].fields.stmt[1] = r.stmt /\ args.rest = <<>>

ASSUME WorksAssumption ==
    \A work \in Works : \A c \in Clients :
        /\ IsSeq(work[c].script)
        /\ \A i \in DOMAIN work[c].script :
              LET parsed == ParseOf(work[c].script, i)
              IN  /\ parsed.at \in Nat \ {0}
                  /\ parsed.ok /\ HasMapping(parsed.node) =>
                        Carried(OfScript(work[c].script, i))
        /\ work[c].request # None => Carried(OfProgram(work[c].request))

ASSUME WireAssumption ==
    /\ ~RequestIn(<<>>).ok
    /\ \A outcome \in {"success", "failure"} :
          /\ IsSeq(ReplyOf(outcome)) /\ ReplyOf(outcome) # <<>>
          /\ \A n \in 0 .. Len(ReplyOf(outcome)) :
                LET answer == AnswerIn(SubSeq(ReplyOf(outcome), 1, n))
                IN  /\ answer \in {"nothing", "error", "success"}
                    /\ answer = "success" =>
                          outcome = "success" /\ n = Len(ReplyOf(outcome))

-----------------------------------------------------------------------------
Init ==
    /\ \E work \in Works : /\ script = [c \in Clients |-> work[c].script]
                          /\ request = [c \in Clients |-> work[c].request]
    /\ at = [c \in Clients |-> 1]
    /\ step = [c \in Clients |-> "new"]
    /\ tree = [c \in Clients |-> None]
    /\ pending = [c \in Clients |-> None]
    /\ line = [c \in Clients |-> "none"]
    /\ up = [c \in Clients |-> <<>>] /\ down = [c \in Clients |-> <<>>]
    /\ server = Idle /\ running = TRUE
    /\ sent = [c \in Clients |-> <<>>] /\ told = [c \in Clients |-> <<>>]
    /\ executed = [c \in Clients |-> <<>>] /\ errors = [c \in Clients |-> {}]
-----------------------------------------------------------------------------
(* main.c of the client                                                    *)
Open(c) ==
    /\ step[c] = "new"
    /\ step' = [step EXCEPT ![c] = "prompt"]
    /\ \/ server.step # "gone" /\ line' = [line EXCEPT ![c] = "open"]
       \/ UNCHANGED line        \* refused; main goes on with the error set
    /\ UNCHANGED <<typed, at, tree, pending, up, down, server, running, history>>

Typing(c) == step[c] = "prompt" /\ request[c] = None /\ at[c] <= Len(script[c])

ParseFails(c) ==
    /\ Typing(c)
    /\ \E parsed \in {ParseOf(script[c], at[c])} :
          /\ ~parsed.ok
          /\ at' = [at EXCEPT ![c] = parsed.at]
          /\ errors' = [errors EXCEPT ![c] = @ \cup {parsed.at - 1}]
    /\ UNCHANGED <<typed, step, tree, pending, wires, server, running, sent,
                   executed, told>>

Parse(c) ==
    /\ Typing(c)
    /\ \E parsed \in {ParseOf(script[c], at[c])} :
          /\ parsed.ok
          /\ at' = [at EXCEPT ![c] = parsed.at]
          /\ tree' = [tree EXCEPT ![c] = parsed.node]
          /\ IF HasMapping(parsed.node)
             THEN /\ step' = [step EXCEPT ![c] = "mapped"]
                  /\ pending' = [pending EXCEPT ![c] = OfScript(script[c], at[c])]
             ELSE /\ step' = [step EXCEPT ![c] = "undefined"]
                  /\ UNCHANGED pending
    /\ UNCHANGED <<typed, wires, server, running, history>>

(* Another program makes its request.                                      *)
Prepare(c) ==
    /\ step[c] = "prompt" /\ request[c] # None /\ at[c] = 1
    /\ step' = [step EXCEPT ![c] = "mapped"]
    /\ pending' = [pending EXCEPT ![c] = OfProgram(request[c])]
    /\ at' = [at EXCEPT ![c] = 2]
    /\ UNCHANGED <<typed, tree, wires, server, running, history>>

Tells(c, answer) ==
    /\ told' = [told EXCEPT ![c] = Append(@, answer)]
    /\ step' = [step EXCEPT ![c] = IF answer = "success" THEN "prompt" ELSE "ended"]

(* The error of the connection is still set: execute is not called.        *)
NotConnected(c) ==
    /\ step[c] = "mapped" /\ line[c] = "none"
    /\ step' = [step EXCEPT ![c] = "ended"]
    /\ UNCHANGED <<typed, at, tree, pending, wires, server, running, history>>

(* database_service_client_send_execute: behind a broken connection the    *)
(* write may fail or seem to succeed.                                      *)
Send(c) ==
    /\ step[c] = "mapped" /\ line[c] \in {"open", "accepted", "cut"}
    /\ sent' = [sent EXCEPT ![c] = Append(@, pending[c])]
    /\ up' = [up EXCEPT ![c] = IF line[c] = "cut" THEN @ ELSE @ \o RequestOf(pending[c])]
    /\ step' = [step EXCEPT ![c] = "waiting"]
    /\ UNCHANGED <<typed, at, tree, pending, line, down, server, running, executed,
                   told, errors>>

SendFails(c) ==
    /\ step[c] = "mapped" /\ line[c] = "cut"
    /\ sent' = [sent EXCEPT ![c] = Append(@, pending[c])]
    /\ Tells(c, "error")
    /\ UNCHANGED <<typed, at, tree, pending, wires, server, running, executed, errors>>

(* An error ends the client, which closes its connection.                  *)
Receive_Hopeful(c) ==
    /\ step[c] = "waiting"
    /\ \E answer \in {AnswerIn(down[c])} :
          /\ answer # "nothing" \/ line[c] = "cut"
          /\ Tells(c, IF answer = "error" THEN "error" ELSE "success")
          /\ line' = [line EXCEPT ![c] = IF answer = "error" THEN "cut" ELSE @]
    /\ down' = [down EXCEPT ![c] = <<>>]
    /\ UNCHANGED <<typed, at, tree, pending, up, server, running, sent, executed, errors>>

Receive(c) ==
    /\ step[c] = "waiting"
    /\ \E answer \in {AnswerIn(down[c])} :
          /\ answer # "nothing" \/ line[c] = "cut"
          /\ Tells(c, IF answer = "success" THEN "success" ELSE "error")
          /\ line' = [line EXCEPT ![c] = IF answer = "success" THEN @ ELSE "cut"]
    /\ down' = [down EXCEPT ![c] = <<>>]
    /\ UNCHANGED <<typed, at, tree, pending, up, server, running, sent, executed, errors>>

(* The user, or the end of a client of another program.                    *)
Quit(c) ==
    /\ step[c] \in {"prompt", "undefined"}
    /\ step' = [step EXCEPT ![c] = "ended"]
    /\ line' = [line EXCEPT ![c] = "cut"]
    /\ UNCHANGED <<typed, at, tree, pending, up, down, server, running, history>>
-----------------------------------------------------------------------------
(* A connection breaks: of what is on the way a beginning arrives.         *)
Break(c) ==
    /\ line[c] \in {"open", "accepted"}
    /\ line' = [line EXCEPT ![c] = "cut"]
    /\ \E n \in 0 .. Len(up[c]) : up' = [up EXCEPT ![c] = SubSeq(@, 1, n)]
    /\ \E n \in 0 .. Len(down[c]) : down' = [down EXCEPT ![c] = SubSeq(@, 1, n)]
    /\ UNCHANGED <<typed, client, server, running, history>>
-----------------------------------------------------------------------------
(* thrift_simple_server_serve: one connection after the other.             *)
Accept_Nobody(c) ==
    /\ server.step = "idle" /\ running
    /\ line[c] = "open"
    /\ line' = [line EXCEPT ![c] = "accepted"]
    /\ server' = [Idle EXCEPT !.step = "reading"]
    /\ UNCHANGED <<typed, client, up, down, running, history>>

Accept(c) ==
    /\ server.step = "idle" /\ running
    /\ line[c] = "open"
    /\ line' = [line EXCEPT ![c] = "accepted"]
    /\ server' = [Idle EXCEPT !.step = "reading", !.client = c]
    /\ UNCHANGED <<typed, client, up, down, running, history>>

ReadRequest_LeftThere ==
    /\ server.step = "reading"
    /\ \E args \in {RequestIn(up[server.client])} :
          /\ args.ok
          /\ server' = [server EXCEPT !.step = "handling",
                                      !.stmt = args.read[1].fields.stmt[1]]
    /\ UNCHANGED <<typed, client, line, up, down, running, history>>

ReadRequest ==
    /\ server.step = "reading"
    /\ \E args \in {RequestIn(up[server.client])} :
          /\ args.ok
          /\ server' = [server EXCEPT !.step = "handling",
                                      !.stmt = args.read[1].fields.stmt[1]]
          /\ up' = [up EXCEPT ![server.client] = args.rest]
    /\ UNCHANGED <<typed, client, line, down, running, history>>

(* The wire ended in the request or between two of them.                   *)
RequestCut ==
    /\ server.step = "reading" /\ line[server.client] = "cut"
    /\ ~RequestIn(up[server.client]).ok
    /\ server' = Idle
    /\ up' = [up EXCEPT ![server.client] = <<>>]
    /\ UNCHANGED <<typed, client, line, down, running, history>>

(* execute of handler.c: map_stmt has no result, and map_err sets nothing. *)
Execute ==
    /\ server.step = "handling"
    /\ \E outcome \in {"success", "failure"} :
          /\ server' = [server EXCEPT !.step = "replying", !.outcome = outcome]
          /\ executed' = [executed EXCEPT ![server.client] =
                Append(@, [stmt |-> server.stmt, outcome |-> outcome])]
    /\ UNCHANGED <<typed, client, wires, running, sent, told, errors>>

Reply_OnlySuccess ==
    /\ server.step = "replying"
    /\ LET c == server.client
       IN  /\ down' = [down EXCEPT ![c] =
                IF line[c] = "cut" \/ server.outcome # "success" THEN @
                ELSE @ \o ReplyOf(server.outcome)]
           /\ server' = IF line[c] = "cut" THEN Idle
                        ELSE [Idle EXCEPT !.step = "reading", !.client = c]
    /\ UNCHANGED <<typed, client, line, up, running, history>>

Reply ==
    /\ server.step = "replying"
    /\ LET c == server.client
       IN  /\ down' = [down EXCEPT ![c] = IF line[c] = "cut" THEN @
                                          ELSE @ \o ReplyOf(server.outcome)]
           /\ server' = IF line[c] = "cut" THEN Idle
                        ELSE [Idle EXCEPT !.step = "reading", !.client = c]
    /\ UNCHANGED <<typed, client, line, up, running, history>>

(* SIGINT: no further connection is taken; a read that waits is            *)
(* interrupted, which ends the connection, or was not waiting yet.         *)
Stop_ ==
    /\ running /\ server.step # "gone"
    /\ running' = FALSE
    /\ \/ UNCHANGED <<server, line>>
       \/ /\ server.step = "reading"
          /\ server' = Idle
          /\ line' = [line EXCEPT ![server.client] = "cut"]
    /\ UNCHANGED <<typed, client, up, down, history>>

Gone ==
    /\ server' = [Idle EXCEPT !.step = "gone"]
    /\ line' = [c \in Clients |-> IF line[c] = "none" THEN "none" ELSE "cut"]
    /\ UNCHANGED <<typed, client, up, down, running, history>>

(* main of the server returns, and the handler destroys the database       *)
(* manager.                                                                *)
ServerReturns == ~running /\ server.step = "idle" /\ Gone

(* The handler ends the process, or a second SIGINT does.                  *)
ServerDies ==
    /\ \/ server.step = "handling"
       \/ ~running /\ server.step \in {"reading", "replying"}
    /\ Gone

Next ==
    \/ \E c \in Clients :
          \/ Open(c) \/ ParseFails(c) \/ Parse(c) \/ Prepare(c)
          \/ NotConnected(c) \/ Send(c) \/ SendFails(c) \/ Receive(c) \/ Quit(c)
          \/ Break(c) \/ Accept(c)
    \/ ReadRequest \/ RequestCut \/ Execute \/ Reply
    \/ Stop_ \/ ServerReturns \/ ServerDies

(* The server and a waiting client go on as long as they can: weak         *)
(* fairness, with what enables the steps written out, since TLC takes too  *)
(* long to find that a wire can be read.                                   *)
ServerStep == ReadRequest \/ RequestCut \/ Execute \/ Reply
ServerCan ==
    \/ server.step \in {"handling", "replying"}
    \/ server.step = "reading" /\ (up[server.client] # <<>> \/ line[server.client] = "cut")
ReceiveCan(c) == step[c] = "waiting" /\ (down[c] # <<>> \/ line[c] = "cut")
Fairness ==
    /\ []<>~ServerCan \/ []<><<ServerStep>>_vars
    /\ \A c \in Clients : []<>~ReceiveCan(c) \/ []<><<Receive(c)>>_vars

Spec == Init /\ [][Next]_vars /\ Fairness
-----------------------------------------------------------------------------
(* The types of the program's state and of its history.                    *)
TypeOK ==
    /\ step \in [Clients -> {"new", "prompt", "mapped", "undefined", "waiting", "ended"}]
    /\ line \in [Clients -> {"none", "open", "accepted", "cut"}]
    /\ at \in [Clients -> Nat \ {0}] /\ running \in BOOLEAN
    /\ server.step \in {"idle", "reading", "handling", "replying", "gone"}
    /\ server.step \in {"reading", "handling", "replying"} => server.client \in Clients
    /\ told \in [Clients -> Seq({"success", "error"})]

(* The statements that reach the handler from a client are those it sent,  *)
(* in their order, each at most once and never in part, wherever the       *)
(* connection breaks.                                                      *)
RequestIntact ==
    \A c \in Clients :
        /\ Len(executed[c]) <= Len(sent[c])
        /\ \A k \in DOMAIN executed[c] : executed[c][k].stmt = sent[c][k].stmt

(* A client that was told of a success had its statement executed with     *)
(* success, that one and not another; what a client does not know yet is   *)
(* at most its last statement.                                             *)
ClientKnows ==
    \A c \in Clients :
        /\ Len(executed[c]) <= Len(told[c]) + 1
        /\ \A k \in DOMAIN told[c] : told[c][k] = "success" =>
              k <= Len(executed[c]) /\ executed[c][k].outcome = "success"

(* A client whose connection the server has taken gets its answer, or      *)
(* learns that there will be none.                                         *)
Answered ==
    \A c \in Clients :
        step[c] = "waiting" /\ server.client = c ~> step[c] # "waiting"
=============================================================================
