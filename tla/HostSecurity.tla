---------------------------- MODULE HostSecurity ----------------------------
(***************************************************************************)
(* The firewall of the host and the port of its ssh daemon, as the admin   *)
(* changes them (security.service.ts).  sshd reads its configuration file  *)
(* when it is restarted; the service always asks the file.                 *)
(***************************************************************************)
EXTENDS Integers, FiniteSets

CONSTANTS Admins,          \* calls in progress at the same time
          SshPorts, FirstSshPort,
          NoSshPort,       \* sshd does not run
          Policies         \* environments: see policy

ASSUME HostAssumption ==
    /\ FirstSshPort \in SshPorts
    /\ NoSshPort \notin SshPorts
    /\ \A p \in Policies : p.calls \in Nat

VARIABLES
    policy,      \* [overlap, calls, faults]: what the environment does
    called,      \* number of calls made
    sshdPort,    \* the port sshd listens on
    configPort,  \* Port in /etc/ssh/sshd_config
    ufwEnabled,  \* the firewall is on
    rules,       \* its rules: a port with a protocol, or with any
    call,        \* call[a]: what a does, and the port it read or was given
    applied      \* the last change of the port has ended with a restart of sshd

hostVars == <<policy, called, sshdPort, configPort, ufwEnabled, rules, call,
              applied>>

Rules == SshPorts \X {"tcp", "any"}

CallSteps == {"idle", "opening", "enabling", "disabling", "deleting",
              "checking", "allowing", "restarting"}

NoCall == [step |-> "idle", port |-> NoSshPort]

HostTypeOK ==
    /\ policy \in Policies /\ called \in 0..policy.calls
    /\ sshdPort \in SshPorts \cup {NoSshPort}
    /\ configPort \in SshPorts
    /\ ufwEnabled \in BOOLEAN
    /\ rules \subseteq Rules
    /\ applied \in BOOLEAN
    /\ call \in [Admins -> [step : CallSteps, port : SshPorts \cup {NoSshPort}]]
    /\ \A a \in Admins : call[a].port = NoSshPort =>
                          call[a].step \in {"idle", "disabling"}

HostInit ==
    /\ policy \in Policies
    /\ called = 0
    /\ sshdPort = FirstSshPort /\ configPort = FirstSshPort
    /\ ufwEnabled \in BOOLEAN
    /\ rules = IF ufwEnabled THEN {<<FirstSshPort, "tcp">>} ELSE {}
    /\ call = [a \in Admins |-> NoCall]
    /\ applied = TRUE

-----------------------------------------------------------------------------

MayFail(f) == f \in policy.faults

\* Without overlap a call is made when none is in progress.
Ask(a, s, p) ==
    /\ call[a] = NoCall
    /\ policy.overlap \/ \A b \in Admins : call[b] = NoCall
    /\ called < policy.calls /\ called' = called + 1
    /\ call' = [call EXCEPT ![a] = [step |-> s, port |-> p]]

Go(a, s) == call' = [call EXCEPT ![a].step = s]

Return(a) == call' = [call EXCEPT ![a] = NoCall]

\* A command fails, or the backend stops: the call goes no further.
CommandFails(a) ==
    /\ call[a] # NoCall /\ MayFail("command")
    /\ Return(a)
    /\ UNCHANGED <<policy, called, sshdPort, configPort, ufwEnabled, rules,
                   applied>>

\* toggleUfw(true) reads the port of the file.
AskEnable(a) ==
    /\ Ask(a, "opening", configPort)
    /\ UNCHANGED <<policy, sshdPort, configPort, ufwEnabled, rules, applied>>

\* Mutant: the firewall is enabled without a rule for ssh.
AllowSsh_Skip(a) ==
    /\ call[a].step = "opening"
    /\ Go(a, "enabling")
    /\ UNCHANGED <<policy, called, sshdPort, configPort, ufwEnabled, rules,
                   applied>>

AllowSsh(a) ==
    /\ call[a].step = "opening"
    /\ rules' = rules \cup {<<call[a].port, "any">>}
    /\ Go(a, "enabling")
    /\ UNCHANGED <<policy, called, sshdPort, configPort, ufwEnabled, applied>>

EnableUfw(a) ==
    /\ call[a].step = "enabling"
    /\ ufwEnabled' = TRUE
    /\ Return(a)
    /\ UNCHANGED <<policy, called, sshdPort, configPort, rules, applied>>

\* toggleUfw(false).
AskDisable(a) ==
    /\ Ask(a, "disabling", NoSshPort)
    /\ UNCHANGED <<policy, sshdPort, configPort, ufwEnabled, rules, applied>>

DisableUfw(a) ==
    /\ call[a].step = "disabling"
    /\ ufwEnabled' = FALSE
    /\ Return(a)
    /\ UNCHANGED <<policy, called, sshdPort, configPort, rules, applied>>

\* addUfwRule is one command.
addUfwRule(p) ==
    /\ policy.overlap \/ \A a \in Admins : call[a] = NoCall
    /\ called < policy.calls /\ called' = called + 1
    /\ rules' = rules \cup {<<p, "tcp">>}
    /\ UNCHANGED <<policy, sshdPort, configPort, ufwEnabled, call, applied>>

\* Mutant: the rule of the ssh port may be deleted like any other.
AskDelete_Any(a, p) ==
    /\ Ask(a, "deleting", p)
    /\ UNCHANGED <<policy, sshdPort, configPort, ufwEnabled, rules, applied>>

\* deleteUfwRule refuses the port of the file.
AskDelete(a, p) ==
    /\ p # configPort
    /\ Ask(a, "deleting", p)
    /\ UNCHANGED <<policy, sshdPort, configPort, ufwEnabled, rules, applied>>

DeleteRule(a) ==
    /\ call[a].step = "deleting"
    /\ rules' = rules \ {<<call[a].port, "tcp">>}
    /\ Return(a)
    /\ UNCHANGED <<policy, called, sshdPort, configPort, ufwEnabled, applied>>

\* updateSshConfig writes the file before it awaits anything.
AskSshPort(a, p) ==
    /\ Ask(a, "checking", p)
    /\ configPort' = p
    /\ applied' = FALSE
    /\ UNCHANGED <<policy, sshdPort, ufwEnabled, rules>>

\* A firewall whose status cannot be read counts as off.
CheckUfw(a) ==
    /\ call[a].step = "checking"
    /\ \/ Go(a, IF ufwEnabled THEN "allowing" ELSE "restarting")
       \/ MayFail("status") /\ Go(a, "restarting")
    /\ UNCHANGED <<policy, called, sshdPort, configPort, ufwEnabled, rules,
                   applied>>

AllowNewPort(a) ==
    /\ call[a].step = "allowing"
    /\ rules' = rules \cup {<<call[a].port, "tcp">>}
    /\ Go(a, "restarting")
    /\ UNCHANGED <<policy, called, sshdPort, configPort, ufwEnabled, applied>>

\* sshd comes up on the port of the file; a restart that fails leaves it on
\* its old port (CommandFails) or down.
RestartSsh(a) ==
    /\ call[a].step = "restarting"
    /\ \/ sshdPort' = configPort /\ applied' = TRUE
       \/ MayFail("command") /\ sshdPort' = NoSshPort /\ UNCHANGED applied
    /\ Return(a)
    /\ UNCHANGED <<policy, called, configPort, ufwEnabled, rules>>

\* The server is restarted by the admin, or by itself.
Reboot ==
    /\ MayFail("reboot")
    /\ policy.overlap \/ \A a \in Admins : call[a] = NoCall
    /\ sshdPort' = configPort
    /\ call' = [a \in Admins |-> NoCall]
    /\ UNCHANGED <<policy, called, configPort, ufwEnabled, rules, applied>>

HostNext ==
    \/ \E a \in Admins :
          \/ AskEnable(a) \/ AllowSsh(a) \/ EnableUfw(a)
          \/ AskDisable(a) \/ DisableUfw(a)
          \/ \E p \in SshPorts : AskDelete(a, p) \/ AskSshPort(a, p)
          \/ DeleteRule(a)
          \/ CheckUfw(a) \/ AllowNewPort(a) \/ RestartSsh(a)
          \/ CommandFails(a)
    \/ \E p \in SshPorts : addUfwRule(p)
    \/ Reboot

HostSpec == HostInit /\ [][HostNext]_hostVars

-----------------------------------------------------------------------------

Allowed(p) == {<<p, "tcp">>, <<p, "any">>} \cap rules # {}

\* One call at a time, the status of the firewall can be read, and either no
\* command fails or the server is not restarted outside these calls.
Careful ==
    /\ ~policy.overlap
    /\ ~MayFail("status")
    /\ ~(MayFail("command") /\ MayFail("reboot"))

\* "Always allow SSH before enabling UFW to prevent lockout": at every step of
\* a careful sequence of calls an enabled firewall lets ssh through to the port
\* sshd listens on; when commands fail, whenever the last change of the port
\* was brought to its end.
SshReachable ==
    Careful /\ ufwEnabled /\ (applied \/ ~MayFail("command")) =>
        Allowed(sshdPort)
=============================================================================
