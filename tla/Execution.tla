------------------------------ MODULE Execution ------------------------------
(***************************************************************************)
(* Execution of src/execution/execution.go: one message call or contract   *)
(* creation, and the calls and creations the virtual machine makes while   *)
(* it runs, nested as frames.  exec checks the call depth, snapshots the   *)
(* state (vsnapshot), for a creation bumps the caller's nonce and derives  *)
(* the new address, snapshots again (snapshot), opens the callee account,  *)
(* transfers the value (restoring vsnapshot if the caller cannot pay) and  *)
(* runs the code (restoring snapshot if the code fails).                  *)
(*                                                                         *)
(* The virtual machine is outside src/: its Run is a frame that makes      *)
(* nested calls and creations and then ends well or fails.  The entry      *)
(* points are Env.Call and Env.Create of src/test/util.go.  An account is  *)
(* a user or the pair <<creator, nonce>> crypto.CreateAddress hashes.  A  *)
(* call may name any address: an existing account, or one no creation has *)
(* made yet, which GetOrNewStateObject then opens.                         *)
(***************************************************************************)
EXTENDS Naturals, Sequences, TLC

CONSTANTS
    Users,           \* externally owned accounts
    Funds,           \* Funds[u]: u's initial balance
    Values,          \* values a call or creation may carry
    CallCreateDepth, \* params.CallCreateDepth
    MaxExec,         \* bound: exec calls in a behaviour
    Nil

ASSUME CallCreateDepth \in Nat /\ MaxExec \in Nat

VARIABLES
    st,      \* env.State(): [acc: accounts, bal: balances, nonce: nonces]
    frames,  \* the Executions whose code is running, innermost last
    ret,     \* the last exec to return: its frame and result, or Nil
    nexec    \* exec calls so far

vars == <<st, frames, ret, nexec>>

Init ==
    /\ st = [acc |-> Users, bal |-> Funds, nonce |-> [u \in Users |-> 0]]
    /\ frames = <<>>
    /\ ret = Nil
    /\ nexec = 0

\* crypto.CreateAddress(caller, nonce).
CreateAddress(caller, n) == <<caller, n>>

\* GetOrNewStateObject / CreateAccount: the account exists afterwards with
\* the balance and nonce it had, or none.
Open(s, a) ==
    IF a \in s.acc THEN s
    ELSE [acc |-> s.acc \cup {a}, bal |-> s.bal @@ (a :> 0), nonce |-> s.nonce @@ (a :> 0)]

\* vm.Transfer(from, to, amount) after its balance check.
Transfer(s, from, to, v) ==
    LET s1 == [s EXCEPT !.bal[from] = @ - v] IN [s1 EXCEPT !.bal[to] = @ + v]

\* Mutant of Frame: vsnapshot taken after the nonce bump.
FrameLateVsnapshot(kind, caller, to) ==
    LET s1 == IF kind = "create"
              THEN [st EXCEPT !.nonce[caller] = @ + 1] ELSE st
    IN  [id |-> nexec, kind |-> kind, caller |-> caller,
         addr |-> IF kind = "create" THEN CreateAddress(caller, st.nonce[caller]) ELSE to,
         entry |-> st, vsnapshot |-> s1, snapshot |-> s1, res |-> "run"]

\* The frame exec builds: vsnapshot before anything, then for a creation
\* SetNonce(caller, nonce + 1) and the new address, then snapshot.  entry
\* is the state at the call, kept for the properties.
Frame(kind, caller, to) ==
    LET vsnapshot == st
        s1 == IF kind = "create"
              THEN [st EXCEPT !.nonce[caller] = @ + 1] ELSE st
    IN  [id |-> nexec, kind |-> kind, caller |-> caller,
         addr |-> IF kind = "create" THEN CreateAddress(caller, st.nonce[caller]) ELSE to,
         entry |-> st, vsnapshot |-> vsnapshot, snapshot |-> s1, res |-> "run"]

\* The frame as exec returns it, with its result.
Ret(f, res) == [f EXCEPT !.res = res]

\* Who calls: a user through Env.Call / Env.Create when no code runs,
\* otherwise the running code of the innermost frame.
Caller == IF frames = <<>> THEN Users ELSE {frames[Len(frames)].addr}

\* Mutant of DepthExceeded: one frame too many is allowed.
DepthExceededLate == Len(frames) > CallCreateDepth + 1

\* env.Depth() > CallCreateDepth: the running frames are the depth.
DepthExceeded == Len(frames) > CallCreateDepth

\* exec, for a call to "to" (Call) or a creation (Create, to = Nil), up
\* to evm.Run.
\*   env.Depth() > CallCreateDepth: ReturnGas, DepthError, nothing changed.
\*   Transfer fails: env.State().Set(vsnapshot), ValueTransferErr.
\*   Otherwise the value moves and the code starts to run.
Exec(kind, caller, to, v) ==
    /\ nexec < MaxExec
    /\ nexec' = nexec + 1
    /\ LET f  == Frame(kind, caller, to)
           s2 == Open(f.snapshot, f.addr)
       IN  \/ /\ DepthExceeded
              /\ ret' = Ret(f, "depth")
              /\ UNCHANGED <<st, frames>>
           \/ /\ ~DepthExceeded
              /\ s2.bal[caller] < v
              /\ st' = f.vsnapshot
              /\ ret' = Ret(f, "funds")
              /\ UNCHANGED frames
           \/ /\ ~DepthExceeded
              /\ s2.bal[caller] >= v
              /\ st' = Transfer(s2, caller, f.addr, v)
              /\ frames' = Append(frames, f)
              /\ UNCHANGED ret

\* evm.Run of the innermost frame returns without error; Create returns
\* the account.
RunOk ==
    /\ frames # <<>>
    /\ ret' = Ret(frames[Len(frames)], "ok")
    /\ frames' = SubSeq(frames, 1, Len(frames) - 1)
    /\ UNCHANGED <<st, nexec>>

\* evm.Run returns an error: env.State().Set(snapshot).
RunFail ==
    /\ frames # <<>>
    /\ st' = frames[Len(frames)].snapshot
    /\ ret' = Ret(frames[Len(frames)], "evm")
    /\ frames' = SubSeq(frames, 1, Len(frames) - 1)
    /\ nexec' = nexec

\* The addresses a call is tried with: every account, and the address the
\* next creation of each account will get.
Callees == st.acc \cup {CreateAddress(a, st.nonce[a]) : a \in st.acc}

Next ==
    \/ \E c \in Caller, v \in Values :
          \/ Exec("create", c, Nil, v)
          \/ \E to \in Callees : Exec("call", c, to, v)
    \/ RunOk
    \/ RunFail

Spec == Init /\ [][Next]_vars

-----------------------------------------------------------------------------
(* Properties *)

TypeOK ==
    /\ Users \subseteq st.acc
    /\ DOMAIN st.bal = st.acc /\ DOMAIN st.nonce = st.acc
    /\ \A a \in st.acc : st.bal[a] \in Nat
    /\ Len(frames) <= CallCreateDepth + 1
    /\ nexec \in 0..MaxExec

\* What a failed exec leaves: the state of its call, with the caller's
\* nonce bumped when a creation's code failed.
Reverted(r) ==
    IF r.kind = "create" /\ r.res = "evm"
    THEN [r.entry EXCEPT !.nonce[r.caller] = @ + 1]
    ELSE r.entry

\* A failed call or creation is undone: when exec returns an error
\* (depth, funds, or the code), the state is the state at the call, nested
\* calls that succeeded inside it included; only a creation whose code
\* failed keeps the caller's nonce bump.
FailureReverts ==
    [][ret' # ret /\ ret'.res # "ok" => st' = Reverted(ret')]_vars
====
