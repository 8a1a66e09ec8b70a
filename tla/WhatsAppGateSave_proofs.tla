------------------------ MODULE WhatsAppGateSave_proofs ------------------------
(***************************************************************************)
(* Proofs about WhatsAppGateSave.  The validation of the contact cannot    *)
(* pass: when it has returned the group holds an error, so that a request  *)
(* never gets from its validations to the insert.                          *)
(***************************************************************************)
EXTENDS WhatsAppGateSave, TLAPS

Errors == {"Unauthenticated", "InvalidArgument", "Internal", "NotFound"}

SaveTyped ==
    /\ state \in [Requests -> {"idle", "received", "validating"} \cup Errors]
    /\ check \in [Requests -> [Checks -> {"running", "passed", "ended"}]]
    /\ group \in [Requests -> {NoError} \cup Errors]

ContactRefused ==
    \A r \in Requests : state[r] = "validating" =>
        \/ check[r]["contact"] = "running"
        \/ group[r] # NoError

SaveInv == SaveTyped /\ ContactRefused /\ accounts = {}

-----------------------------------------------------------------------------
LEMMA InitSave == Init => SaveInv
BY DEF Init, SaveInv, SaveTyped, ContactRefused, Checks, Errors, NoError

\* A goroutine that returns an error leaves one in the group.
LEMMA ErrsKeeps ==
    ASSUME SaveInv, NEW r \in Requests, NEW c \in Checks, NEW error \in Errors, Errs(r, c, error)
    PROVE  SaveInv'
<1>1. SaveTyped'
    BY DEF Errs, SaveInv, SaveTyped
<1>2. group'[r] # NoError /\ \A q \in Requests \ {r} : group'[q] = group[q] /\ check'[q] = check[q]
    BY DEF Errs, SaveInv, SaveTyped, Errors, NoError
<1>3. UNCHANGED <<state, accounts>>
    BY DEF Errs
<1> QED BY <1>1, <1>2, <1>3 DEF SaveInv, ContactRefused

LEMMA StepSave == SaveInv /\ [Next]_vars => SaveInv'
<1> SUFFICES ASSUME SaveInv, [Next]_vars PROVE SaveInv'
    OBVIOUS
<1>1. ASSUME NEW r \in Requests, NEW bot \in Bots, NEW phone \in Phones, Receive(r, bot, phone)
      PROVE SaveInv'
    BY <1>1 DEF Receive, Put, SaveInv, SaveTyped, ContactRefused
<1>2. ASSUME NEW r \in Requests, Refuse(r) PROVE SaveInv'
  <2>1. PICK answer \in Errors : Put(r, answer)
      BY <1>2 DEF Refuse, Errors
  <2> QED BY <1>2, <2>1 DEF Refuse, Put, SaveInv, SaveTyped, ContactRefused, Errors
<1>3. ASSUME NEW r \in Requests, StartChecks(r) PROVE SaveInv'
  <2>1. SaveTyped'
      BY <1>3 DEF StartChecks, Put, SaveInv, SaveTyped
  <2>2. check'[r]["contact"] = "running"
        /\ \A q \in Requests \ {r} : state'[q] = state[q] /\ check'[q] = check[q] /\ group'[q] = group[q]
      BY <1>3 DEF StartChecks, Put, SaveInv, SaveTyped, Checks
  <2> QED BY <1>3, <2>1, <2>2 DEF StartChecks, SaveInv, ContactRefused
<1>4. ASSUME NEW r \in Requests, SearchContact(r) PROVE SaveInv'
    BY <1>4, ErrsKeeps DEF SearchContact, Checks, Errors
<1>5. ASSUME NEW r \in Requests, NEW c \in Checks, CheckFails(r, c) PROVE SaveInv'
    BY <1>5, ErrsKeeps DEF CheckFails, Errors
<1>6. ASSUME NEW r \in Requests, NEW c \in Checks, CheckPasses(r, c) PROVE SaveInv'
  <2>1. SaveTyped'
      BY <1>6 DEF CheckPasses, SaveInv, SaveTyped
  <2>2. \A q \in Requests : check'[q]["contact"] = check[q]["contact"]
      BY <1>6 DEF CheckPasses, SaveInv, SaveTyped, Checks
  <2> QED BY <1>6, <2>1, <2>2 DEF CheckPasses, SaveInv, ContactRefused
<1>7. ASSUME NEW r \in Requests, Wait(r) PROVE SaveInv'
  <2>1. group[r] \in Errors
      BY <1>7 DEF Wait, Checks, SaveInv, SaveTyped, ContactRefused
  <2>2. state' = [state EXCEPT ![r] = group[r]]
      BY <1>7, <2>1 DEF Wait, Put, Errors, NoError
  <2>3. SaveTyped'
      BY <1>7, <2>1, <2>2 DEF Wait, SaveInv, SaveTyped
  <2>4. \A q \in Requests : state'[q] = "validating" => state[q] = "validating"
      BY <2>1, <2>2 DEF SaveInv, SaveTyped, Errors
  <2> QED BY <1>7, <2>3, <2>4 DEF Wait, SaveInv, ContactRefused
<1>8. ASSUME NEW r \in Requests, Insert(r) PROVE FALSE
    BY <1>8 DEF Insert, SaveInv, SaveTyped, Errors
<1>9. ASSUME NEW b \in Bots, ContactComes(b) \/ ContactGoes(b) PROVE SaveInv'
    BY <1>9 DEF ContactComes, ContactGoes, SaveInv, SaveTyped, ContactRefused
<1>10. CASE UNCHANGED vars
    BY <1>10 DEF vars, SaveInv, SaveTyped, ContactRefused
<1> QED BY <1>1, <1>2, <1>3, <1>4, <1>5, <1>6, <1>7, <1>8, <1>9, <1>10 DEF Next, Save

-----------------------------------------------------------------------------
\* CreateWhatsAppGate: no request of any number of requests saves a gate,
\* whatever bots and phones it names and however contacts come and go.
THEOREM NoGateIsCreated == Spec => []NothingIsSaved
<1>1. SaveInv /\ [Next]_vars => SaveInv'
    BY StepSave
<1>2. SaveInv => NothingIsSaved
    BY DEF SaveInv, SaveTyped, NothingIsSaved, Errors
<1> QED BY InitSave, <1>1, <1>2, PTL DEF Spec
=============================================================================
