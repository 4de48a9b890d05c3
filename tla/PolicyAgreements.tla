---------------------------- MODULE PolicyAgreements ----------------------------
(***************************************************************************)
(* Policies of the service and one user's agreements to them.  A policy is *)
(* a row of a type and a version; an agreement remembers the hash of the   *)
(* content agreed to, here the content's number.  Nothing in this program  *)
(* writes policies: they are published, edited and withdrawn beside it,    *)
(* between the reads of a request.                                         *)
(***************************************************************************)
EXTENDS Integers, Sequences

CONSTANTS
    Policies,       \* ids
    PolicyType,     \* [Policies -> types]
    Version,        \* [Policies -> sequences of the one to three numbers of a version]
    Accepts,        \* requests to accept a policy
    Checks,         \* requests of the check
    MaxContent      \* bound of the edits

ASSUME PoliciesAssumption ==
    /\ DOMAIN PolicyType = Policies /\ DOMAIN Version = Policies
    /\ \A p \in Policies : Version[p] \in Seq(0 .. 99) /\ Len(Version[p]) \in 1 .. 3
    /\ MaxContent \in Nat \ {0}

VARIABLES
    shown,      \* rows whose deletedAt is null
    content,    \* [Policies -> content of the row, 0 without a row]
    agreement,  \* [Policies -> content agreed to, 0 without a row]
    accept,     \* per request: step, policy, content read, agreement read, met another
    lastAccept, \* history: per policy, the request that was answered last
    check       \* per request: step, policies read, answer, and those newest at its start

policyVars == <<shown, content, agreement, accept, lastAccept, check>>

-----------------------------------------------------------------------------
(***************************************************************************)
(* The latest policies: the query compares strings of digits, made of the  *)
(* parts of a version padded to the same width (of ten; two are enough     *)
(* here).  SUBSTRING_INDEX repeats the last part of a short version.       *)
(***************************************************************************)
Digits(n) == IF n < 10 THEN <<n>> ELSE <<n \div 10, n % 10>>

\* Mutant of Padded: without LPAD.
PaddedNot(n) == Digits(n)

Padded(n) == <<n \div 10, n % 10>>

Part(v, i) == v[IF i <= Len(v) THEN i ELSE Len(v)]

Key(p) == Padded(Part(Version[p], 1)) \o Padded(Part(Version[p], 2)) \o Padded(Part(Version[p], 3))

Precedes(s, t) ==
    \/ Len(s) < Len(t) /\ SubSeq(t, 1, Len(s)) = s
    \/ \E i \in DOMAIN s \intersect DOMAIN t :
          s[i] < t[i] /\ \A j \in 1 .. i - 1 : s[j] = t[j]

FindLatestPolicies ==
    {p \in shown : \A q \in shown : PolicyType[q] = PolicyType[p] => ~Precedes(Key(p), Key(q))}

\* The newest by the numbers of their versions.
Newest ==
    {p \in shown : \A q \in shown :
        PolicyType[q] = PolicyType[p] => ~Precedes(Version[p], Version[q])}

-----------------------------------------------------------------------------
\* acceptUserAgreement: findById (withdrawn policies are found too) and the hash.
ReadPolicy(r, p) ==
    /\ accept[r].step = "none"
    /\ content[p] > 0
    /\ LET others == {q \in Accepts : accept[q].step \in {"policy", "agreement"} /\ accept[q].policy = p}
       IN  accept' = [q \in Accepts |->
              IF q = r THEN [step |-> "policy", policy |-> p, read |-> content[p], found |-> 0,
                             met |-> others # {}]
              ELSE IF q \in others THEN [accept[q] EXCEPT !.met = TRUE] ELSE accept[q]]
    /\ UNCHANGED <<shown, content, agreement, lastAccept, check>>

\* findOneByUserIdWithPolicyId
ReadAgreement(r) ==
    /\ accept[r].step = "policy"
    /\ accept' = [accept EXCEPT ![r].step = "agreement", ![r].found = agreement[accept[r].policy]]
    /\ UNCHANGED <<shown, content, agreement, lastAccept, check>>

\* Mutant of UpToDate: the hash is not compared.
UpToDateOnce(r) == accept[r].found > 0

\* isHashEqual(policyContentHash, agreement.policyContentHash)
UpToDate(r) == accept[r].found = accept[r].read

AnswerAccept(r) ==
    /\ accept' = [accept EXCEPT ![r].step = "done"]
    /\ lastAccept' = [lastAccept EXCEPT ![accept[r].policy] = {r}]

NothingToAccept(r) ==
    /\ accept[r].step = "agreement" /\ UpToDate(r)
    /\ AnswerAccept(r)
    /\ UNCHANGED <<shown, content, agreement, check>>

UpsertAgreement(r) ==
    /\ accept[r].step = "agreement" /\ ~UpToDate(r)
    /\ agreement' = [agreement EXCEPT ![accept[r].policy] = accept[r].read]
    /\ AnswerAccept(r)
    /\ UNCHANGED <<shown, content, check>>

\* checkUserAgreements: the latest policies, then the user's agreements to them.
CheckLatest(c) ==
    /\ check[c].step = "none"
    /\ check' = [check EXCEPT ![c] = [step |-> "latest", latest |-> FindLatestPolicies,
                    missing |-> {}, newest |-> Newest,
                    agreed |-> {p \in Policies : agreement[p] > 0}]]
    /\ UNCHANGED <<shown, content, agreement, accept, lastAccept>>

\* findManyByUserIdWithPolicyIds does not look at the hash.
CheckAgreements(c) ==
    /\ check[c].step = "latest"
    /\ check' = [check EXCEPT ![c].step = "done",
                              ![c].missing = {p \in check[c].latest : agreement[p] = 0}]
    /\ UNCHANGED <<shown, content, agreement, accept, lastAccept>>

\* The row of a policy: published, edited, withdrawn.
Publish(p) ==
    /\ content[p] = 0
    /\ content' = [content EXCEPT ![p] = 1]
    /\ shown' = shown \union {p}
    /\ UNCHANGED <<agreement, accept, lastAccept, check>>

EditContent(p) ==
    /\ content[p] \in 1 .. MaxContent - 1
    /\ content' = [content EXCEPT ![p] = @ + 1]
    /\ UNCHANGED <<shown, agreement, accept, lastAccept, check>>

Withdraw(p) ==
    /\ p \in shown
    /\ shown' = shown \ {p}
    /\ UNCHANGED <<content, agreement, accept, lastAccept, check>>

PoliciesInit ==
    /\ shown = {}
    /\ content = [p \in Policies |-> 0]
    /\ agreement = [p \in Policies |-> 0]
    /\ accept = [r \in Accepts |-> [step |-> "none", policy |-> "none", read |-> 0, found |-> 0,
                                    met |-> FALSE]]
    /\ lastAccept = [p \in Policies |-> {}]
    /\ check = [c \in Checks |-> [step |-> "none", latest |-> {}, missing |-> {}, newest |-> {},
                                  agreed |-> {}]]

PoliciesNext ==
    \/ \E p \in Policies : Publish(p) \/ EditContent(p) \/ Withdraw(p)
    \/ \E r \in Accepts :
          \/ \E p \in Policies : ReadPolicy(r, p)
          \/ ReadAgreement(r) \/ NothingToAccept(r) \/ UpsertAgreement(r)
    \/ \E c \in Checks : CheckLatest(c) \/ CheckAgreements(c)

PoliciesSpec == PoliciesInit /\ [][PoliciesNext]_policyVars

-----------------------------------------------------------------------------
PoliciesTypeOK ==
    /\ shown \subseteq Policies
    /\ content \in [Policies -> 0 .. MaxContent] /\ agreement \in [Policies -> 0 .. MaxContent]
    /\ accept \in [Accepts -> [step : {"none", "policy", "agreement", "done"},
                               policy : Policies \union {"none"}, read : 0 .. MaxContent,
                               found : 0 .. MaxContent, met : BOOLEAN]]
    /\ lastAccept \in [Policies -> SUBSET Accepts]
    /\ check \in [Checks -> [step : {"none", "latest", "done"}, latest : SUBSET Policies,
                             missing : SUBSET Policies, newest : SUBSET Policies,
                             agreed : SUBSET Policies]]

(***************************************************************************)
(* A user who is told to be up to date has agreed to the newest version of *)
(* every type there was when the check began, 1.10.0 being newer than      *)
(* 1.9.0; and one who is asked for agreements is asked only for versions   *)
(* that were the newest then and that the user had not agreed to.  (An     *)
(* edit of the content asks nobody again: the check compares no hash.)     *)
(***************************************************************************)
CheckedAgainstNewest ==
    \A c \in Checks : check[c].step = "done" =>
        /\ check[c].missing = {} => \A p \in check[c].newest : agreement[p] > 0
        /\ check[c].missing \subseteq check[c].newest \ check[c].agreed

(***************************************************************************)
(* When the request answered last about a policy met no other on its way,  *)
(* the agreement on record is to the content that request was shown.       *)
(* (Two that overlap may leave the older content of the two.)              *)
(***************************************************************************)
AnsweredConsentStands ==
    \A p \in Policies : \A r \in lastAccept[p] :
        accept[r].met \/ agreement[p] = accept[r].read
=============================================================================
