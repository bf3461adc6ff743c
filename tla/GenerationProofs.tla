--------------------------- MODULE GenerationProofs ---------------------------
(***************************************************************************)
(* Safety of Generation, proved for any number of templates, mails, texts, *)
(* variations and workers.                                                 *)
(***************************************************************************)
EXTENDS Generation, FlattenLemmas, FiniteSetTheorems, TLAPS

(* Which table the id of a task is of. *)
IdInv ==
    \A w \in Worker :
        /\ task[w].pc \in {"start", "delete", "compose", "save", "drop"} => task[w].id \in TemplateId
        /\ task[w].pc \in {"load", "rewrite", "send", "mark"} => task[w].id \in MailId
        /\ task[w].pc \in {"completed", "failed", "expire"} => task[w].id \in Key

(* Ids are given out in order; a row that is there has a text. *)
RowInv ==
    \A m \in MailId :
        /\ m > lastMail => mail[m].template = 0
        /\ mail[m].template = 0 => mail[m] = NoMail
        /\ mail[m].template # 0 => mail[m].body >= 1

(* The text a request sends is one its row has or had, since ids are not   *)
(* given out again.                                                        *)
SendInv ==
    \A w \in Worker :
        task[w].pc \in {"send", "mark"} =>
            /\ task[w].id <= lastMail
            /\ task[w].body >= 1
            /\ mail[task[w].id].template # 0 => task[w].body <= mail[task[w].id].body

GInv ==
    /\ TypeOK
    /\ IdInv
    /\ RowInv
    /\ SendInv
    /\ NoOrphans

(* A step that leaves the rows and the history alone keeps what they       *)
(* satisfy.                                                                *)
LEMMA DataFrame ==
    ASSUME GInv, UNCHANGED <<template, mail, lastMail, broadcast>>
    PROVE  RowInv' /\ NoOrphans'
  BY DEF GInv, RowInv, NoOrphans

(* The three ways a task changes. *)
LEMMA GotoTask ==
    ASSUME TypeOK, NEW w \in Worker, NEW p \in PC, Goto(w, p)
    PROVE  /\ task' \in [Worker -> Task]
           /\ task'[w] = [task[w] EXCEPT !.pc = p]
           /\ \A x \in Worker \ {w} : task'[x] = task[x]
<1>1. [task[w] EXCEPT !.pc = p] \in Task
  BY DEF TypeOK, Task
<1> QED
  BY <1>1 DEF TypeOK, Goto

(* A worker takes up a request: it has the task of that, the others theirs. *)
LEMMA BeginTask ==
    ASSUME TypeOK, NEW w \in Worker, NEW r \in Task, Begin(w, r)
    PROVE  /\ task' \in [Worker -> Task]
           /\ task'[w] = r
           /\ \A x \in Worker \ {w} : task'[x] = task[x]
  BY DEF TypeOK, Begin

(* A worker is done: it is idle, and the others have the tasks they had. *)
LEMMA EndTask ==
    ASSUME TypeOK, NEW w \in Worker, End(w)
    PROVE  /\ task' \in [Worker -> Task]
           /\ task'[w].pc = "idle"
           /\ \A x \in Worker \ {w} : task'[x] = task[x]
<1>1. Idle \in Task
  BY BoundsAssumption DEF Idle, Task, PC
<1> QED
  BY <1>1 DEF TypeOK, End, Idle

(* generate_all_emails: the new thread has the template it was made for. *)
LEMMA CreateTemplateStep ==
    ASSUME GInv, NEW w \in Worker, NEW t \in TemplateId, CreateTemplate(w, t)
    PROVE  GInv'
<1>1. TypeOK'
  <2> DEFINE r == [Idle EXCEPT !.pc = "start", !.id = t]
  <2>1. r \in Task
    <3>1. t \in Key /\ t \in Key \cup {0}
      BY DEF Key
    <3>2. 0 \in 0..MaxBody /\ 0 \in 0..Variations
      BY BoundsAssumption
    <3> QED
      BY <3>1, <3>2 DEF Idle, Task, PC
  <2>2. Begin(w, r)
    BY DEF CreateTemplate
  <2>3. task' \in [Worker -> Task]
    <3> HIDE DEF r
    <3> QED
      BY <2>1, <2>2, BeginTask DEF GInv
  <2> QED
    BY <2>3 DEF GInv, CreateTemplate, TypeOK
<1>2. IdInv'
  BY DEF GInv, CreateTemplate, IdInv, TypeOK, Begin, Idle, Task
<1>3. RowInv'
  BY DEF GInv, CreateTemplate, RowInv
<1>4. SendInv'
  BY DEF GInv, CreateTemplate, SendInv, TypeOK, Begin, Idle, Task
<1>5. NoOrphans'
  BY DEF GInv, CreateTemplate, NoOrphans, TypeOK, Begin, Idle, Task
<1> QED
  BY <1>1, <1>2, <1>3, <1>4, <1>5 DEF GInv

(* regenerate_all_emails starts another thread. *)
LEMMA RegenerateAllStep ==
    ASSUME GInv, NEW w \in Worker, NEW t \in TemplateId, RegenerateAll(w, t)
    PROVE  GInv'
<1>1. RowInv' /\ NoOrphans'
  BY DataFrame DEF RegenerateAll
<1>2. TypeOK'
  <2> DEFINE r == [Idle EXCEPT !.pc = "start", !.id = t]
  <2>1. r \in Task
    <3>1. t \in Key /\ t \in Key \cup {0}
      BY DEF Key
    <3>2. 0 \in 0..MaxBody /\ 0 \in 0..Variations
      BY BoundsAssumption
    <3> QED
      BY <3>1, <3>2 DEF Idle, Task, PC
  <2>2. Begin(w, r)
    BY DEF RegenerateAll
  <2>3. task' \in [Worker -> Task]
    <3> HIDE DEF r
    <3> QED
      BY <2>1, <2>2, BeginTask DEF GInv
  <2> QED
    BY <2>3 DEF GInv, RegenerateAll, TypeOK
<1>3. IdInv'
  BY DEF GInv, RegenerateAll, IdInv, TypeOK, Begin, Idle, Task
<1>4. SendInv'
  BY DEF GInv, RegenerateAll, SendInv, TypeOK, Begin, Idle, Task
<1> QED
  BY <1>1, <1>2, <1>3, <1>4 DEF GInv

(* regenerate_email: the key is the one of a mail. *)
LEMMA RegenerateEmailStep ==
    ASSUME GInv, NEW w \in Worker, NEW m \in MailId, RegenerateEmail(w, m)
    PROVE  GInv'
<1>1. RowInv' /\ NoOrphans'
  BY DataFrame DEF RegenerateEmail
<1>2. TypeOK'
  <2> DEFINE r == [Idle EXCEPT !.pc = "load", !.id = m]
  <2>1. r \in Task
    <3>1. m \in Key /\ m \in Key \cup {0}
      BY DEF Key
    <3>2. 0 \in 0..MaxBody /\ 0 \in 0..Variations
      BY BoundsAssumption
    <3> QED
      BY <3>1, <3>2 DEF Idle, Task, PC
  <2>2. Begin(w, r)
    BY DEF RegenerateEmail
  <2>3. task' \in [Worker -> Task]
    <3> HIDE DEF r
    <3> QED
      BY <2>1, <2>2, BeginTask DEF GInv
  <2> QED
    BY <2>3 DEF GInv, RegenerateEmail, TypeOK, SetStatus, Key
<1>3. IdInv'
  BY DEF GInv, RegenerateEmail, IdInv, TypeOK, Begin, SetStatus, Idle
<1>4. SendInv'
  BY DEF GInv, RegenerateEmail, SendInv, TypeOK, Begin, SetStatus, Idle
<1> QED
  BY <1>1, <1>2, <1>3, <1>4 DEF GInv

(* generate_and_save_emails: a status is no row. *)
LEMMA GenStartStep ==
    ASSUME GInv, NEW w \in Worker, GenStart(w)
    PROVE  GInv'
<1>1. RowInv' /\ NoOrphans'
  BY DataFrame DEF GenStart
<1>2. TypeOK'
  <2>1. task' \in [Worker -> Task]
    BY GotoTask DEF GInv, GenStart, PC
  <2> QED
    BY <2>1, BoundsAssumption, TemplateIdAssumption DEF GInv, GenStart, TypeOK,
       IdInv, SetStatus, Key
<1>3. IdInv'
  BY DEF GInv, GenStart, IdInv, TypeOK, Goto, SetStatus, Task
<1>4. SendInv'
  BY DEF GInv, GenStart, SendInv, TypeOK, Goto, SetStatus, Task
<1> QED
  BY <1>1, <1>2, <1>3, <1>4 DEF GInv

(* generate_and_save_emails: deleting leaves no orphan. *)
LEMMA GenDeleteStep ==
    ASSUME GInv, NEW w \in Worker, GenDelete(w)
    PROVE  GInv'
<1>1. TypeOK'
  <2>1. task' \in [Worker -> Task]
    BY GotoTask DEF GInv, GenDelete, PC
  <2> QED
    BY <2>1, BoundsAssumption, TemplateIdAssumption DEF GInv, GenDelete, TypeOK,
       IdInv, NoMail, MailRow
<1>2. IdInv'
  BY DEF GInv, GenDelete, IdInv, TypeOK, Goto, NoMail, Task
<1>3. RowInv'
  BY DEF GInv, GenDelete, RowInv, TypeOK, Goto, NoMail, Task
<1>4. SendInv'
  BY DEF GInv, GenDelete, SendInv, TypeOK, Goto, NoMail, IdInv
<1>5. NoOrphans'
  BY DEF GInv, GenDelete, NoOrphans, TypeOK, Goto, NoMail, Task
<1> QED
  BY <1>1, <1>2, <1>3, <1>4, <1>5 DEF GInv

(* generate_and_save_emails: nothing is written yet. *)
LEMMA GenComposeStep ==
    ASSUME GInv, NEW w \in Worker, GenCompose(w)
    PROVE  GInv'
<1>1. RowInv' /\ NoOrphans'
  BY DataFrame DEF GenCompose
<1>2. TypeOK'
  <2> PICK n \in 0..Variations :
         task' = [task EXCEPT ![w].n = n,
                              ![w].pc = IF n = 0 THEN "completed" ELSE "save"]
    <3>1. Answers(task[w].id) \subseteq 0..Variations
      BY BoundsAssumption DEF Answers
    <3> QED
      BY <3>1 DEF GenCompose
  <2>1. [task[w] EXCEPT !.n = n, !.pc = IF n = 0 THEN "completed" ELSE "save"] \in Task
    BY DEF GInv, TypeOK, Task, PC
  <2>2. task' \in [Worker -> Task]
    BY <2>1 DEF GInv, TypeOK
  <2> QED
    BY <2>2 DEF GInv, TypeOK, GenCompose
<1>3. IdInv'
  BY DEF GInv, GenCompose, IdInv, TypeOK, Task, MailRow, Key
<1>4. SendInv'
  BY DEF GInv, GenCompose, SendInv, TypeOK, Task, MailRow, Key
<1> QED
  BY <1>1, <1>2, <1>3, <1>4 DEF GInv

(* generate_and_save_emails: new rows have new ids and a live template. *)
LEMMA GenSaveStep ==
    ASSUME GInv, NEW w \in Worker, GenSave(w)
    PROVE  GInv'
<1>1. TypeOK'
  <2>1. task' \in [Worker -> Task]
    BY GotoTask DEF GInv, GenSave, PC
  <2>2. task[w].id \in TemplateId /\ task[w].n \in Nat
    BY BoundsAssumption DEF GInv, GenSave, TypeOK, IdInv, Task
  <2>3. lastMail' \in 0..MaxMail
    BY <2>2, BoundsAssumption DEF GInv, GenSave, TypeOK
  <2>4. [template |-> task[w].id, body |-> 1, sent |-> FALSE] \in MailRow
    BY <2>2, BoundsAssumption DEF MailRow
  <2>5. mail' \in [MailId -> MailRow]
    BY <2>4 DEF GInv, GenSave, TypeOK
  <2> QED
    BY <2>1, <2>3, <2>5 DEF GInv, GenSave, TypeOK
<1>2. IdInv'
  BY DEF GInv, GenSave, IdInv, TypeOK, Goto, Task, Key
<1>3. RowInv'
  <2> SUFFICES ASSUME NEW m \in MailId PROVE RowInv!(m)'
    BY DEF RowInv
  <2>1. /\ lastMail \in Nat /\ task[w].n \in Nat /\ m \in Nat
        /\ task[w].id # 0
    BY TemplateIdAssumption, BoundsAssumption DEF GInv, TypeOK, IdInv, GenSave,
       Task, MailId
  <2>2. CASE m \in (lastMail + 1)..(lastMail + task[w].n)
    <3>1. mail'[m] = [template |-> task[w].id, body |-> 1, sent |-> FALSE]
      BY <2>2 DEF GenSave
    <3>2. ~ (m > lastMail')
      BY <2>1, <2>2 DEF GenSave
    <3> QED
      BY <2>1, <3>1, <3>2
  <2>3. CASE m \notin (lastMail + 1)..(lastMail + task[w].n)
    <3>1. mail'[m] = mail[m]
      BY <2>3 DEF GenSave
    <3>2. m > lastMail' => m > lastMail
      BY <2>1 DEF GenSave
    <3> QED
      BY <3>1, <3>2 DEF GInv, RowInv
  <2> QED
    BY <2>2, <2>3
<1>4. SendInv'
  BY DEF GInv, GenSave, SendInv, TypeOK, Goto, Task, MailId, IdInv
<1>5. NoOrphans'
  BY DEF GInv, GenSave, NoOrphans, TypeOK, Goto, Task, MailRow
<1> QED
  BY <1>1, <1>2, <1>3, <1>4, <1>5 DEF GInv

(* generate_and_save_emails: an exception. *)
LEMMA GenErrorStep ==
    ASSUME GInv, NEW w \in Worker, GenError(w)
    PROVE  GInv'
<1>1. RowInv' /\ NoOrphans'
  BY DataFrame DEF GenError
<1>2. TypeOK'
  <2>1. task' \in [Worker -> Task]
    BY GotoTask DEF GInv, GenError, PC
  <2> QED
    BY <2>1, BoundsAssumption, TemplateIdAssumption DEF GInv, GenError, TypeOK
<1>3. IdInv'
  BY DEF GInv, GenError, IdInv, TypeOK, Goto, Task, Key
<1>4. SendInv'
  BY DEF GInv, GenError, SendInv, TypeOK, Goto, Task, MailRow
<1> QED
  BY <1>1, <1>2, <1>3, <1>4 DEF GInv

(* regenerate_email_task: the row is loaded. *)
LEMMA RegenLoadStep ==
    ASSUME GInv, NEW w \in Worker, RegenLoad(w)
    PROVE  GInv'
<1>1. RowInv' /\ NoOrphans'
  BY DataFrame DEF RegenLoad
<1>2. TypeOK'
  <2> DEFINE s == mail[task[w].id].sent
  <2>1. s \in BOOLEAN
    BY DEF GInv, TypeOK, IdInv, MailRow, RegenLoad
  <2>2. [task[w] EXCEPT !.pc = "rewrite", !.seen = s] \in Task
    <3> HIDE DEF s
    <3> QED
      BY <2>1 DEF GInv, TypeOK, Task, PC
  <2>3. task' \in [Worker -> Task]
    BY <2>2 DEF GInv, TypeOK, RegenLoad
  <2> QED
    BY <2>3 DEF GInv, TypeOK, RegenLoad
<1>3. IdInv'
  BY DEF GInv, RegenLoad, IdInv, TypeOK, Task, MailRow, Key
<1>4. SendInv'
  <2>1. /\ task'[w].pc = "rewrite"
        /\ \A x \in Worker \ {w} : task'[x] = task[x]
    BY DEF GInv, TypeOK, RegenLoad, Task
  <2>2. UNCHANGED <<mail, lastMail, broadcast>>
    BY DEF RegenLoad
  <2> SUFFICES ASSUME NEW x \in Worker PROVE SendInv!(x)'
    BY DEF SendInv
  <2>3. SendInv!(x)
    BY DEF GInv, SendInv
  <2> QED
    BY <2>1, <2>2, <2>3
<1> QED
  BY <1>1, <1>2, <1>3, <1>4 DEF GInv

(* regenerate_email_task: an earlier text has been sent if the row is marked. *)
LEMMA RegenCommitStep ==
    ASSUME GInv, NEW w \in Worker, RegenCommit(w)
    PROVE  GInv'
<1>1. TypeOK'
  <2>1. task' \in [Worker -> Task]
    BY GotoTask DEF GInv, RegenCommit, PC
  <2>2. task[w].id \in MailId
    BY DEF GInv, IdInv, RegenCommit
  <2> DEFINE r == mail[task[w].id]
             s == IF task[w].seen THEN FALSE ELSE r.sent
  <2>3. /\ r \in MailRow
        /\ s \in BOOLEAN
    BY <2>2 DEF GInv, TypeOK, MailRow
  <2>4. [r EXCEPT !.body = @ + 1, !.sent = s] \in MailRow
    <3>1. r.body + 1 \in 0..MaxBody
      BY <2>3, BoundsAssumption DEF MailRow, RegenCommit
    <3> HIDE DEF r, s
    <3> QED
      BY <2>3, <3>1 DEF MailRow
  <2>5. mail' \in [MailId -> MailRow]
    BY <2>2, <2>4 DEF GInv, TypeOK, RegenCommit
  <2> QED
    BY <2>1, <2>5 DEF GInv, TypeOK, RegenCommit
<1>2. IdInv'
  BY DEF GInv, RegenCommit, IdInv, TypeOK, Goto, Task, Key
<1>3. RowInv'
  <2>1. task[w].id \in MailId
    BY DEF GInv, IdInv, RegenCommit
  <2>2. \A m \in MailId \ {task[w].id} : mail'[m] = mail[m]
    BY <2>1 DEF GInv, TypeOK, RegenCommit
  <2>3. /\ mail'[task[w].id].template = mail[task[w].id].template
        /\ mail'[task[w].id].body = mail[task[w].id].body + 1
        /\ mail'[task[w].id].sent => mail[task[w].id].sent
    BY <2>1 DEF GInv, TypeOK, MailRow, RegenCommit
  <2>4. mail[task[w].id].body \in Nat
    BY <2>1, BoundsAssumption DEF GInv, TypeOK, MailRow
  <2>5. UNCHANGED lastMail /\ mail[task[w].id].template # 0
    BY DEF RegenCommit
  <2> SUFFICES ASSUME NEW m \in MailId PROVE RowInv!(m)'
    BY DEF RowInv
  <2>6. RowInv!(m)
    BY DEF GInv, RowInv
  <2> QED
    BY <2>1, <2>2, <2>3, <2>4, <2>5, <2>6
<1>4. SendInv'
  BY DEF GInv, RegenCommit, SendInv, TypeOK, Goto, Task, MailRow, IdInv
<1>5. NoOrphans'
  BY DEF GInv, RegenCommit, NoOrphans, TypeOK, Goto, Task, MailRow
<1> QED
  BY <1>1, <1>2, <1>3, <1>4, <1>5 DEF GInv

(* regenerate_email_task: an exception. *)
LEMMA RegenErrorStep ==
    ASSUME GInv, NEW w \in Worker, RegenError(w)
    PROVE  GInv'
<1>1. RowInv' /\ NoOrphans'
  BY DataFrame DEF RegenError
<1>2. TypeOK'
  <2>1. task' \in [Worker -> Task]
    BY GotoTask DEF GInv, RegenError, PC
  <2> QED
    BY <2>1, BoundsAssumption, TemplateIdAssumption DEF GInv, RegenError, TypeOK
<1>3. IdInv'
  BY DEF GInv, RegenError, IdInv, TypeOK, Goto, Task, Key
<1>4. SendInv'
  BY DEF GInv, RegenError, SendInv, TypeOK, Goto, Task, MailRow
<1> QED
  BY <1>1, <1>2, <1>3, <1>4 DEF GInv

(* The outcome is written to Redis. *)
LEMMA ReportStep ==
    ASSUME GInv, NEW w \in Worker, Report(w)
    PROVE  GInv'
<1>1. RowInv' /\ NoOrphans'
  BY DataFrame DEF Report
<1>2. TypeOK'
  <2>1. task' \in [Worker -> Task]
    BY GotoTask DEF GInv, Report, PC
  <2> QED
    BY <2>1, BoundsAssumption, TemplateIdAssumption DEF GInv, Report, TypeOK, IdInv,
       SetStatus, Task, Key
<1>3. IdInv'
  BY DEF GInv, Report, IdInv, TypeOK, Goto, SetStatus, Task
<1>4. SendInv'
  BY DEF GInv, Report, SendInv, TypeOK, Goto, SetStatus, Task
<1> QED
  BY <1>1, <1>2, <1>3, <1>4 DEF GInv

(* The expiry is set. *)
LEMMA SetExpiryStep ==
    ASSUME GInv, NEW w \in Worker, SetExpiry(w)
    PROVE  GInv'
<1>1. RowInv' /\ NoOrphans'
  BY DataFrame DEF SetExpiry
<1>2. TypeOK'
  <2>1. task' \in [Worker -> Task]
    BY EndTask DEF GInv, SetExpiry
  <2> QED
    BY <2>1, BoundsAssumption, TemplateIdAssumption DEF GInv, SetExpiry, TypeOK,
       IdInv, Key
<1>3. IdInv'
  BY DEF GInv, SetExpiry, IdInv, TypeOK, End, Idle, Task
<1>4. SendInv'
  BY DEF GInv, SetExpiry, SendInv, TypeOK, End, Idle, Task
<1> QED
  BY <1>1, <1>2, <1>3, <1>4 DEF GInv

(* Redis drops a key. *)
LEMMA ExpireStep ==
    ASSUME GInv, NEW k \in Key, Expire(k)
    PROVE  GInv'
<1>1. RowInv' /\ NoOrphans'
  BY DataFrame DEF Expire
<1>2. IdInv'
  BY DEF GInv, IdInv, Expire
<1>3. TypeOK'
  BY DEF GInv, Expire, TypeOK, SetStatus, MailRow, Task, PC
<1>4. SendInv'
  BY DEF GInv, Expire, SendInv, TypeOK, SetStatus, Task, MailRow
<1> QED
  BY <1>1, <1>2, <1>3, <1>4 DEF GInv

(* send_generated_email: the text loaded is the one of the row. *)
LEMMA SendLoadStep ==
    ASSUME GInv, NEW w \in Worker, NEW m \in MailId, SendLoad(w, m)
    PROVE  GInv'
<1>1. RowInv' /\ NoOrphans'
  BY DataFrame DEF SendLoad
<1>2. TypeOK'
  <2> DEFINE r == [Idle EXCEPT !.pc = "send", !.id = m,
                      !.body = mail[m].body, !.seen = mail[m].sent]
  <2>1. r \in Task
    <3>1. m \in Key /\ m \in Key \cup {0}
      BY DEF Key
    <3>2. 0 \in 0..MaxBody /\ 0 \in 0..Variations
      BY BoundsAssumption
    <3>3. mail[m].body \in 0..MaxBody /\ mail[m].sent \in BOOLEAN
      BY DEF GInv, TypeOK, MailRow
    <3> QED
      BY <3>1, <3>2, <3>3 DEF Idle, Task, PC
  <2>2. Begin(w, r)
    BY DEF SendLoad
  <2>3. task' \in [Worker -> Task]
    <3> HIDE DEF r
    <3> QED
      BY <2>1, <2>2, BeginTask DEF GInv
  <2> QED
    BY <2>3 DEF GInv, SendLoad, TypeOK
<1>3. IdInv'
  BY DEF GInv, SendLoad, IdInv, TypeOK, Begin, Idle, Task
<1>4. SendInv'
  BY DEF GInv, SendLoad, SendInv, TypeOK, Begin, MailRow, MailId, RowInv
<1> QED
  BY <1>1, <1>2, <1>3, <1>4 DEF GInv

(* send_generated_email: the loop over the subscribers. *)
LEMMA SendStep ==
    ASSUME GInv, NEW w \in Worker, Send(w)
    PROVE  GInv'
<1>1. TypeOK'
  <2>1. task' \in [Worker -> Task]
    BY GotoTask DEF GInv, Send, SendEmails, PC
  <2>2. task[w].id \in MailId /\ task[w].body \in 1..MaxBody
    BY BoundsAssumption DEF GInv, TypeOK, IdInv, SendInv, Task, Send
  <2>3. \A got \in BOOLEAN :
           <<task[w].id, task[w].body, got>> \in MailId \X (1..MaxBody) \X BOOLEAN
    BY <2>2
  <2>4. broadcast' \in SUBSET (MailId \X (1..MaxBody) \X BOOLEAN)
    BY <2>3 DEF GInv, TypeOK, Send, SendEmails
  <2> QED
    BY <2>1, <2>4 DEF GInv, Send, TypeOK
<1>2. IdInv'
  BY DEF GInv, Send, SendEmails, IdInv, TypeOK, Goto, Task, MailRow
<1>3. RowInv'
  BY DEF GInv, Send, SendEmails, RowInv
<1>4. SendInv'
  BY DEF GInv, Send, SendEmails, SendInv, TypeOK, Goto, Task, MailRow
<1>5. NoOrphans'
  BY DEF GInv, Send, SendEmails, NoOrphans
<1> QED
  BY <1>1, <1>2, <1>3, <1>4, <1>5 DEF GInv

(* send_generated_email: what is marked has been sent. *)
LEMMA SendMarkStep ==
    ASSUME GInv, NEW w \in Worker, SendMark(w)
    PROVE  GInv'
<1>1. TypeOK'
  <2>1. task' \in [Worker -> Task]
    BY EndTask DEF GInv, SendMark
  <2>2. [mail[task[w].id] EXCEPT !.sent = TRUE] \in MailRow
    BY DEF GInv, IdInv, SendMark, TypeOK, MailRow
  <2>3. mail' \in [MailId -> MailRow]
    BY <2>2 DEF GInv, SendMark, TypeOK
  <2> QED
    BY <2>1, <2>3 DEF GInv, SendMark, TypeOK
<1>2. IdInv'
  BY DEF GInv, SendMark, IdInv, TypeOK, End, Idle, Task
<1>3. RowInv'
  <2>1. task[w].id \in MailId
    BY DEF GInv, IdInv, SendMark
  <2>2. \A m \in MailId \ {task[w].id} : mail'[m] = mail[m]
    BY <2>1 DEF GInv, TypeOK, SendMark
  <2>3. \/ mail'[task[w].id] = mail[task[w].id]
        \/ /\ mail[task[w].id].template # 0
           /\ mail'[task[w].id] = [mail[task[w].id] EXCEPT !.sent = TRUE]
    BY <2>1 DEF GInv, TypeOK, SendMark
  <2>4. \/ mail'[task[w].id] = mail[task[w].id]
        \/ /\ mail[task[w].id].template # 0
           /\ mail'[task[w].id].template = mail[task[w].id].template
           /\ mail'[task[w].id].body = mail[task[w].id].body
    BY <2>1, <2>3 DEF GInv, TypeOK, MailRow
  <2> QED
    BY <2>1, <2>2, <2>4 DEF GInv, RowInv, SendMark
<1>4. SendInv'
  BY DEF GInv, SendMark, SendInv, TypeOK, End, Idle, Task
<1>5. NoOrphans'
  BY DEF GInv, SendMark, NoOrphans, TypeOK, End, Idle, Task
<1> QED
  BY <1>1, <1>2, <1>3, <1>4, <1>5 DEF GInv

(* delete_email_template loads the mails. *)
LEMMA DropLoadStep ==
    ASSUME GInv, NEW w \in Worker, NEW t \in TemplateId, DropLoad(w, t)
    PROVE  GInv'
<1>1. RowInv' /\ NoOrphans'
  BY DataFrame DEF DropLoad
<1>2. TypeOK'
  <2> DEFINE r == [Idle EXCEPT !.pc = "drop", !.id = t, !.kids = Mails(t)]
  <2>1. r \in Task
    <3>1. t \in Key /\ t \in Key \cup {0}
      BY DEF Key
    <3>2. 0 \in 0..MaxBody /\ 0 \in 0..Variations
      BY BoundsAssumption
    <3> QED
      BY <3>1, <3>2 DEF Idle, Task, PC, Mails
  <2>2. Begin(w, r)
    BY DEF DropLoad
  <2>3. task' \in [Worker -> Task]
    <3> HIDE DEF r
    <3> QED
      BY <2>1, <2>2, BeginTask DEF GInv
  <2> QED
    BY <2>3 DEF GInv, DropLoad, TypeOK
<1>3. IdInv'
  BY DEF GInv, DropLoad, IdInv, TypeOK, Begin, Idle, Mails
<1>4. SendInv'
  BY DEF GInv, DropLoad, SendInv, TypeOK, Begin, Idle, Mails
<1> QED
  BY <1>1, <1>2, <1>3, <1>4 DEF GInv

(* delete_email_template: the mails go with the template. *)
LEMMA DropCommitStep ==
    ASSUME GInv, NEW w \in Worker, DropCommit(w)
    PROVE  GInv'
<1>1. TypeOK'
  <2>1. task' \in [Worker -> Task]
    BY EndTask DEF GInv, DropCommit
  <2>2. mail' \in [MailId -> MailRow]
    <3>1. NoMail \in MailRow
      BY BoundsAssumption DEF NoMail, MailRow
    <3> QED
      BY <3>1 DEF GInv, TypeOK, DropCommit
  <2>3. template' \in [TemplateId -> {"new", "present", "deleted"}]
    BY DEF GInv, TypeOK, DropCommit
  <2> QED
    BY <2>1, <2>2, <2>3 DEF GInv, TypeOK, DropCommit
<1>2. IdInv'
  BY DEF GInv, DropCommit, IdInv, TypeOK, End, NoMail, Idle
<1>3. RowInv'
  <2> DEFINE t == task[w].id
  <2>1. t \in TemplateId /\ t # 0
    BY TemplateIdAssumption DEF GInv, IdInv, DropCommit
  <2>2. CASE UNCHANGED <<template, mail>>
    BY <2>2 DEF GInv, RowInv, DropCommit
  <2>3. CASE /\ template' = [template EXCEPT ![t] = "deleted"]
             /\ mail' = [m \in MailId |-> IF m \in Mails(t) THEN NoMail ELSE mail[m]]
    BY <2>3 DEF GInv, RowInv, NoMail, Mails, DropCommit
  <2> QED
    BY <2>2, <2>3 DEF DropCommit
<1>4. SendInv'
  BY TemplateIdAssumption, BoundsAssumption DEF GInv, DropCommit, SendInv, End,
     NoMail, Idle, RowInv, IdInv
<1>5. NoOrphans'
  <2> DEFINE t == task[w].id
  <2>1. t \in TemplateId /\ t # 0
    BY TemplateIdAssumption DEF GInv, IdInv, DropCommit
  <2>2. CASE UNCHANGED <<template, mail>>
    BY <2>2 DEF GInv, NoOrphans, DropCommit
  <2>3. CASE /\ template' = [template EXCEPT ![t] = "deleted"]
             /\ mail' = [m \in MailId |-> IF m \in Mails(t) THEN NoMail ELSE mail[m]]
    <3> SUFFICES ASSUME NEW m \in MailId, mail'[m].template # 0
                 PROVE  template'[mail'[m].template] = "present"
      BY DEF NoOrphans
    <3>1. mail'[m] = mail[m] /\ mail[m].template # t
      BY <2>3 DEF Mails, NoMail
    <3>2. mail[m].template \in TemplateId /\ template[mail[m].template] = "present"
      BY <3>1 DEF GInv, TypeOK, NoOrphans, MailRow
    <3> QED
      BY <2>3, <3>1, <3>2 DEF GInv, TypeOK
  <2> QED
    BY <2>2, <2>3 DEF DropCommit
<1> QED
  BY <1>1, <1>2, <1>3, <1>4, <1>5 DEF GInv

(* delete_compain: there is no mail to orphan. *)
LEMMA DeleteCompainStep ==
    ASSUME GInv, NEW t \in TemplateId, DeleteCompain(t)
    PROVE  GInv'
<1>1. IdInv'
  BY DEF GInv, IdInv, DeleteCompain
<1>2. TypeOK'
  BY DEF GInv, DeleteCompain, TypeOK, Mails, MailRow, Task, PC
<1>3. RowInv'
  BY DEF GInv, DeleteCompain, RowInv
<1>4. SendInv'
  BY DEF GInv, DeleteCompain, SendInv, TypeOK, Mails, Task, MailRow
<1>5. NoOrphans'
  BY DEF GInv, DeleteCompain, NoOrphans, TypeOK, Mails, Task, MailRow
<1> QED
  BY <1>1, <1>2, <1>3, <1>4, <1>5 DEF GInv

(* All workers are lost. *)
LEMMA RestartStep ==
    ASSUME GInv, Restart
    PROVE  GInv'
<1>1. RowInv' /\ NoOrphans'
  BY DataFrame DEF Restart
<1>2. TypeOK'
  <2>1. Idle \in Task
    BY BoundsAssumption DEF Idle, Task, PC
  <2> QED
    BY <2>1 DEF GInv, TypeOK, Restart
<1>3. IdInv'
  BY DEF GInv, Restart, IdInv, TypeOK, Idle, Task, MailRow
<1>4. SendInv'
  BY DEF GInv, Restart, SendInv, TypeOK, Idle, Task, MailRow
<1> QED
  BY <1>1, <1>2, <1>3, <1>4 DEF GInv

(* Every step keeps the inductive invariant. *)
LEMMA NextStep ==
    ASSUME GInv, [Next]_vars
    PROVE  GInv'
<1>1. CASE UNCHANGED vars
  BY <1>1 DEF GInv, TypeOK, IdInv, RowInv, SendInv, NoOrphans, vars
<1>2. ASSUME NEW w \in Worker, Ask(w) PROVE GInv'
  BY <1>2, CreateTemplateStep, RegenerateAllStep, RegenerateEmailStep, SendLoadStep,
     DropLoadStep DEF Ask
<1>3. ASSUME NEW w \in Worker, Step(w) PROVE GInv'
  BY <1>3, GenStartStep, GenDeleteStep, GenComposeStep, GenSaveStep, GenErrorStep,
     RegenLoadStep, RegenCommitStep, RegenErrorStep, ReportStep, SetExpiryStep,
     SendStep, SendMarkStep, DropCommitStep DEF Step
<1> QED
  BY <1>1, <1>2, <1>3, ExpireStep, DeleteCompainStep, RestartStep DEF Next

(* The invariant holds in an empty database. *)
LEMMA InitGInv == Init => GInv
  BY BoundsAssumption DEF Init, GInv, TypeOK, IdInv, RowInv, SendInv, NoOrphans,
     NoMail, MailRow, Idle, Task, PC

(* Every state the program reaches satisfies the inductive invariant. *)
THEOREM Invariance == Spec => []GInv
  BY InitGInv, NextStep, PTL DEF Spec

(* Rows, statuses and tasks keep their types. *)
THEOREM TypeCorrect == Spec => []TypeOK
<1>1. GInv => TypeOK
  BY DEF GInv
<1> QED
  BY <1>1, Invariance, PTL

(* No generated mail outlives its template, however runs, deletions and    *)
(* restarts interleave.                                                    *)
THEOREM NoOrphansHolds == Spec => []NoOrphans
<1>1. GInv => NoOrphans
  BY DEF GInv
<1> QED
  BY <1>1, Invariance, PTL

(* A request that marks has run its loop to the end with the text it       *)
(* loaded.                                                                 *)
Looped(w) == \E got \in BOOLEAN : <<task[w].id, task[w].body, got>> \in broadcast
LoopInv == \A w \in Worker : task[w].pc = "mark" => Looped(w)

(* A step by which no worker comes to mark, and that forgets no loop.      *)
LEMMA LoopFrame ==
    ASSUME LoopInv, broadcast \subseteq broadcast',
           \A x \in Worker : task'[x].pc = "mark" => task'[x] = task[x]
    PROVE  LoopInv'
  BY DEF LoopInv, Looped

(* Only send_generated_email comes to mark, after its loop. *)
LEMMA LoopStep ==
    ASSUME GInv, LoopInv, [Next]_vars
    PROVE  LoopInv'
<1> DEFINE Calm == \A x \in Worker : task'[x].pc = "mark" => task'[x] = task[x]
<1>1. ASSUME NEW w \in Worker, NEW p \in PC \ {"mark"}, Goto(w, p) PROVE Calm
  <2>1. task'[w].pc = p /\ \A x \in Worker \ {w} : task'[x] = task[x]
    BY <1>1 DEF GInv, TypeOK, Task, Goto
  <2> QED
    BY <2>1
<1>2. ASSUME NEW w \in Worker, End(w) PROVE Calm
  BY <1>2 DEF GInv, TypeOK, End, Idle
<1>3. ASSUME NEW w \in Worker, Send(w) PROVE LoopInv'
  <2>1. /\ task'[w].id = task[w].id /\ task'[w].body = task[w].body
        /\ \A x \in Worker \ {w} : task'[x] = task[x]
    BY <1>3 DEF GInv, TypeOK, Task, Goto, Send
  <2>2. /\ broadcast \subseteq broadcast'
        /\ \E got \in BOOLEAN : <<task[w].id, task[w].body, got>> \in broadcast'
    BY <1>3 DEF Send, SendEmails
  <2> QED
    BY <2>1, <2>2 DEF LoopInv, Looped
<1>4. ASSUME NEW w \in Worker, Ask(w) PROVE Calm
  <2>1. ASSUME NEW t, t.pc # "mark", Begin(w, t) PROVE Calm
    BY <2>1 DEF GInv, TypeOK, Begin
  <2>2. ASSUME NEW t \in TemplateId, CreateTemplate(w, t) \/ RegenerateAll(w, t) \/ DropLoad(w, t)
        PROVE  Calm
    BY <2>1, <2>2 DEF CreateTemplate, RegenerateAll, DropLoad, Idle
  <2>3. ASSUME NEW m \in MailId, RegenerateEmail(w, m) \/ SendLoad(w, m)
        PROVE  Calm
    BY <2>1, <2>3 DEF RegenerateEmail, SendLoad, Idle
  <2> QED
    BY <1>4, <2>2, <2>3 DEF Ask
<1>5. ASSUME NEW w \in Worker, Step(w), ~ Send(w) PROVE Calm
  <2>1. CASE GenCompose(w)
    BY <2>1 DEF GInv, TypeOK, Task, GenCompose
  <2>2. CASE RegenLoad(w)
    BY <2>2 DEF GInv, TypeOK, Task, RegenLoad
  <2>3. CASE Report(w) \/ GenStart(w) \/ GenDelete(w) \/ GenSave(w) \/ GenError(w)
               \/ RegenCommit(w) \/ RegenError(w)
    BY <1>1, <2>3 DEF Report, GenStart, GenDelete, GenSave, GenError, RegenCommit, RegenError, PC
  <2>4. CASE SetExpiry(w) \/ SendMark(w) \/ DropCommit(w)
    BY <1>2, <2>4 DEF SetExpiry, SendMark, DropCommit
  <2> QED
    BY <1>5, <2>1, <2>2, <2>3, <2>4 DEF Step
<1>6. CASE UNCHANGED <<task, broadcast>>
  BY <1>6, LoopFrame
<1>7. CASE Restart
  <2>1. Calm /\ UNCHANGED broadcast
    BY <1>7 DEF Restart, Idle
  <2> QED
    BY <2>1, LoopFrame
<1>8. ASSUME NEW w \in Worker, Ask(w) PROVE LoopInv'
  <2>1. UNCHANGED broadcast
    BY <1>8 DEF Ask, CreateTemplate, RegenerateAll, RegenerateEmail, SendLoad, DropLoad
  <2> QED
    BY <1>4, <1>8, <2>1, LoopFrame
<1>9. ASSUME NEW w \in Worker, Step(w), ~ Send(w) PROVE LoopInv'
  <2>1. UNCHANGED broadcast
    BY <1>9 DEF Step, GenStart, GenDelete, GenCompose, GenSave, GenError, RegenLoad,
       RegenCommit, RegenError, Report, SetExpiry, SendMark, DropCommit
  <2> QED
    BY <1>5, <1>9, <2>1, LoopFrame
<1>10. CASE UNCHANGED vars
  BY <1>6, <1>10 DEF vars
<1> QED
  BY <1>3, <1>6, <1>7, <1>8, <1>9, <1>10 DEF Next, Expire, DeleteCompain

(* The loop of a request that marks is over in every reachable state. *)
LEMMA LoopInvariance == Spec => []LoopInv
<1>1. Init => LoopInv
  BY DEF Init, LoopInv, Idle
<1> QED
  BY <1>1, LoopStep, Invariance, PTL DEF Spec

(* A rewrite that was not overtaken leaves is_sent unset. *)
LEMMA RegenCommitFlag ==
    ASSUME GInv, NEW w \in Worker, RegenCommit(w), NEW m \in MailId,
           FlagRight(m), ~ FlagRight(m)'
    PROVE  task[w].id = m /\ Overtaken(w) /\ task'[w] # task[w]
<1>1. task[w].id \in MailId
  BY DEF GInv, IdInv, RegenCommit
<1>2. \A x \in MailId \ {task[w].id} : mail'[x] = mail[x]
  BY <1>1 DEF GInv, TypeOK, RegenCommit
<1>3. task[w].id = m
  <2>1. SUFFICES ASSUME task[w].id # m PROVE FALSE
    OBVIOUS
  <2>2. mail'[m] = mail[m]
    BY <1>2, <2>1
  <2>3. UNCHANGED broadcast
    BY DEF RegenCommit
  <2> QED
    BY <2>2, <2>3 DEF FlagRight
<1>4. task[w].seen \in BOOLEAN /\ mail[m].sent \in BOOLEAN
  BY DEF GInv, TypeOK, Task, MailRow
<1>5. mail'[m].sent = IF task[w].seen THEN FALSE ELSE mail[m].sent
  BY <1>1, <1>3 DEF GInv, TypeOK, MailRow, RegenCommit
<1>6. mail'[m].sent
  BY DEF FlagRight
<1>7. ~ task[w].seen /\ mail[m].sent
  BY <1>4, <1>5, <1>6
<1>8. Overtaken(w)
  BY <1>3, <1>7 DEF Overtaken, RegenCommit
<1>9. task'[w].pc = "completed" /\ task[w].pc = "rewrite"
  BY DEF GInv, TypeOK, Task, Goto, RegenCommit
<1> QED
  BY <1>3, <1>8, <1>9

(* A row that still has the text its sender loaded is marked for a text    *)
(* the loop has run with.                                                  *)
LEMMA SendMarkFlag ==
    ASSUME GInv, LoopInv, NEW w \in Worker, SendMark(w), NEW m \in MailId,
           FlagRight(m), ~ FlagRight(m)'
    PROVE  task[w].id = m /\ Overtaken(w) /\ task'[w] # task[w]
<1>1. task[w].id \in MailId
  BY DEF GInv, IdInv, SendMark
<1>2. \A x \in MailId \ {task[w].id} : mail'[x] = mail[x]
  BY <1>1 DEF GInv, TypeOK, SendMark
<1>3. task[w].id = m
  BY <1>2 DEF FlagRight, SendMark
<1>4. mail'[m] = mail[m] \/ mail'[m] = [mail[m] EXCEPT !.sent = TRUE]
  BY <1>1, <1>3 DEF GInv, TypeOK, SendMark
<1>5. mail'[m].body = mail[m].body
  BY <1>4 DEF GInv, TypeOK, MailRow
<1>6. \E got \in BOOLEAN : <<m, task[w].body, got>> \in broadcast
  BY <1>3 DEF LoopInv, Looped, SendMark
<1>7. task[w].body # mail[m].body
  BY <1>5, <1>6 DEF FlagRight, SendMark
<1>8. Overtaken(w)
  BY <1>3, <1>7 DEF Overtaken, SendMark
<1>9. task'[w].pc = "idle" /\ task[w].pc = "mark"
  BY DEF GInv, TypeOK, End, Idle, SendMark
<1> QED
  BY <1>3, <1>8, <1>9

(* No other step makes is_sent wrong: rows come unmarked, and a loop only  *)
(* adds to what has been sent.                                             *)
LEMMA OtherFlag ==
    ASSUME GInv, [Next]_vars, NEW m \in MailId, FlagRight(m),
           \A w \in Worker : ~ RegenCommit(w) /\ ~ SendMark(w)
    PROVE  FlagRight(m)'
<1>1. CASE UNCHANGED <<mail, broadcast>>
  BY <1>1 DEF FlagRight
<1>2. CASE /\ mail'[m] = mail[m] \/ ~ mail'[m].sent
           /\ broadcast \subseteq broadcast'
  BY <1>2 DEF FlagRight
<1>3. ASSUME NEW w \in Worker, GenDelete(w) PROVE FlagRight(m)'
  BY <1>2, <1>3 DEF GenDelete, NoMail
<1>4. ASSUME NEW w \in Worker, GenSave(w) PROVE FlagRight(m)'
  BY <1>2, <1>4 DEF GenSave
<1>5. ASSUME NEW w \in Worker, Send(w) PROVE FlagRight(m)'
  BY <1>2, <1>5 DEF Send, SendEmails
<1>6. ASSUME NEW w \in Worker, DropCommit(w) PROVE FlagRight(m)'
  BY <1>2, <1>6 DEF DropCommit, NoMail
<1>7. ASSUME NEW w \in Worker, Ask(w) PROVE FlagRight(m)'
  BY <1>1, <1>7 DEF Ask, CreateTemplate, RegenerateAll, RegenerateEmail, SendLoad, DropLoad
<1>8. ASSUME NEW w \in Worker, Step(w) PROVE FlagRight(m)'
  BY <1>1, <1>3, <1>4, <1>5, <1>6, <1>8 DEF Step, GenStart, GenCompose, GenError, RegenLoad,
     RegenError, Report, SetExpiry
<1>9. CASE UNCHANGED vars
  BY <1>1, <1>9 DEF vars
<1> QED
  BY <1>1, <1>7, <1>8, <1>9 DEF Next, Expire, DeleteCompain, Restart

(* is_sent goes wrong about a row's text only in a step of a request or    *)
(* thread that was overtaken: send_generated_email by a rewrite, or        *)
(* regenerate_email_task by a send.                                        *)
THEOREM FlagWrongByOverlapHolds == Spec => FlagWrongByOverlap
<1>1. ASSUME GInv, LoopInv, [Next]_vars
      PROVE  [\A m \in MailId :
                 FlagRight(m) /\ ~ FlagRight(m)'
                    => \E w \in Worker :
                          task[w].id = m /\ Overtaken(w) /\ task'[w] # task[w]]_vars
  BY <1>1, RegenCommitFlag, SendMarkFlag, OtherFlag
<1> QED
  BY <1>1, Invariance, LoopInvariance, PTL DEF Spec, FlagWrongByOverlap

(* A worker leaves the other tasks alone, and "in-progress" is what it     *)
(* works under itself, or what it has never worked under.                  *)
OwnStatus(w) ==
    /\ \A x \in Worker \ {w} : task'[x] = task[x]
    /\ \A k \in Key :
          status'[k] = "in-progress"
             => \/ task'[w].id = k /\ task'[w].pc \in Working
                \/ status[k] = "in-progress" /\ ~ (task[w].id = k /\ task[w].pc \in Working)

(* A request that begins writes no status but that of its own id. *)
LEMMA AskOwnStatus ==
    ASSUME TypeOK, NEW w \in Worker, Ask(w)
    PROVE  OwnStatus(w)
<1>1. task[w].pc \notin Working
  BY DEF Ask, Begin, CreateTemplate, RegenerateAll, RegenerateEmail, SendLoad,
     DropLoad, Working
<1>2. \A x \in Worker \ {w} : task'[x] = task[x]
  BY DEF TypeOK, Ask, Begin, CreateTemplate, RegenerateAll, RegenerateEmail,
     SendLoad, DropLoad
<1>3. CASE UNCHANGED status
  BY <1>1, <1>2, <1>3 DEF OwnStatus
<1>4. ASSUME NEW m \in MailId, RegenerateEmail(w, m) PROVE OwnStatus(w)
  <2>1. task'[w].id = m /\ task'[w].pc = "load"
    BY <1>4 DEF TypeOK, RegenerateEmail, Begin, Idle
  <2>2. \A k \in Key : k # m => status'[k] = status[k]
    BY <1>4 DEF TypeOK, RegenerateEmail, SetStatus
  <2> QED
    BY <1>1, <1>2, <2>1, <2>2 DEF OwnStatus, Working
<1> QED
  BY <1>3, <1>4 DEF Ask, CreateTemplate, RegenerateAll, SendLoad, DropLoad

(* Nor does a step of a thread, and when it ends it has written its outcome. *)
LEMMA StepOwnStatus ==
    ASSUME GInv, NEW w \in Worker, Step(w)
    PROVE  OwnStatus(w)
<1> USE DEF GInv
<1>1. ASSUME NEW p \in Working, Goto(w, p), UNCHANGED status
      PROVE  OwnStatus(w)
  <2>1. p \in PC
    BY DEF Working, PC
  <2>2. task'[w].id = task[w].id /\ task'[w].pc = p
    BY <1>1 DEF Goto, TypeOK, Task
  <2> QED
    BY <1>1, <2>1, <2>2, GotoTask DEF OwnStatus
<1>2. ASSUME task[w].pc \notin Working, UNCHANGED status,
             \A x \in Worker \ {w} : task'[x] = task[x]
      PROVE  OwnStatus(w)
  BY <1>2 DEF OwnStatus
<1>3. CASE GenStart(w)
  <2>1. /\ task'[w].id = task[w].id /\ task'[w].pc = "delete"
        /\ \A x \in Worker \ {w} : task'[x] = task[x]
    BY <1>3 DEF GenStart, Goto, TypeOK, Task
  <2>2. \A k \in Key : k # task[w].id => status'[k] = status[k]
    BY <1>3 DEF TypeOK, GenStart, SetStatus
  <2> QED
    BY <2>1, <2>2 DEF OwnStatus, Working
<1>4. CASE GenDelete(w)
  BY <1>1, <1>4 DEF GenDelete, Working
<1>5. CASE GenCompose(w)
  <2>1. /\ task'[w].id = task[w].id /\ task'[w].pc \in {"completed", "save"}
        /\ \A x \in Worker \ {w} : task'[x] = task[x]
    BY <1>5 DEF GenCompose, TypeOK, Task
  <2> QED
    BY <1>5, <2>1 DEF OwnStatus, Working, GenCompose
<1>6. CASE GenSave(w)
  BY <1>1, <1>6 DEF GenSave, Working
<1>7. CASE GenError(w)
  BY <1>1, <1>7 DEF GenError, Working
<1>8. CASE RegenLoad(w)
  <2>1. /\ task'[w].id = task[w].id /\ task'[w].pc = "rewrite"
        /\ \A x \in Worker \ {w} : task'[x] = task[x]
    BY <1>8 DEF RegenLoad, TypeOK, Task
  <2> QED
    BY <1>8, <2>1 DEF OwnStatus, Working, RegenLoad
<1>9. CASE RegenCommit(w)
  BY <1>1, <1>9 DEF RegenCommit, Working
<1>10. CASE RegenError(w)
  BY <1>1, <1>10 DEF RegenError, Working
<1>11. CASE Report(w)
  <2>1. \A x \in Worker \ {w} : task'[x] = task[x]
    BY <1>11, GotoTask DEF Report, PC
  <2>2. \A k \in Key : k # task[w].id => status'[k] = status[k]
    BY <1>11 DEF TypeOK, Report, SetStatus
  <2>3. task[w].id \in Key => status'[task[w].id] # "in-progress"
    BY <1>11 DEF TypeOK, Report, SetStatus
  <2> QED
    BY <2>1, <2>2, <2>3 DEF OwnStatus
<1>12. CASE SetExpiry(w)
  BY <1>2, <1>12, EndTask DEF SetExpiry, Working
<1>13. CASE Send(w)
  BY <1>2, <1>13, GotoTask DEF Send, Working, PC
<1>14. CASE SendMark(w)
  BY <1>2, <1>14, EndTask DEF SendMark, Working
<1>15. CASE DropCommit(w)
  BY <1>2, <1>15, EndTask DEF DropCommit, Working
<1> QED
  BY <1>3, <1>4, <1>5, <1>6, <1>7, <1>8, <1>9, <1>10, <1>11, <1>12, <1>13, <1>14,
     <1>15 DEF Step

(* Unless the server is restarted, "in-progress" always has a thread that  *)
(* will replace it: no status is left behind by overlapping runs.          *)
THEOREM InProgressHasWorkerHolds ==
    ASSUME ~ MayCrash
    PROVE  Spec => []InProgressHasWorker
<1>1. Init => InProgressHasWorker
  BY DEF Init, InProgressHasWorker
<1>2. ASSUME GInv, InProgressHasWorker, [Next]_vars
      PROVE  InProgressHasWorker'
  <2> SUFFICES ASSUME NEW k \in Key, status'[k] = "in-progress"
               PROVE  \E w \in Worker : task'[w].id = k /\ task'[w].pc \in Working
    BY DEF InProgressHasWorker
  <2>1. CASE UNCHANGED <<status, task>>
    BY <1>2, <2>1 DEF InProgressHasWorker
  <2>2. ASSUME NEW w \in Worker, OwnStatus(w)
        PROVE  \E x \in Worker : task'[x].id = k /\ task'[x].pc \in Working
    BY <1>2, <2>2 DEF OwnStatus, InProgressHasWorker
  <2>3. ASSUME NEW j \in Key, Expire(j)
        PROVE  \E x \in Worker : task'[x].id = k /\ task'[x].pc \in Working
    <3>1. status[k] = "in-progress"
      BY <1>2, <2>3 DEF Expire, SetStatus, GInv, TypeOK
    <3> QED
      BY <1>2, <2>3, <3>1 DEF InProgressHasWorker, Expire
  <2>4. ASSUME NEW w \in Worker, Ask(w) \/ Step(w) PROVE OwnStatus(w)
    BY <1>2, <2>4, AskOwnStatus, StepOwnStatus DEF GInv
  <2>5. ASSUME NEW t \in TemplateId, DeleteCompain(t) PROVE UNCHANGED <<status, task>>
    BY <2>5 DEF DeleteCompain
  <2> QED
    BY <1>2, <2>1, <2>2, <2>3, <2>4, <2>5 DEF Next, Restart, vars
<1> QED
  BY <1>1, <1>2, Invariance, PTL DEF Spec

-----------------------------------------------------------------------------
(* How many mails overlapping runs leave. *)

(* A run on template t that has deleted and not saved yet. *)
Composing(w, t) == task[w].pc \in {"compose", "save"} /\ task[w].id = t

(* The mails of t are covered by a batch per worker, the one it saved last; *)
(* a worker that has deleted and not saved has none.                       *)
Covers(b, t) ==
    /\ Mails(t) \subseteq UNION {b[w] : w \in Worker}
    /\ \A w \in Worker : /\ Cardinality(b[w]) <= Variations
                         /\ Composing(w, t) => b[w] = {}

BatchInv == \A t \in TemplateId : \E b \in [Worker -> SUBSET MailId] : Covers(b, t)

(* What all steps but two do: no mail of t comes, and nobody gets past the *)
(* deletion.                                                               *)
Calm(t) ==
    /\ Mails(t)' \subseteq Mails(t)
    /\ \A w \in Worker : Composing(w, t)' => Composing(w, t)

(* Batches that cover the mails of a template still do so after a calm step. *)
LEMMA CalmCovers ==
    ASSUME NEW t \in TemplateId, NEW b \in [Worker -> SUBSET MailId], Covers(b, t), Calm(t)
    PROVE  Covers(b, t)'
<1>1. Mails(t)' \subseteq UNION {b[w] : w \in Worker}
  BY DEF Covers, Calm
<1> QED
  BY <1>1 DEF Covers, Calm

(* A worker that is past the deletion was so before, or nothing is left of *)
(* its template.                                                           *)
LEMMA DeleteCovers ==
    ASSUME GInv, NEW w \in Worker, GenDelete(w), NEW t \in TemplateId,
           NEW b \in [Worker -> SUBSET MailId], Covers(b, t)
    PROVE  \E c \in [Worker -> SUBSET MailId] : Covers(c, t)'
<1> DEFINE c == [x \in Worker |-> {}]
<1>1. /\ \A x \in Worker \ {w} : task'[x] = task[x]
      /\ task'[w].id = task[w].id
  BY GotoTask DEF GenDelete, Goto, GInv, TypeOK, Task, PC
<1>2. CASE task[w].id = t
  <2>1. Mails(t)' = {}
    <3>1. \A m \in MailId : mail'[m].template # t
      <4>1. 0 # t
        BY TemplateIdAssumption
      <4> QED
        BY <1>2, <4>1 DEF GenDelete, NoMail
    <3> QED
      BY <3>1 DEF Mails
  <2>2. c \in [Worker -> SUBSET MailId]
    OBVIOUS
  <2>3. \A x \in Worker : c[x] = {} /\ Cardinality(c[x]) <= Variations
    BY FS_EmptySet, BoundsAssumption
  <2> HIDE DEF c
  <2>4. Covers(c, t)'
    BY <2>1, <2>3 DEF Covers
  <2> QED
    BY <2>2, <2>4
<1>3. CASE task[w].id # t
  <2>1. Mails(t)' \subseteq Mails(t)
    <3>1. \A m \in MailId : mail'[m].template = t => mail[m].template = t
      <4>1. 0 # t
        BY TemplateIdAssumption
      <4> QED
        BY <4>1 DEF GenDelete, NoMail
    <3> QED
      BY <3>1 DEF Mails
  <2>2. Calm(t)
    BY <1>1, <1>3, <2>1 DEF Calm, Composing
  <2> QED
    BY <2>2, CalmCovers
<1> QED
  BY <1>2, <1>3

(* A run saves its one batch. *)
LEMMA SaveCovers ==
    ASSUME GInv, NEW w \in Worker, GenSave(w), NEW t \in TemplateId,
           NEW b \in [Worker -> SUBSET MailId], Covers(b, t)
    PROVE  \E c \in [Worker -> SUBSET MailId] : Covers(c, t)'
<1>1. /\ \A x \in Worker \ {w} : task'[x] = task[x]
      /\ task'[w].pc = "completed"
      /\ task[w].pc = "save" /\ task[w].n \in 0..Variations
  BY DEF GenSave, Goto, GInv, TypeOK, Task, PC
<1> DEFINE new == (lastMail + 1)..(lastMail + task[w].n)
<1>2. CASE task[w].id = t
  <2>1. new \subseteq MailId /\ Cardinality(new) <= Variations
    <3>1. lastMail \in Nat /\ task[w].n \in Nat /\ lastMail + task[w].n <= MaxMail
      BY <1>1, BoundsAssumption DEF GenSave, GInv, TypeOK
    <3>2. ASSUME NEW l \in Nat, NEW k \in Nat PROVE Cardinality((l + 1)..(l + k)) = k
      <4>1. l + 1 \in Int /\ l + k \in Int
        OBVIOUS
      <4>2. Cardinality((l + 1)..(l + k))
              = IF l + 1 > l + k THEN 0 ELSE (l + k) - (l + 1) + 1
        BY <4>1, FS_Interval
      <4> QED
        BY <4>2
    <3>3. Cardinality(new) = task[w].n
      BY <3>1, <3>2
    <3>4. new \subseteq MailId
      BY <3>1, BoundsAssumption DEF MailId
    <3> QED
      BY <1>1, <3>3, <3>4, BoundsAssumption
  <2>2. PICK c \in [Worker -> SUBSET MailId] :
           c[w] = new /\ \A x \in Worker \ {w} : c[x] = b[x]
    <3> DEFINE d == [b EXCEPT ![w] = new]
    <3>1. d \in [Worker -> SUBSET MailId] /\ d[w] = new /\ \A x \in Worker \ {w} : d[x] = b[x]
      BY <2>1
    <3> QED
      BY <3>1
  <2>3. Mails(t)' \subseteq Mails(t) \cup new
    <3>1. \A m \in MailId : mail'[m].template = t => mail[m].template = t \/ m \in new
      BY DEF GenSave
    <3> QED
      BY <3>1 DEF Mails
  <2>4. b[w] = {}
    BY <1>1, <1>2 DEF Covers, Composing
  <2> HIDE DEF new
  <2>5. Mails(t)' \subseteq UNION {c[x] : x \in Worker}
    <3> SUFFICES ASSUME NEW m \in Mails(t)' PROVE \E x \in Worker : m \in c[x]
      OBVIOUS
    <3>1. CASE m \in new
      BY <2>2, <3>1
    <3>2. CASE m \in Mails(t)
      <4>1. PICK x \in Worker : m \in b[x]
        BY <3>2 DEF Covers
      <4> QED
        BY <2>2, <2>4, <4>1
    <3> QED
      BY <2>3, <3>1, <3>2
  <2>6. \A x \in Worker : Composing(x, t)' => c[x] = {}
    BY <1>1, <2>2 DEF Composing, Covers
  <2>7. \A x \in Worker : Cardinality(c[x]) <= Variations
    BY <2>1, <2>2 DEF Covers
  <2>8. Covers(c, t)'
    BY <2>5, <2>6, <2>7 DEF Covers
  <2> QED
    BY <2>2, <2>8
<1>3. CASE task[w].id # t
  <2>1. Mails(t)' \subseteq Mails(t)
    <3>1. \A m \in MailId : mail'[m].template = t => mail[m].template = t
      BY <1>3 DEF GenSave
    <3> QED
      BY <3>1 DEF Mails
  <2>2. Calm(t)
    BY <1>1, <2>1 DEF Calm, Composing
  <2> QED
    BY <2>2, CalmCovers
<1> QED
  BY <1>2, <1>3

(* The other requests and steps of a worker. *)
LEMMA OtherCalm ==
    ASSUME GInv, NEW w \in Worker, Ask(w) \/ Step(w), ~ GenDelete(w), ~ GenSave(w),
           NEW t \in TemplateId
    PROVE  Calm(t)
<1>0. 0 # t
  BY TemplateIdAssumption
<1> USE DEF GInv
<1>1. ASSUME UNCHANGED mail PROVE Mails(t)' \subseteq Mails(t)
  BY <1>1 DEF Mails
<1>2. ASSUME \A x \in Worker \ {w} : task'[x] = task[x],
             task'[w].pc \notin {"compose", "save"} \/ Composing(w, t)
      PROVE  \A x \in Worker : Composing(x, t)' => Composing(x, t)
  BY <1>2 DEF Composing
<1>3. ASSUME NEW p \in PC, Goto(w, p), p \notin {"compose", "save"}
      PROVE  \A x \in Worker : Composing(x, t)' => Composing(x, t)
  <2>1. task'[w].pc = p
    BY <1>3 DEF Goto, TypeOK, Task
  <2> QED
    BY <1>2, <1>3, <2>1, GotoTask
<1>4. ASSUME End(w)
      PROVE  \A x \in Worker : Composing(x, t)' => Composing(x, t)
  BY <1>2, <1>4, EndTask
<1>5. CASE Ask(w)
  <2>1. UNCHANGED mail
    BY <1>5 DEF Ask, CreateTemplate, RegenerateAll, RegenerateEmail, SendLoad, DropLoad
  <2>2. \A x \in Worker \ {w} : task'[x] = task[x]
    BY <1>5 DEF TypeOK, Ask, Begin, CreateTemplate, RegenerateAll, RegenerateEmail,
       SendLoad, DropLoad
  <2>3. task'[w].pc \in {"start", "load", "send", "drop"}
    BY <1>5 DEF TypeOK, Ask, Begin, CreateTemplate, RegenerateAll, RegenerateEmail,
       SendLoad, DropLoad, Idle
  <2> QED
    BY <1>1, <1>2, <2>1, <2>2, <2>3 DEF Calm
<1>6. CASE GenStart(w) \/ GenError(w) \/ RegenError(w) \/ Report(w) \/ Send(w)
  BY <1>1, <1>3, <1>6 DEF GenStart, GenError, RegenError, Report, Send, PC, Calm
<1>7. CASE GenCompose(w)
  <2>1. /\ task'[w].id = task[w].id /\ task[w].pc = "compose"
        /\ task'[w].pc \in {"completed", "save"}
        /\ \A x \in Worker \ {w} : task'[x] = task[x]
    BY <1>7 DEF GenCompose, TypeOK, Task
  <2>2. UNCHANGED mail
    BY <1>7 DEF GenCompose
  <2> QED
    BY <1>1, <2>1, <2>2 DEF Calm, Composing
<1>8. CASE RegenLoad(w)
  <2>1. /\ task'[w].pc = "rewrite"
        /\ \A x \in Worker \ {w} : task'[x] = task[x]
    BY <1>8 DEF RegenLoad, TypeOK, Task
  <2>2. UNCHANGED mail
    BY <1>8 DEF RegenLoad
  <2> QED
    BY <1>1, <1>2, <2>1, <2>2 DEF Calm
<1>9. CASE RegenCommit(w)
  <2>1. \A m \in MailId : mail'[m].template = mail[m].template
    BY <1>9 DEF RegenCommit, TypeOK, MailRow
  <2> QED
    BY <1>3, <1>9, <2>1 DEF RegenCommit, PC, Calm, Mails
<1>10. CASE SetExpiry(w)
  BY <1>1, <1>4, <1>10 DEF SetExpiry, Calm
<1>11. CASE SendMark(w)
  <2>1. \A m \in MailId : mail'[m].template = mail[m].template
    BY <1>11 DEF SendMark, TypeOK, MailRow
  <2> QED
    BY <1>4, <1>11, <2>1 DEF SendMark, Calm, Mails
<1>12. CASE DropCommit(w)
  <2>1. \A m \in MailId : mail'[m].template = t => mail[m].template = t
    BY <1>0, <1>12 DEF DropCommit, NoMail
  <2> QED
    BY <1>4, <1>12, <2>1 DEF DropCommit, Calm, Mails
<1> QED
  BY <1>5, <1>6, <1>7, <1>8, <1>9, <1>10, <1>11, <1>12 DEF Step

(* Some batches always cover the mails. *)
LEMMA BatchStep ==
    ASSUME GInv, BatchInv, [Next]_vars
    PROVE  BatchInv'
<1> SUFFICES ASSUME NEW t \in TemplateId
             PROVE  \E b \in [Worker -> SUBSET MailId] : Covers(b, t)'
  BY DEF BatchInv
<1>1. PICK b \in [Worker -> SUBSET MailId] : Covers(b, t)
  BY DEF BatchInv
<1>2. ASSUME UNCHANGED mail, UNCHANGED task \/ Restart PROVE Calm(t)
  <2>1. \A w \in Worker : Composing(w, t)' => Composing(w, t)
    BY <1>2 DEF Restart, Idle, Composing
  <2> QED
    BY <1>2, <2>1 DEF Calm, Mails
<1>3. ASSUME NEW w \in Worker, Ask(w) \/ Step(w)
      PROVE  \E c \in [Worker -> SUBSET MailId] : Covers(c, t)'
  BY <1>1, <1>3, DeleteCovers, SaveCovers, OtherCalm, CalmCovers
<1> QED
  BY <1>1, <1>2, <1>3, CalmCovers DEF Next, Expire, DeleteCompain, Restart, vars

(* Counting: n batches have at most n times Variations mails. *)
LEMMA BatchesCount ==
    ASSUME NEW b \in [Worker -> SUBSET MailId],
           \A w \in Worker : Cardinality(b[w]) <= Variations
    PROVE  /\ IsFiniteSet(UNION {b[w] : w \in Worker})
           /\ Cardinality(UNION {b[w] : w \in Worker}) <= Variations * Cardinality(Worker)
<1> DEFINE U(S) == UNION {b[w] : w \in S}
           P(S) == IsFiniteSet(U(S)) /\ Cardinality(U(S)) <= Variations * Cardinality(S)
           N == {n \in Nat : \A S \in SUBSET Worker :
                                IsFiniteSet(S) /\ Cardinality(S) = n => P(S)}
<1>1. 0 \in N
  <2> SUFFICES ASSUME NEW S \in SUBSET Worker, IsFiniteSet(S), Cardinality(S) = 0
               PROVE  P(S)
    OBVIOUS
  <2>1. S = {}
    BY FS_EmptySet
  <2>2. U(S) = {}
    BY <2>1
  <2> HIDE DEF U
  <2> QED
    BY <2>2, FS_EmptySet, BoundsAssumption
<1>2. ASSUME NEW n \in N PROVE n + 1 \in N
  <2>0. n \in Nat /\ n + 1 \in Nat
    OBVIOUS
  <2> SUFFICES ASSUME NEW S \in SUBSET Worker, IsFiniteSet(S), Cardinality(S) = n + 1
               PROVE  P(S)
    <3> HIDE DEF P
    <3> QED
      BY <2>0
  <2>1. PICK w : w \in S
    BY <2>0, FS_EmptySet
  <2> DEFINE R == S \ {w}
  <2>2. IsFiniteSet(R) /\ Cardinality(R) = n
    <3>1. IsFiniteSet(R) /\ Cardinality(R) = (n + 1) - 1
      <4> HIDE DEF N
      <4> QED
        BY <2>1, FS_RemoveElement
    <3> QED
      BY <2>0, <3>1
  <2>3. P(R)
    BY <1>2, <2>2
  <2>4. U(S) = U(R) \cup b[w]
    BY <2>1
  <2>5. w \in Worker /\ IsFiniteSet(b[w]) /\ Cardinality(b[w]) <= Variations
    <3>1. IsFiniteSet(MailId)
      BY FS_Interval, BoundsAssumption DEF MailId
    <3>2. w \in Worker /\ b[w] \in SUBSET MailId
      BY <2>1
    <3> QED
      BY <3>1, <3>2, FS_Subset
  <2> HIDE DEF U, R
  <2>6. IsFiniteSet(U(S)) /\ Cardinality(U(S)) <= Cardinality(U(R)) + Cardinality(b[w])
    <3>1. IsFiniteSet(U(R) \cap b[w])
      BY <2>5, FS_Subset
    <3>2. /\ Cardinality(U(R) \cap b[w]) \in Nat
          /\ Cardinality(U(R)) \in Nat /\ Cardinality(b[w]) \in Nat
      BY <2>3, <2>5, <3>1, FS_CardinalityType
    <3>3. /\ IsFiniteSet(U(R) \cup b[w])
          /\ Cardinality(U(R) \cup b[w])
                = Cardinality(U(R)) + Cardinality(b[w]) - Cardinality(U(R) \cap b[w])
      BY <2>3, <2>5, FS_Union
    <3> QED
      BY <2>4, <3>2, <3>3
  <2>7. Variations * (n + 1) = Variations * n + Variations
    BY BoundsAssumption
  <2>8. /\ Cardinality(U(R)) \in Nat /\ Cardinality(b[w]) \in Nat /\ Cardinality(U(S)) \in Nat
        /\ Variations * n \in Nat /\ Variations \in Nat
    BY <2>3, <2>5, <2>6, FS_CardinalityType, BoundsAssumption
  <2> QED
    BY <2>2, <2>3, <2>5, <2>6, <2>7, <2>8
<1>3. N = Nat
  <2>1. N \in SUBSET Nat
    OBVIOUS
  <2> HIDE DEF N
  <2> QED
    BY <1>1, <1>2, <2>1, SetInduction
<1> QED
  BY <1>3, WorkerAssumption, FS_CardinalityType

(* Overlapping runs on a template leave at most a batch per worker,        *)
(* however often runs fail and the server is restarted.                    *)
THEOREM BoundedMailsHolds == Spec => []BoundedMails
<1>1. Init => BatchInv
  <2> SUFFICES ASSUME Init, NEW t \in TemplateId
               PROVE  \E b \in [Worker -> SUBSET MailId] : Covers(b, t)
    BY DEF BatchInv
  <2> DEFINE b == [w \in Worker |-> {}]
  <2>1. Mails(t) = {}
    BY TemplateIdAssumption DEF Init, NoMail, Mails
  <2>2. b \in [Worker -> SUBSET MailId] /\ \A w \in Worker : b[w] = {}
    OBVIOUS
  <2> HIDE DEF b
  <2>3. Covers(b, t)
    BY <2>1, <2>2, FS_EmptySet, BoundsAssumption DEF Covers
  <2> QED
    BY <2>2, <2>3
<1>2. BatchInv => BoundedMails
  <2> SUFFICES ASSUME BatchInv, NEW t \in TemplateId
               PROVE  Cardinality(Mails(t)) <= Variations * Cardinality(Worker)
    BY DEF BoundedMails
  <2>1. PICK b \in [Worker -> SUBSET MailId] : Covers(b, t)
    BY DEF BatchInv
  <2> DEFINE U == UNION {b[w] : w \in Worker}
  <2>2. IsFiniteSet(U) /\ Cardinality(U) <= Variations * Cardinality(Worker)
    BY <2>1, BatchesCount DEF Covers
  <2>3. Mails(t) \in SUBSET U
    BY <2>1 DEF Covers
  <2> HIDE DEF U
  <2>4. IsFiniteSet(Mails(t)) /\ Cardinality(Mails(t)) <= Cardinality(U)
    BY <2>2, <2>3, FS_Subset
  <2>5. Cardinality(Mails(t)) \in Nat /\ Cardinality(U) \in Nat
    BY <2>2, <2>4, FS_CardinalityType
  <2>6. Variations * Cardinality(Worker) \in Nat
    BY WorkerAssumption, FS_CardinalityType, BoundsAssumption
  <2> QED
    BY <2>2, <2>4, <2>5, <2>6
<1> QED
  BY <1>1, <1>2, BatchStep, Invariance, PTL DEF Spec
===============================================================================
