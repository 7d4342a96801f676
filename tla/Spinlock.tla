------------------------------ MODULE Spinlock ------------------------------
(***************************************************************************)
(* One spinlock_T (spinlock.h), as Pos.printk_lock is used: every CPU takes*)
(* it with spin_lock_irqsave from its task context and from its interrupt  *)
(* handlers, which call color_printk too.  Each locked instruction on the  *)
(* lock word is one action.  spin_trylock, which no file of the kernel     *)
(* calls yet, is used by the CPUs in TryLockers.                           *)
(***************************************************************************)
EXTENDS Integers, FiniteSets

CONSTANTS
  Processors,  \* the CPUs
  IrqCPUs,     \* those that take device interrupts (the IOAPIC routes to CPU 0)
  TryLockers   \* those whose task context may call spin_trylock

ASSUME CPUAssumption ==
  /\ IsFiniteSet(Processors)
  /\ IrqCPUs \subseteq Processors
  /\ TryLockers \subseteq Processors \ IrqCPUs

\* A processor executes in its task context or in an interrupt handler above it.
Contexts == Processors \X {"task", "irq"}
Cpu(c) == c[1]

VARIABLES
  lock,                \* spinlock_T.lock, a signed view of the 64-bit word
  lock_pc,             \* where each context is
  irq_on,              \* the interrupt flag of each CPU
  flags,               \* what local_irq_save saved, per context
  handling,            \* the CPUs that are in an interrupt handler
  lock_preempt_count,  \* preempt_count of the task each CPU runs
  misread              \* history: a spin_trylock took a negative word for a free lock

lock_vars == <<lock, lock_pc, irq_on, flags, handling, lock_preempt_count, misread>>

\* "out"   does not use the lock      "dec"  at "lock decq"
\* "spin"  waits for a positive word  "held" inside the critical section
\* "free"  has stored 1, preempt_enable and irqrestore not done yet
\* "fail"  spin_trylock got 0, preempt_enable not done yet
LockPCs == {"out", "dec", "spin", "held", "free", "fail"}

\* The context whose instructions the CPU executes.
Executes(c) == c = <<Cpu(c), IF Cpu(c) \in handling THEN "irq" ELSE "task">>

At(c, here) == Executes(c) /\ lock_pc[c] = here
LockGoto(c, here, next) == At(c, here) /\ lock_pc' = [lock_pc EXCEPT ![c] = next]

LockInit ==
  /\ lock = 1
  /\ lock_pc = [c \in Contexts |-> "out"]
  /\ irq_on = [p \in Processors |-> TRUE]
  /\ flags = [c \in Contexts |-> TRUE]
  /\ handling = {}
  /\ lock_preempt_count = [p \in Processors |-> 0]
  /\ misread = FALSE
-----------------------------------------------------------------------------
(* Operators named for what they do wrong are variants, each of the action that *)
(* follows it, that a slip in the code would give.                             *)

IrqSaveWithoutCli(c) ==
  /\ LockGoto(c, "out", "dec")
  /\ flags' = [flags EXCEPT ![c] = irq_on[Cpu(c)]]
  /\ lock_preempt_count' = [lock_preempt_count EXCEPT ![Cpu(c)] = @ + 1]
  /\ UNCHANGED <<lock, irq_on, handling, misread>>

\* spin_lock_irqsave up to the first "lock decq".
IrqSave(c) ==
  /\ LockGoto(c, "out", "dec")
  /\ flags' = [flags EXCEPT ![c] = irq_on[Cpu(c)]]
  /\ irq_on' = [irq_on EXCEPT ![Cpu(c)] = FALSE]
  /\ lock_preempt_count' = [lock_preempt_count EXCEPT ![Cpu(c)] = @ + 1]
  /\ UNCHANGED <<lock, handling, misread>>

DecrementOffByOne(c) ==
  /\ lock' = lock - 1
  /\ LockGoto(c, "dec", IF lock - 1 >= -1 THEN "held" ELSE "spin")
  /\ UNCHANGED <<irq_on, flags, handling, lock_preempt_count, misread>>

\* "lock decq; jns 3f".
Decrement(c) ==
  /\ lock' = lock - 1
  /\ LockGoto(c, "dec", IF lock - 1 >= 0 THEN "held" ELSE "spin")
  /\ UNCHANGED <<irq_on, flags, handling, lock_preempt_count, misread>>

SpinUnguarded(c) ==
  /\ LockGoto(c, "spin", "dec")
  /\ UNCHANGED <<lock, irq_on, flags, handling, lock_preempt_count, misread>>

\* "cmpq $0; jle 2b; jmp 1b": reads the word without locking it.
Spin(c) ==
  /\ lock > 0
  /\ LockGoto(c, "spin", "dec")
  /\ UNCHANGED <<lock, irq_on, flags, handling, lock_preempt_count, misread>>

UnlockByIncrement(c) ==
  /\ LockGoto(c, "held", "free")
  /\ lock' = lock + 1
  /\ UNCHANGED <<irq_on, flags, handling, lock_preempt_count, misread>>

\* spin_unlock's "movq $1".
SpinUnlock(c) ==
  /\ LockGoto(c, "held", "free")
  /\ lock' = 1
  /\ UNCHANGED <<irq_on, flags, handling, lock_preempt_count, misread>>

\* preempt_enable, then local_irq_restore.
IrqRestore(c) ==
  /\ LockGoto(c, "free", "out")
  /\ lock_preempt_count' = [lock_preempt_count EXCEPT ![Cpu(c)] = @ - 1]
  /\ irq_on' = [irq_on EXCEPT ![Cpu(c)] = flags[c]]
  /\ UNCHANGED <<lock, flags, handling, misread>>

\* spin_trylock: preempt_disable and "xchgq" with 0.  Whatever was not 0 counts
\* as acquired.
TryLock(c) ==
  /\ c \in TryLockers \X {"task"}
  /\ LockGoto(c, "out", IF lock # 0 THEN "held" ELSE "fail")
  /\ lock' = 0
  /\ lock_preempt_count' = [lock_preempt_count EXCEPT ![Cpu(c)] = @ + 1]
  /\ misread' = (misread \/ lock < 0)
  /\ flags' = [flags EXCEPT ![c] = irq_on[Cpu(c)]]
  /\ UNCHANGED <<irq_on, handling>>

\* The way out of a spin_trylock that failed: preempt_enable.
TryFail(c) ==
  /\ LockGoto(c, "fail", "out")
  /\ lock_preempt_count' = [lock_preempt_count EXCEPT ![Cpu(c)] = @ - 1]
  /\ UNCHANGED <<lock, irq_on, flags, handling, misread>>

\* An interrupt gate clears the interrupt flag; iretq sets it again.
Interrupt(p) ==
  /\ p \in IrqCPUs \ handling /\ irq_on[p]
  /\ handling' = handling \cup {p}
  /\ irq_on' = [irq_on EXCEPT ![p] = FALSE]
  /\ UNCHANGED <<lock, lock_pc, flags, lock_preempt_count, misread>>

InterruptReturn(p) ==
  /\ At(<<p, "irq">>, "out") /\ p \in handling
  /\ handling' = handling \ {p}
  /\ irq_on' = [irq_on EXCEPT ![p] = TRUE]
  /\ UNCHANGED <<lock, lock_pc, flags, lock_preempt_count, misread>>

Steps(c) == IrqSave(c) \/ Decrement(c) \/ Spin(c) \/ SpinUnlock(c) \/ IrqRestore(c)
            \/ TryLock(c) \/ TryFail(c)
LockNext == \/ \E c \in Contexts : Steps(c)
            \/ \E p \in Processors : Interrupt(p) \/ InterruptReturn(p)

LockSpec == LockInit /\ [][LockNext]_lock_vars

\* Code inside the kernel's lock path is finite and every CPU goes on executing;
\* nothing makes a CPU take the lock again or a device interrupt it.
LockFairSpec ==
  /\ LockSpec
  /\ \A c \in Contexts : WF_lock_vars(Decrement(c) \/ Spin(c) \/ SpinUnlock(c)
                                      \/ IrqRestore(c) \/ TryFail(c))
-----------------------------------------------------------------------------
(* Properties *)

\* Every variable keeps its type; the lock word never exceeds 1.
LockTypeOK ==
  /\ lock \in Int /\ lock <= 1
  /\ lock_pc \in [Contexts -> LockPCs]
  /\ irq_on \in [Processors -> BOOLEAN]
  /\ flags \in [Contexts -> BOOLEAN]
  /\ handling \subseteq Processors
  /\ lock_preempt_count \in [Processors -> Int]
  /\ misread \in BOOLEAN

Holders == {c \in Contexts : lock_pc[c] = "held"}
Spinners == {c \in Contexts : lock_pc[c] = "spin"}

\* At most one context of all CPUs is in the critical section, unless a
\* spin_trylock has taken the negative word of a held and contended lock for a
\* free one: spin_lock alone never fails, whatever the number of CPUs.
MutualExclusion == ~misread => \A c, d \in Holders : c = d

\* However often spinners retry, the word sinks by at most one for each context
\* that spins, so it cannot run down to the sign change of a 64-bit word.
WordBounded == lock >= -Cardinality(Spinners)
WordSound == LockTypeOK /\ WordBounded

\* A handler never runs above a context of its own CPU that holds the lock or
\* waits for it (it would spin forever): local_irq_save comes before the first
\* decrement and local_irq_restore after the release.
NoSelfDeadlock == \A p \in handling : lock_pc[<<p, "task">>] = "out"

\* While contexts wait for the lock, one after another gets it: an unlock is
\* never lost among the decrements of those that spin.
LockProgress == (\E c \in Contexts : lock_pc[c] \in {"dec", "spin"}) ~> (Holders # {})
=============================================================================
