----------------------------- MODULE UserCopy -----------------------------
(***************************************************************************)
(* How the kernel reads and writes user memory: the validation of a range, *)
(* the copy by bytes and words, the scan for a C string page by page, and  *)
(* the argument vectors and initial stack of exec.  Pure algorithms: a     *)
(* behaviour takes one input and computes its result.                      *)
(***************************************************************************)
EXTENDS Integers, Sequences, FiniteSets, SequencesExt, FiniteSetsExt, Functions

CONSTANTS
  PAGE_SIZE, USER_TEXT_BASE, USER_STACK_TOP,
  MaxAddr,          \* usize::MAX, small
  MAX_USER_COPY,
  COPY_WORD_BYTES,
  Layouts,          \* what is mapped: page -> "none", "kernel", "r" or "rw"
  Texts,            \* what memory holds: address -> 0 or 1
  Limits,           \* the longest strings asked for
  USER_STACK_SIZE,
  STACK_ALIGN,      \* 16
  ArgLists,         \* sequences of strings
  None

VARIABLES task, result

vars == <<task, result>>

error(e) == [err |-> e, bytes |-> <<>>]
align_down(a, n) == (a \div n) * n
page(a) == a \div PAGE_SIZE

----------------------------------------------------------------------------
(* Ranges.                                                                 *)

\* check_mapping, and the EL0 permission that the hardware reports.
allows(perm, access) == IF access = "write" THEN perm = "rw" ELSE perm \in {"r", "rw"}

\* validate_user_range_unbounded: a read inside one page asks the hardware, other
\* accesses walk the pages.
validate_user_range_unbounded(map, ptr, len, access) ==
  LET end == ptr + len IN
  /\ len > 0 /\ end <= MaxAddr
  /\ ptr >= USER_TEXT_BASE /\ end <= USER_STACK_TOP
  /\ IF access = "read" /\ page(ptr) = page(end - 1)
     THEN allows(map[page(ptr)], access)
     ELSE \A p \in page(ptr)..page(end - 1) : allows(map[p], access)
validate_user_range(map, ptr, len, access) ==
  len <= MAX_USER_COPY /\ validate_user_range_unbounded(map, ptr, len, access)

prefix_forward(ptr, len) == Min({ptr % COPY_WORD_BYTES, len})
\* read_validated_user_bytes and write_validated_user_bytes: bytes up to the first
\* aligned word, words, and the bytes that remain.  The accesses, in order.
prefix_of(ptr, len) == Min({(-ptr) % COPY_WORD_BYTES, len})
accesses(ptr, len) ==
  LET prefix == prefix_of(ptr, len)
      words == (len - prefix) \div COPY_WORD_BYTES
      word_end == prefix + words * COPY_WORD_BYTES
      at(offset, width) == [addr |-> ptr + offset, width |-> width]
  IN [k \in 1..prefix |-> at(k - 1, 1)]
     \o [k \in 1..words |-> at(prefix + (k - 1) * COPY_WORD_BYTES, COPY_WORD_BYTES)]
     \o [k \in 1..(len - word_end) |-> at(word_end + k - 1, 1)]

----------------------------------------------------------------------------
(* Strings.                                                                *)

\* One page of copy_cstr_from_user: the part of it that may still be scanned is
\* validated, then read up to a NUL.
chunk_len(cursor, scanned, max_len) ==
  Min({align_down(cursor, PAGE_SIZE) + PAGE_SIZE - cursor, max_len + 1 - scanned})
scan_page(map, text, max_len, acc) ==
  LET n == chunk_len(acc.cursor, acc.scanned, max_len)
      nul == {k \in 0..(n - 1) : text[acc.cursor + k] = 0}
      taken == IF nul = {} THEN n ELSE Min(nul)
  IN IF acc.done \/ acc.scanned > max_len THEN acc
     ELSE IF ~validate_user_range_unbounded(map, acc.cursor, n, "read")
     THEN [acc EXCEPT !.done = TRUE, !.value = error("fault")]
     ELSE IF acc.scanned + taken > max_len
     THEN [acc EXCEPT !.done = TRUE, !.value = error("NameTooLong")]
     ELSE [cursor |-> acc.cursor + n, scanned |-> acc.scanned + n, done |-> nul # {},
           value |-> [err |-> "none", bytes |-> acc.value.bytes \o [k \in 1..taken |-> text[acc.cursor + k - 1]]]]
\* copy_cstr_from_user.
copy_cstr_from_user(map, text, ptr, max_len) ==
  LET pages == [k \in 1..(max_len + 1) |-> k]
      end == FoldLeft(LAMBDA acc, k : scan_page(map, text, max_len, acc),
                      [cursor |-> ptr, scanned |-> 0, done |-> FALSE, value |-> error("none")], pages)
  IN IF end.done THEN end.value ELSE error("NameTooLong")

----------------------------------------------------------------------------
(* Exec arguments and the initial stack.                                   *)

\* initial_stack_table_words: the count, the pointers and a NULL after each list.
table_words(argc, envc) == 1 + argc + 1 + envc + 1
\* exec_arg_string_budget; negative means none.
exec_arg_string_budget(argc, envc) == USER_STACK_SIZE - table_words(argc, envc) * COPY_WORD_BYTES
string_bytes(list) == FoldLeft(LAMBDA n, s : n + Len(s) + 1, 0, list)

\* ExecArgs::push: the strings so far fit beside the table that points to them.
fits(argv, envp) == string_bytes(argv) + string_bytes(envp) <= exec_arg_string_budget(Len(argv), Len(envp))
\* copy_exec_string_vector pushes string after string, up to the NULL pointer: the lists
\* that are checked on the way.
copy_exec_string_vector(list) == {SubSeq(list, 1, n) : n \in DOMAIN list}
\* copy_exec_args_from_user.
accepted(argv, envp) ==
  /\ \A a \in copy_exec_string_vector(argv) : fits(a, <<>>)
  /\ \A e \in copy_exec_string_vector(envp) : fits(argv, e)

base == USER_STACK_TOP - USER_STACK_SIZE
\* write_stack_bytes and write_stack_u64; a word occupies its bytes.
put(memory, at, cells) ==
  [a \in DOMAIN memory \cup {at + k - 1 : k \in DOMAIN cells} |->
     IF a \in at..(at + Len(cells) - 1) THEN cells[a - at + 1] ELSE memory[a]]
word(v) == [k \in 1..COPY_WORD_BYTES |-> [value |-> v, part |-> k]]
cstr(s) == [k \in 1..(Len(s) + 1) |-> [value |-> Append(s, 0)[k], part |-> 0]]

\* push_stack_cstr.
push_stack_cstr(acc, s) ==
  LET sp == acc.sp - (Len(s) + 1) IN
  IF acc.failed \/ sp < base THEN [acc EXCEPT !.failed = TRUE]
  ELSE [failed |-> FALSE, sp |-> sp, ptrs |-> <<sp>> \o acc.ptrs,
        memory |-> put(acc.memory, sp, cstr(s))]
\* build_initial_user_stack: variables and arguments from the top down, each list
\* backwards, then the table of pointers below them.
build_initial_user_stack(argv, envp) ==
  LET strings == FoldLeft(push_stack_cstr,
        [failed |-> FALSE, sp |-> USER_STACK_TOP, ptrs |-> <<>>, memory |-> <<>>], Reverse(argv \o envp))
      sp == align_down(align_down(strings.sp, STACK_ALIGN)
                       - table_words(Len(argv), Len(envp)) * COPY_WORD_BYTES, STACK_ALIGN)
      arg_ptrs == SubSeq(strings.ptrs, 1, Len(argv))
      env_ptrs == SubSeq(strings.ptrs, Len(argv) + 1, Len(argv) + Len(envp))
      table == <<Len(argv)>> \o arg_ptrs \o <<0>> \o env_ptrs \o <<0>>
  IN IF strings.failed \/ sp < base THEN None
     ELSE [sp |-> sp, memory |-> put(strings.memory, sp, FlattenSeq([k \in DOMAIN table |-> word(table[k])]))]

----------------------------------------------------------------------------

Init ==
  /\ result = None
  /\ \/ \E map \in Layouts, ptr \in 0..MaxAddr, len \in 0..(MAX_USER_COPY + 1), access \in {"read", "write"} :
          task = [kind |-> "range", map |-> map, ptr |-> ptr, len |-> len, access |-> access]
     \/ \E map \in Layouts, text \in Texts, ptr \in USER_TEXT_BASE..(USER_STACK_TOP - 1), max \in Limits :
          task = [kind |-> "string", map |-> map, text |-> text, ptr |-> ptr, max |-> max]
     \/ \E argv, envp \in ArgLists : task = [kind |-> "exec", argv |-> argv, envp |-> envp]

\* copy_from_user and copy_to_user: an empty range succeeds before it is validated.
CopyBytes ==
  /\ result = None /\ task.kind = "range"
  /\ LET ok == task.len = 0 \/ validate_user_range(task.map, task.ptr, task.len, task.access)
     IN result' = [ok |-> ok, accesses |-> IF ok THEN accesses(task.ptr, task.len) ELSE <<>>]
  /\ UNCHANGED task
CopyString ==
  /\ result = None /\ task.kind = "string"
  /\ result' = [value |-> copy_cstr_from_user(task.map, task.text, task.ptr, task.max)]
  /\ UNCHANGED task
\* copy_exec_args_from_user, then stage_exec_image: E2BIG from either.
StageExec ==
  /\ result = None /\ task.kind = "exec"
  /\ result' = [accepted |-> accepted(task.argv, task.envp),
                stack |-> IF accepted(task.argv, task.envp)
                          THEN build_initial_user_stack(task.argv, task.envp) ELSE None]
  /\ UNCHANGED task

Next == CopyBytes \/ CopyString \/ StageExec
Spec == Init /\ [][Next]_vars

----------------------------------------------------------------------------
(* Properties.                                                             *)

readable(a, access) == a >= USER_TEXT_BASE /\ a < USER_STACK_TOP /\ allows(task.map[page(a)], access)

\* A copy succeeds exactly if the range is bounded and the process may access its every
\* byte, so an empty range always does, and then touches each byte of the range once and
\* no other, words only where they are aligned.
CopyIsExact ==
  result # None /\ task.kind = "range" =>
    LET range == task.ptr..(task.ptr + task.len - 1)
        touched(x) == x.addr..(x.addr + x.width - 1)
    IN /\ result.ok <=> task.len <= MAX_USER_COPY /\ \A a \in range : readable(a, task.access)
       /\ result.ok =>
            /\ UNION {touched(x) : x \in Range(result.accesses)} = range
            /\ FoldLeft(LAMBDA n, x : n + x.width, 0, result.accesses) = task.len
            /\ \A x \in Range(result.accesses) : x.addr % x.width = 0

\* A string is returned exactly if it ends within the limit and every byte up to its
\* NUL is readable: a string that ends just before unmapped memory is accepted, one
\* that runs into it faults, and a longer one is too long.
StringIsExact ==
  result # None /\ task.kind = "string" =>
    LET span == 0..task.max
        nul == {k \in span : readable(task.ptr + k, "read") /\ task.text[task.ptr + k] = 0}
        unreadable == {k \in span : ~readable(task.ptr + k, "read")}
        first(S) == IF S = {} THEN task.max + 1 ELSE Min(S)
    IN IF first(nul) < first(unreadable)
       THEN result.value = [err |-> "none", bytes |-> [k \in 1..first(nul) |-> task.text[task.ptr + k - 1]]]
       ELSE result.value = error(IF unreadable = {} THEN "NameTooLong" ELSE "fault")

\* The new program finds its arguments: the stack pointer is aligned and inside the
\* stack, and the table there leads to the strings that exec was given.  Accepted
\* arguments are refused later only for want of the padding.
ExecStackIsExact ==
  result # None /\ task.kind = "exec" =>
    LET st == result.stack
        argc == Len(task.argv)
        word_at(a) == IF \A k \in 1..COPY_WORD_BYTES : a + k - 1 \in DOMAIN st.memory /\ st.memory[a + k - 1].part = k
                      THEN st.memory[a].value ELSE -1
        pointer(i) == word_at(st.sp + i * COPY_WORD_BYTES)
        holds(a, s) == \A k \in 1..(Len(s) + 1) : a + k - 1 \in DOMAIN st.memory /\ st.memory[a + k - 1] = cstr(s)[k]
    IN /\ st # None =>
            /\ st.sp % STACK_ALIGN = 0 /\ DOMAIN st.memory \subseteq base..(USER_STACK_TOP - 1) /\ st.sp >= base
            /\ pointer(0) = argc /\ pointer(argc + 1) = 0 /\ pointer(argc + 1 + Len(task.envp) + 1) = 0
            /\ \A i \in 1..argc : holds(pointer(i), task.argv[i])
            /\ \A i \in 1..Len(task.envp) : holds(pointer(argc + 1 + i), task.envp[i])
       /\ result.accepted /\ st = None =>
            string_bytes(task.argv) + string_bytes(task.envp) + 2 * (STACK_ALIGN - 1)
              > exec_arg_string_budget(argc, Len(task.envp))
=============================================================================
