------------------------------- MODULE NvmMap -------------------------------
(***************************************************************************)
(* What CUBES keeps in the eNVM, and where (mem.h).  Offsets are from      *)
(* MEM_ENVM0_BASE.                                                         *)
(***************************************************************************)
EXTENDS NvmProtection

BYTES_PER_PAGE == 128

Page(offset) == offset \div BYTES_PER_PAGE

MEM_RESET_COUNTER == 15 * 4096
MEM_SEQFLAGS == 15 * 4096 + 256
MEM_CLEAN_POWEROFF == 15 * 4096 + 512
MEM_CITIROC_CONF_NVM == 16 * 4096
MEM_CITIROC_CONF_ID == 32 * 4096 - 16

MEM_CITIROC_CONF_LEN == 144

ConfIds == 1..254

Slot(id) == MEM_CITIROC_CONF_NVM + (id - 1) * MEM_CITIROC_CONF_LEN

\* Everything that is written: where it starts, and its bytes.
Items ==
    { <<MEM_RESET_COUNTER, 4>>, <<MEM_SEQFLAGS, 16>>, <<MEM_CLEAN_POWEROFF, 1>>,
      <<MEM_CITIROC_CONF_ID, 1>> }
    \cup { <<Slot(id), MEM_CITIROC_CONF_LEN>> : id \in ConfIds }

FirstPage(item) == Page(item[1])
LastPage(item) == Page(item[1] + item[2] - 1)

SharePage(a, b) == FirstPage(a) <= LastPage(b) /\ FirstPage(b) <= LastPage(a)
=============================================================================
