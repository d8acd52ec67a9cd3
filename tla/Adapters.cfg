SPECIFICATION MCSpec
CONSTANTS
    Scenarios = {"claude_calls", "claude_queue", "claude_resumes", "codex_calls", "codex_approvals", "slice_decided", "slice_steered", "opencode_calls", "opencode_shared", "opencode_answers"}
 
INVARIANTS AcksAreTrue
INVARIANTS EvidenceIsTrue
CHECK_DEADLOCK FALSE
