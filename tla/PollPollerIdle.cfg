CONSTANTS
    Fds = {0, 1, 2}
    Risks = {"startsIdle"}
SPECIFICATION Spec
INVARIANT AssertionsHold
