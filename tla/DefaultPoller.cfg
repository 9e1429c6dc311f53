CONSTANTS
    Fds = {0, 1, 2}
    kInitEventListSize = 1
    Risks = {}
SPECIFICATION SpecDefault
PROPERTIES ImplementsPoller PollImplementsPoller
