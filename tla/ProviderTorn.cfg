\* The background task and a retry of the dead letter queue download at once.
SPECIFICATION Spec
CONSTANTS
    Downloads = {loop, retry}
    Builds = {build}
    Garbage = {page}
INVARIANT InstalledIsWhole
