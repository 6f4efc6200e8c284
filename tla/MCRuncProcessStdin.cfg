CONSTANTS
    Tty = TRUE
    Stdin = TRUE
SPECIFICATION IoSpec
CHECK_DEADLOCK FALSE
PROPERTY CopiesUnblocked
