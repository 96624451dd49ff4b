\* Two chats, redelivered and overtaking messages, one session that comes and goes.
CONSTANTS
    f1 = f1
    f2 = f2
    t1 = t1
    t2 = t2
    t3 = t3
    b1 = b1
    c1 = c1
    c2 = c2
    Files = {f1, f2}
    Texts = {t1, t2, t3}
    Blanks = {b1}
    Chats = {c1, c2}
    ChatOf <- TwoChats
    MaxTasks = 4
    Sessions = {s1}
SPECIFICATION Spec
SYMMETRY Symmetry
CONSTRAINT FourOfAChat
INVARIANTS TypeOK RefInOnePlace ToldOnce AnswerFindsRun UploadNotBehind
CHECK_DEADLOCK FALSE
